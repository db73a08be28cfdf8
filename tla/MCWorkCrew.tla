----------------------------- MODULE MCWorkCrew -----------------------------
(***************************************************************************)
(* Instances of WorkCrew for TLC.                                          *)
(***************************************************************************)
EXTENDS WorkCrew, TLC

\* Worker identities and jobs are interchangeable.
Symmetry == Permutations(Workers) \cup Permutations(Jobs)

NoIdleChoices == {}
SomeIdleChoices == {<<0, 1>>, <<1, 1>>}
=============================================================================
