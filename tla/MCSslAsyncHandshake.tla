------------------------ MODULE MCSslAsyncHandshake ------------------------
(***************************************************************************)
(* Instances of SslAsyncHandshake for TLC.                                 *)
(***************************************************************************)
EXTENDS SslAsyncHandshake, TLC

\* Links and jobs are interchangeable.
Symmetry == Permutations(Links) \cup Permutations(Jobs)
=============================================================================
