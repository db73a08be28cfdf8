---------------------------- MODULE MCExtWorker ----------------------------
(* Small instances of ExtWorker. *)
EXTENDS ExtWorker, TLC

ReqSymmetry == Permutations(Reqs)
=============================================================================
