----------------------------- MODULE MCShmHash -----------------------------
(* Instances of ShmHash for TLC: a table that grows once, from two buckets to three. *)
EXTENDS ShmHash

MCCapacities == <<2, 3>>
=============================================================================
