------------------------------ MODULE JobPool ------------------------------
(***************************************************************************)
(* What a pool of worker threads promises to the code that hands it jobs:  *)
(* a job that was accepted is taken by one worker, processed once and      *)
(* handed back at most once, and a closed pool accepts nothing any more.   *)
(* WorkCrew is shown to implement this specification; SslAsyncHandshake    *)
(* is written on top of it.                                                *)
(***************************************************************************)
CONSTANT Jobs       \* one element per call of addJob

VARIABLES pending,    \* accepted, not yet taken by a worker
          processing, \* in the hands of a worker
          done,       \* processed: reported, or processed without a report
          open        \* the pool still accepts jobs

poolVars == <<pending, processing, done, open>>

PoolTypeOK ==
    /\ pending \subseteq Jobs
    /\ processing \subseteq Jobs
    /\ done \subseteq Jobs
    /\ open \in BOOLEAN

PoolInit ==
    /\ pending = {}
    /\ processing = {}
    /\ done = {}
    /\ open = TRUE

Known == pending \cup processing \cup done

Accept(j) ==
    /\ open
    /\ j \notin Known
    /\ pending' = pending \cup {j}
    /\ UNCHANGED <<processing, done, open>>

Take(j) ==
    /\ j \in pending
    /\ pending' = pending \ {j}
    /\ processing' = processing \cup {j}
    /\ UNCHANGED <<done, open>>

Complete(j) ==
    /\ j \in processing
    /\ processing' = processing \ {j}
    /\ done' = done \cup {j}
    /\ UNCHANGED <<pending, open>>

Close ==
    /\ open
    /\ open' = FALSE
    /\ UNCHANGED <<pending, processing, done>>

PoolNext ==
    \/ \E j \in Jobs : Accept(j) \/ Take(j) \/ Complete(j)
    \/ Close

PoolSpec == PoolInit /\ [][PoolNext]_poolVars
=============================================================================
