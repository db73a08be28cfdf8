------------------------- MODULE WorkCrewRefinement -------------------------
(***************************************************************************)
(* WorkCrew implements JobPool, for any number of threads and jobs.        *)
(*                                                                         *)
(* Four steps of the crew are steps of the pool: append() accepts a job,   *)
(* doGet() takes one, the end of workerRoutine()'s loop body completes one *)
(* and shutdown() closes the pool.  All others leave the pool as it is.    *)
(***************************************************************************)
EXTENDS WorkCrewProofs

\* m_bShutdown is set in stopProcessing() only, and startProcessing(), which
\* clears it, is never run afterwards.
OpenUntilStopped ==
    /\ m_bShutdown => m_stateFutex \in {"STOPPING", "STOPPED"}
    /\ from[Owner] = "start" => m_stateFutex = "RUNNING"
    /\ pc[Owner] \in {"stopAll", "shutdown", "drain", "waitDead", "futex", "woken",
                      "stopAgain", "reset"}
          => m_stateFutex \in {"STOPPING", "STOPPED"}

-----------------------------------------------------------------------------
(***************************************************************************)
(* What the three kinds of steps do to the places a job can be in.         *)
(***************************************************************************)

Distinct == \A i, k \in DOMAIN jobQueue : jobQueue[i] = jobQueue[k] => i = k
HeldOnce == \A v, w \in Workers : held[v] = held[w] /\ held[v] # NULL => v = w

\* append() puts its argument, and nothing else, into the queue.
LEMMA AppendEffect ==
    ASSUME CrewInv, NEW j \in Jobs, jobQueue' = Append(jobQueue, j)
    PROVE  /\ Queued' = Queued \cup {j}
           /\ Distinct /\ j \notin Queued => Distinct'
<1>1. jobQueue \in Seq(Jobs)
  BY DEF CrewInv, TypeOK
<1>2. /\ DOMAIN jobQueue = 1 .. Len(jobQueue) /\ Len(jobQueue) \in Nat
      /\ DOMAIN jobQueue' = 1 .. Len(jobQueue) + 1
      /\ \A i \in 1 .. Len(jobQueue) : jobQueue'[i] = jobQueue[i]
      /\ jobQueue'[Len(jobQueue) + 1] = j
  BY <1>1
<1>3. Queued' = Queued \cup {j}
  <2>1. Queued \cup {j} \subseteq Queued'
    BY <1>2 DEF Queued
  <2>2. Queued' \subseteq Queued \cup {j}
    <3> SUFFICES ASSUME NEW i \in DOMAIN jobQueue'
                 PROVE  jobQueue'[i] \in Queued \cup {j}
      BY DEF Queued
    <3>1. CASE i \in 1 .. Len(jobQueue)
      BY <1>2, <3>1 DEF Queued
    <3>2. CASE i = Len(jobQueue) + 1
      BY <1>2, <3>2
    <3> QED
      BY <1>2, <3>1, <3>2
  <2> QED
    BY <2>1, <2>2
<1>4. ASSUME Distinct, j \notin Queued PROVE Distinct'
  <2> SUFFICES ASSUME NEW i \in DOMAIN jobQueue', NEW k \in DOMAIN jobQueue',
                      jobQueue'[i] = jobQueue'[k]
               PROVE  i = k
    BY DEF Distinct
  <2>1. \A n \in 1 .. Len(jobQueue) : jobQueue'[n] # j
    BY <1>2, <1>4 DEF Queued
  <2> QED
    BY <1>2, <1>4, <2>1 DEF Distinct
<1> QED
  BY <1>3, <1>4

\* doGet() moves the head of a queue from the queue to the worker.
LEMMA TakeEffect ==
    ASSUME CrewInv, NEW w \in Workers, TakeHead(w), jobQueue # <<>>, held[w] = NULL
    PROVE  \E h \in Queued :
              /\ Distinct => Queued' = Queued \ {h}
              /\ Distinct => Distinct'
              /\ HeldJobs' = HeldJobs \cup {h}
              /\ HeldOnce /\ h \notin HeldJobs => HeldOnce'
<1> DEFINE h == Head(jobQueue)
<1>1. jobQueue \in Seq(Jobs) /\ held \in [Workers -> Jobs \cup {NULL}]
  BY DEF CrewInv, TypeOK
<1>2. /\ DOMAIN jobQueue = 1 .. Len(jobQueue) /\ Len(jobQueue) \in Nat \ {0}
      /\ h = jobQueue[1] /\ h \in Jobs
      /\ jobQueue' = Tail(jobQueue)
      /\ held' = [held EXCEPT ![w] = h]
  BY <1>1 DEF TakeHead
<1>3. /\ DOMAIN jobQueue' = 1 .. Len(jobQueue) - 1
      /\ \A i \in 1 .. Len(jobQueue) - 1 : jobQueue'[i] = jobQueue[i + 1]
  BY <1>1, <1>2
<1>4. h \in Queued
  BY <1>2 DEF Queued
<1>5. ASSUME Distinct PROVE Queued' = Queued \ {h}
  <2>1. \A i \in DOMAIN jobQueue' : jobQueue'[i] \in Queued \ {h}
    BY <1>2, <1>3, <1>5 DEF Queued, Distinct
  <2>2. ASSUME NEW i \in DOMAIN jobQueue, jobQueue[i] # h PROVE jobQueue[i] \in Queued'
    <3>1. i - 1 \in DOMAIN jobQueue' /\ jobQueue'[i - 1] = jobQueue[i]
      BY <1>2, <1>3, <2>2
    <3> QED
      BY <3>1 DEF Queued
  <2> QED
    BY <2>1, <2>2 DEF Queued
<1>6. ASSUME Distinct PROVE Distinct'
  BY <1>2, <1>3, <1>6 DEF Distinct
<1>7. held'[w] = h /\ \A v \in Workers : v # w => held'[v] = held[v]
  BY <1>1, <1>2
<1>8. HeldJobs' = HeldJobs \cup {h}
  <2>1. h # NULL
    BY <1>2, ThreadsAssumption
  <2> QED
    BY <1>7, <2>1 DEF HeldJobs
<1>9. ASSUME HeldOnce, h \notin HeldJobs PROVE HeldOnce'
  BY <1>7, <1>9 DEF HeldOnce, HeldJobs
<1> QED
  BY <1>4, <1>5, <1>6, <1>8, <1>9

\* A worker that is done with its job is the only one that had it.
LEMMA CompleteEffect ==
    ASSUME CrewInv, HeldOnce, NEW w \in Workers, held[w] # NULL,
           held' = [held EXCEPT ![w] = NULL]
    PROVE  /\ held[w] \in HeldJobs
           /\ HeldJobs' = HeldJobs \ {held[w]}
           /\ HeldOnce'
<1>1. held \in [Workers -> Jobs \cup {NULL}]
  BY DEF CrewInv, TypeOK
<1>2. held'[w] = NULL /\ \A v \in Workers : v # w => held'[v] = held[v]
  BY <1>1
<1>3. held[w] \in HeldJobs
  BY DEF HeldJobs
<1>4. HeldJobs' = HeldJobs \ {held[w]}
  BY <1>2 DEF HeldJobs, HeldOnce
<1>5. HeldOnce'
  BY <1>2 DEF HeldOnce
<1> QED
  BY <1>3, <1>4, <1>5

-----------------------------------------------------------------------------
(***************************************************************************)
(* Each kind of step keeps every job in one place, and is the pool's step. *)
(***************************************************************************)

\* A step that leaves the jobs and the queue's flag alone stutters in JobPool.
LEMMA QuietStep ==
    ASSUME JobsInOnePlace,
           UNCHANGED <<jobQueue, held, finished, unreported, m_bShutdown>>,
           \A j \in Jobs : jobRet'[j] = "OK" <=> jobRet[j] = "OK"
    PROVE  JobsInOnePlace' /\ UNCHANGED Pool!poolVars
<1>1. Queued' = Queued /\ HeldJobs' = HeldJobs
  BY DEF Queued, HeldJobs
<1>2. JobsInOnePlace'
  BY <1>1 DEF JobsInOnePlace
<1> QED
  BY <1>1, <1>2 DEF Pool!poolVars

\* append() to a queue that is not shut down is JobPool's Accept.
LEMMA AcceptStep ==
    ASSUME CrewInv, JobsInOnePlace, NEW j \in Jobs, jobRet[j] = "none", ~m_bShutdown,
           jobQueue' = Append(jobQueue, j),
           jobRet' = [jobRet EXCEPT ![j] = "OK"],
           UNCHANGED <<held, finished, unreported, m_bShutdown>>
    PROVE  JobsInOnePlace' /\ Pool!Accept(j)
<1>1. j \notin Queued /\ j \notin HeldJobs /\ j \notin finished \cup unreported
  BY DEF JobsInOnePlace
<1>2. Queued' = Queued \cup {j} /\ Distinct' /\ HeldJobs' = HeldJobs /\ HeldOnce'
  BY <1>1, AppendEffect DEF JobsInOnePlace, Distinct, HeldOnce, HeldJobs
<1>3. {i \in Jobs : jobRet'[i] = "OK"} = {i \in Jobs : jobRet[i] = "OK"} \cup {j}
  BY DEF CrewInv, TypeOK
<1>4. JobsInOnePlace'
  BY <1>1, <1>2, <1>3 DEF JobsInOnePlace, Distinct, HeldOnce
<1>5. Pool!Accept(j)
  BY <1>1, <1>2 DEF Pool!Accept, Pool!Known
<1> QED
  BY <1>4, <1>5

\* A worker that takes the head of the queue does JobPool's Take.
LEMMA TakeStep ==
    ASSUME CrewInv, JobsInOnePlace, NEW w \in Workers, TakeHead(w), jobQueue # <<>>,
           held[w] = NULL,
           UNCHANGED <<finished, unreported, jobRet, m_bShutdown>>
    PROVE  JobsInOnePlace' /\ \E j \in Jobs : Pool!Take(j)
<1>1. Distinct /\ HeldOnce
  BY DEF JobsInOnePlace, Distinct, HeldOnce
<1>2. PICK h \in Queued :
         /\ Queued' = Queued \ {h} /\ Distinct'
         /\ HeldJobs' = HeldJobs \cup {h}
         /\ h \notin HeldJobs => HeldOnce'
  BY <1>1, TakeEffect
<1>3. h \in Jobs /\ h \notin HeldJobs /\ h \notin finished \cup unreported
  BY DEF JobsInOnePlace
<1>4. JobsInOnePlace'
  BY <1>2, <1>3 DEF JobsInOnePlace, Distinct, HeldOnce
<1>5. Pool!Take(h)
  BY <1>2 DEF Pool!Take
<1> QED
  BY <1>3, <1>4, <1>5

\* A worker that gives its job to either result set does JobPool's Complete.
LEMMA CompleteStep ==
    ASSUME CrewInv, JobsInOnePlace, NEW w \in Workers, held[w] # NULL,
           held' = [held EXCEPT ![w] = NULL],
           \/ finished' = finished \cup {held[w]} /\ UNCHANGED unreported
           \/ unreported' = unreported \cup {held[w]} /\ UNCHANGED finished,
           UNCHANGED <<jobQueue, jobRet, m_bShutdown>>
    PROVE  JobsInOnePlace' /\ \E j \in Jobs : Pool!Complete(j)
<1> DEFINE j == held[w]
<1>1. HeldOnce
  BY DEF JobsInOnePlace, HeldOnce
<1>2. j \in HeldJobs /\ HeldJobs' = HeldJobs \ {j} /\ HeldOnce'
  BY <1>1, CompleteEffect
<1>3. Queued' = Queued
  BY DEF Queued
<1>4. j \in Jobs /\ j \notin Queued /\ j \notin finished \cup unreported
  BY <1>2 DEF JobsInOnePlace
<1>5. JobsInOnePlace'
  BY <1>2, <1>3, <1>4 DEF JobsInOnePlace, HeldOnce
<1>6. Pool!Complete(j)
  BY <1>2, <1>3 DEF Pool!Complete
<1> QED
  BY <1>4, <1>5, <1>6

\* shutdown() closes the pool, or finds it closed.
LEMMA CloseStep ==
    ASSUME CrewInv, JobsInOnePlace, m_bShutdown' = TRUE,
           UNCHANGED <<jobQueue, held, finished, unreported, jobRet>>
    PROVE  JobsInOnePlace' /\ (Pool!Close \/ UNCHANGED Pool!poolVars)
<1>1. Queued' = Queued /\ HeldJobs' = HeldJobs
  BY DEF Queued, HeldJobs
<1>2. JobsInOnePlace'
  BY <1>1 DEF JobsInOnePlace
<1>3. m_bShutdown \in BOOLEAN
  BY DEF CrewInv, TypeOK
<1> QED
  BY <1>1, <1>2, <1>3 DEF Pool!Close, Pool!poolVars

-----------------------------------------------------------------------------
(***************************************************************************)
(* The order of startProcessing() and stopProcessing().                    *)
(***************************************************************************)

\* Every step preserves OpenUntilStopped.
LEMMA NextOpen == CrewInv /\ OpenUntilStopped /\ [Next]_vars => OpenUntilStopped'
<1> SUFFICES ASSUME CrewInv, OpenUntilStopped, [Next]_vars PROVE OpenUntilStopped'
  OBVIOUS
<1> USE ThreadsAssumption DEF CrewInv, At, Goto
<1>1. ASSUME NEW w \in Workers, WorkerStep(w) PROVE OpenUntilStopped'
  <2>1. UNCHANGED <<m_bShutdown, from>> /\ pc'[Owner] = pc[Owner]
    BY <1>1 DEF WorkerStep, CheckWorking, PollJob, BecomeIdle, TimedGet, WakeFromWait,
         LeaveIdle, ProcessJob, CheckFinishedQueue, putFinishedItem, Shrink, ThrCleanup,
         UncountDied, LockDied, UnlockDied, DeleteWorker, TypeOK, PcTypeOK, queueVars,
         clientVars
  <2>2. \/ m_stateFutex' = m_stateFutex
        \/ m_stateFutex = "STOPPING" /\ m_stateFutex' = "STOPPED"
    <3>1. CASE UnlockDied(w)
      <4>1. m_stateFutex' = IF m_stateFutex = "STOPPING" /\ m_iRunningWorkers = 0
                            THEN "STOPPED" ELSE m_stateFutex
        BY <3>1 DEF UnlockDied, LastDied, isAllWorkerDead
      <4> QED
        BY <4>1
    <3>2. CASE \/ CheckWorking(w) \/ PollJob(w) \/ BecomeIdle(w) \/ TimedGet(w)
               \/ WakeFromWait(w) \/ LeaveIdle(w) \/ ProcessJob(w)
               \/ CheckFinishedQueue(w) \/ putFinishedItem(w) \/ Shrink(w)
               \/ ThrCleanup(w) \/ UncountDied(w) \/ LockDied(w)
      BY <3>2 DEF CheckWorking, PollJob, BecomeIdle, TimedGet, WakeFromWait, LeaveIdle,
         ProcessJob, CheckFinishedQueue, putFinishedItem, Shrink, ThrCleanup,
         UncountDied, LockDied
    <3> QED
      BY <1>1, <3>1, <3>2 DEF WorkerStep
  <2> QED
    BY <2>1, <2>2 DEF OpenUntilStopped
<1>2. ASSUME NEW c \in Clients, ClientStep(c) PROVE OpenUntilStopped'
  <2>1. UNCHANGED <<m_bShutdown, m_stateFutex>>
    BY <1>2 DEF ClientStep, addWorker, addJob, GetSlot, PublishWorker, CountWorker,
         LaunchWorker, UndoWorker, ReleaseSlot, WorkerAdded, AppendJob, NeedGrow, Grow,
         queueVars
  <2>2. from'[Owner] = from[Owner] \/ from'[Owner] = "none"
    BY <1>2 DEF ClientStep, addWorker, addJob, GetSlot, PublishWorker, CountWorker,
         LaunchWorker, UndoWorker, ReleaseSlot, WorkerAdded, AppendJob, NeedGrow, Grow,
         clientVars, TypeOK
  <2>3. CrewInv'
    BY <1>2, NextCrewInv DEF Next
  <2>4. pc'[Owner] \in StopStages => pc[Owner] \in StopStages /\ pc'[Owner] = pc[Owner]
    <3>1. CASE c = Owner
      <4>1. from[c] \in {"start", "addJob"}
        BY <1>2 DEF ClientStep, addWorker, addJob, GetSlot, PublishWorker, CountWorker,
           LaunchWorker, UndoWorker, ReleaseSlot, WorkerAdded, AppendJob, NeedGrow, Grow,
           ClientPhases, StopStages
      <4> QED
        BY <2>2, <2>3, <3>1, <4>1 DEF ClientPhases, AddStages, StopStages
    <3>2. CASE c # Owner
      <4>1. CASE GetSlot(c)
        <5>1. CASE pc' = [pc EXCEPT ![c] = "added"]
          BY <3>2, <5>1 DEF TypeOK, PcTypeOK
        <5>2. ASSUME NEW w \in Workers,
                     pc' = [pc EXCEPT ![c] = "publish", ![w] = "built"]
              PROVE  pc'[Owner] = pc[Owner]
          BY <3>2, <5>2 DEF TypeOK, PcTypeOK
        <5> QED
          BY <4>1, <5>1, <5>2 DEF GetSlot
      <4>2. CASE LaunchWorker(c) \/ UndoWorker(c)
        <5>1. newWorker[c] \in Workers
          BY <4>2, BuiltFacts DEF LaunchWorker, UndoWorker
        <5> QED
          BY <3>2, <4>2, <5>1 DEF LaunchWorker, UndoWorker, TypeOK, PcTypeOK
      <4>3. CASE \/ PublishWorker(c) \/ CountWorker(c) \/ ReleaseSlot(c)
                 \/ WorkerAdded(c) \/ addJob(c)
        BY <3>2, <4>3 DEF addJob, PublishWorker, CountWorker, ReleaseSlot, WorkerAdded,
           AppendJob, NeedGrow, Grow, TypeOK, PcTypeOK
      <4> QED
        BY <1>2, <4>1, <4>2, <4>3 DEF ClientStep, addWorker
    <3> QED
      BY <3>1, <3>2
  <2> QED
    BY <2>1, <2>2, <2>4 DEF OpenUntilStopped, StopStages
<1>3. ASSUME NEW c \in Clients, NEW j \in Jobs, EnterAddJob(c, j) PROVE OpenUntilStopped'
  BY <1>3 DEF EnterAddJob, OpenUntilStopped, queueVars, TypeOK, PcTypeOK
<1>4. CASE OwnerStep
  <2>1. CASE QueueStart
    BY <2>1 DEF QueueStart, OpenUntilStopped, clientVars, TypeOK, PcTypeOK
  <2>2. CASE StartLock
    BY <2>2 DEF StartLock, OpenUntilStopped, queueVars, TypeOK, PcTypeOK
  <2>3. CASE StopAll \/ StopAgain
    BY <2>3 DEF StopAll, StopAgain, stopAllWorkers, OpenUntilStopped, queueVars,
                clientVars, TypeOK, PcTypeOK
  <2>4. CASE ShutdownQueue \/ waitTillNoWaiting \/ WaitAllDead
    BY <2>4 DEF ShutdownQueue, waitTillNoWaiting, WaitAllDead, OpenUntilStopped,
                queueVars, clientVars, TypeOK, PcTypeOK
  <2>5. CASE LookAfterWait
    <3>1. from[Owner] # "start"
      BY <2>5 DEF LookAfterWait, ClientPhases, AddStages
    <3> QED
      BY <2>5, <3>1 DEF LookAfterWait, OpenUntilStopped, queueVars, clientVars, TypeOK,
                        PcTypeOK
  <2>6. CASE ResetFinishedQueue
    BY <2>6 DEF ResetFinishedQueue, OpenUntilStopped, queueVars, TypeOK, PcTypeOK
  <2>7. CASE DeleteQueue \/ FreeCrew
    BY <2>7 DEF DeleteQueue, FreeCrew, OpenUntilStopped, queueVars, clientVars, TypeOK,
                PcTypeOK
  <2> QED
    BY <1>4, <2>1, <2>2, <2>3, <2>4, <2>5, <2>6, <2>7 DEF OwnerStep
<1>5. CASE OwnerCall
  <2>1. ASSUME pc[Owner] = "idle", StartCas, UNCHANGED m_bShutdown PROVE OpenUntilStopped'
    BY <2>1 DEF StartCas, OpenUntilStopped, TypeOK, PcTypeOK
  <2>2. CASE startProcessing
    BY <2>1, <2>2 DEF startProcessing, queueVars
  <2>3. ASSUME NEW n \in MaxChoices, startJobProcessor(n) \/ maxWorkers(n)
        PROVE  OpenUntilStopped'
    BY <2>1, <2>3 DEF startJobProcessor, maxWorkers, OpenUntilStopped, queueVars,
                      clientVars
  <2>4. ASSUME NEW p \in IdleChoices, adjustIdle(p[1], p[2]) PROVE OpenUntilStopped'
    BY <2>4 DEF adjustIdle, OpenUntilStopped, queueVars, clientVars
  <2>5. CASE stopProcessing
    BY <2>5 DEF stopProcessing, OpenUntilStopped, queueVars, TypeOK, PcTypeOK
  <2>6. CASE Destructor
    BY <2>6 DEF Destructor, OpenUntilStopped, queueVars, TypeOK, PcTypeOK
  <2> QED
    BY <1>5, <2>2, <2>3, <2>4, <2>5, <2>6 DEF OwnerCall
<1>6. CASE UNCHANGED vars
  BY <1>6 DEF vars, OpenUntilStopped, queueVars, clientVars
<1> QED
  BY <1>1, <1>2, <1>3, <1>4, <1>5, <1>6 DEF Next, Ended
-----------------------------------------------------------------------------
(***************************************************************************)
(* Every step of the crew is a step of the pool or leaves it alone.        *)
(***************************************************************************)

\* Next step by step: the steps that are not quiet are named.
LEMMA NextPool ==
    CrewInv /\ JobsInOnePlace /\ OpenUntilStopped /\ [Next]_vars
        => JobsInOnePlace' /\ [Pool!PoolNext]_(Pool!poolVars)
<1> SUFFICES ASSUME CrewInv, JobsInOnePlace, OpenUntilStopped, [Next]_vars
             PROVE  JobsInOnePlace' /\ [Pool!PoolNext]_(Pool!poolVars)
  OBVIOUS
<1> USE ThreadsAssumption
<1> DEFINE Step == JobsInOnePlace' /\ [Pool!PoolNext]_(Pool!poolVars)
           Quiet == UNCHANGED <<jobQueue, held, finished, unreported, m_bShutdown, jobRet>>
<1>1. Quiet => Step
  BY QuietStep
<1>2. ASSUME NEW w \in Workers, TakeHead(w), held[w] = NULL,
             UNCHANGED <<finished, unreported, jobRet, m_bShutdown>>
      PROVE  Step
  <2>1. CASE jobQueue = <<>>
    BY <1>1, <1>2, <2>1 DEF TakeHead
  <2>2. CASE jobQueue # <<>>
    BY <1>2, <2>2, TakeStep DEF Pool!PoolNext
  <2> QED
    BY <2>1, <2>2
<1>3. ASSUME NEW w \in Workers, WorkerStep(w) PROVE Step
  <2>1. CASE PollJob(w)
    <3>1. held[w] = NULL
      BY <2>1 DEF PollJob, At, CrewInv, HeldWhere
    <3>2. TakeHead(w) \/ UNCHANGED <<jobQueue, held>>
      BY <2>1 DEF PollJob
    <3>3. UNCHANGED <<finished, unreported, jobRet, m_bShutdown>>
      BY <2>1 DEF PollJob, resultVars, clientVars
    <3> QED
      BY <1>1, <1>2, <3>1, <3>2, <3>3
  <2>2. CASE TimedGet(w)
    <3>1. held[w] = NULL
      BY <2>2 DEF TimedGet, At, CrewInv, HeldWhere
    <3>2. TakeHead(w) \/ UNCHANGED <<jobQueue, held>>
      BY <2>2 DEF TimedGet
    <3>3. UNCHANGED <<finished, unreported, jobRet, m_bShutdown>>
      BY <2>2 DEF TimedGet, resultVars, clientVars
    <3> QED
      BY <1>1, <1>2, <3>1, <3>2, <3>3
  <2>3. CASE WakeFromWait(w)
    <3>1. held[w] = NULL
      BY <2>3 DEF WakeFromWait, At, CrewInv, HeldWhere
    <3>2. TakeHead(w) /\ UNCHANGED <<finished, unreported, jobRet, m_bShutdown>>
      BY <2>3 DEF WakeFromWait, resultVars, clientVars
    <3> QED
      BY <1>2, <3>1, <3>2
  <2>4. CASE CheckFinishedQueue(w)
    <3>1. held[w] # NULL
      BY <2>4 DEF CheckFinishedQueue, At, CrewInv, HeldWhere
    <3>2. CASE m_pFinishedQueue
      <4>1. Quiet
        BY <2>4, <3>2 DEF CheckFinishedQueue, queueVars, clientVars
      <4> QED
        BY <1>1, <4>1
    <3>3. CASE ~m_pFinishedQueue
      <4>1. /\ held' = [held EXCEPT ![w] = NULL]
            /\ unreported' = unreported \cup {held[w]}
            /\ UNCHANGED <<finished, jobQueue, jobRet, m_bShutdown>>
        BY <2>4, <3>3 DEF CheckFinishedQueue, queueVars, clientVars
      <4> QED
        BY <3>1, <4>1, CompleteStep DEF Pool!PoolNext
    <3> QED
      BY <3>2, <3>3
  <2>5. CASE putFinishedItem(w)
    <3>1. held[w] # NULL
      BY <2>5 DEF putFinishedItem, At, CrewInv, HeldWhere
    <3>2. CASE ~m_pFinishedQueue
      <4>1. Quiet
        BY <2>5, <3>2 DEF putFinishedItem, queueVars, clientVars
      <4> QED
        BY <1>1, <4>1
    <3>3. CASE m_pFinishedQueue
      <4>1. /\ held' = [held EXCEPT ![w] = NULL]
            /\ finished' = finished \cup {held[w]}
            /\ UNCHANGED <<unreported, jobQueue, jobRet, m_bShutdown>>
        BY <2>5, <3>3 DEF putFinishedItem, queueVars, clientVars
      <4> QED
        BY <3>1, <4>1, CompleteStep DEF Pool!PoolNext
    <3> QED
      BY <3>2, <3>3
  <2>6. CASE \/ CheckWorking(w) \/ BecomeIdle(w) \/ LeaveIdle(w) \/ ProcessJob(w)
             \/ Shrink(w) \/ ThrCleanup(w) \/ UncountDied(w) \/ LockDied(w)
             \/ UnlockDied(w)
    <3>1. Quiet
      BY <2>6 DEF CheckWorking, BecomeIdle, LeaveIdle, ProcessJob, Shrink, ThrCleanup,
         UncountDied, LockDied, UnlockDied, resultVars, queueVars, clientVars
    <3> QED
      BY <1>1, <3>1
  <2> QED
    BY <1>3, <2>1, <2>2, <2>3, <2>4, <2>5, <2>6 DEF WorkerStep
<1>4. ASSUME NEW c \in Clients, AppendJob(c) PROVE Step
  <2>1. jobArg[c] \in Jobs /\ jobRet[jobArg[c]] = "none"
    BY <1>4 DEF AppendJob, At, CrewInv, TypeOK, ArgWhere
  <2>2. UNCHANGED <<held, finished, unreported, m_bShutdown>>
    BY <1>4 DEF AppendJob, resultVars
  <2>3. CASE m_bShutdown
    <3>1. jobRet' = [jobRet EXCEPT ![jobArg[c]] = "EACCES"] /\ UNCHANGED jobQueue
      BY <1>4, <2>3 DEF AppendJob, QueueClosed
    <3>2. \A j \in Jobs : jobRet'[j] = "OK" <=> jobRet[j] = "OK"
      BY <2>1, <3>1 DEF CrewInv, TypeOK
    <3> QED
      BY <2>2, <3>1, <3>2, QuietStep
  <2>4. CASE ~m_bShutdown
    <3>1. /\ jobRet' = [jobRet EXCEPT ![jobArg[c]] = "OK"]
          /\ jobQueue' = Append(jobQueue, jobArg[c])
      BY <1>4, <2>4 DEF AppendJob, QueueClosed
    <3> QED
      BY <2>1, <2>2, <2>4, <3>1, AcceptStep DEF Pool!PoolNext
  <2> QED
    BY <2>3, <2>4
<1>5. ASSUME NEW c \in Clients, addWorker(c) \/ NeedGrow(c) \/ Grow(c) PROVE Step
  <2>1. Quiet
    BY <1>5 DEF addWorker, GetSlot, PublishWorker, CountWorker, LaunchWorker, UndoWorker,
       ReleaseSlot, WorkerAdded, NeedGrow, Grow, resultVars, queueVars, clientVars
  <2> QED
    BY <1>1, <2>1
<1>6. ASSUME NEW c \in Clients, NEW j \in Jobs, EnterAddJob(c, j) PROVE Step
  <2>1. UNCHANGED <<jobQueue, held, finished, unreported, m_bShutdown>>
    BY <1>6 DEF EnterAddJob, resultVars, queueVars
  <2>2. /\ jobRet[j] = "none"
        /\ jobRet' = jobRet \/ jobRet' = [jobRet EXCEPT ![j] = "LS_FAIL"]
    BY <1>6 DEF EnterAddJob
  <2>3. \A i \in Jobs : jobRet'[i] = "OK" <=> jobRet[i] = "OK"
    BY <2>2 DEF CrewInv, TypeOK
  <2> QED
    BY <2>1, <2>3, QuietStep
<1>7. CASE QueueStart
  <2>1. from[Owner] = "start"
    BY <1>7 DEF QueueStart, At, CrewInv, ClientPhases, AddStages, StopStages
  <2>2. m_bShutdown = FALSE
    BY <2>1 DEF OpenUntilStopped, CrewInv, TypeOK
  <2>3. Quiet
    BY <1>7, <2>2 DEF QueueStart, resultVars, clientVars
  <2> QED
    BY <1>1, <2>3
<1>8. CASE ShutdownQueue
  <2>1. /\ m_bShutdown' = TRUE
        /\ UNCHANGED <<jobQueue, held, finished, unreported, jobRet>>
    BY <1>8 DEF ShutdownQueue, resultVars, clientVars
  <2> QED
    BY <2>1, CloseStep DEF Pool!PoolNext
<1>9. CASE \/ StartLock \/ StopAll \/ waitTillNoWaiting \/ WaitAllDead \/ LookAfterWait
           \/ StopAgain \/ ResetFinishedQueue \/ DeleteQueue \/ FreeCrew
  <2>1. Quiet
    BY <1>9 DEF StartLock, StopAll, waitTillNoWaiting, WaitAllDead, LookAfterWait,
       StopAgain, ResetFinishedQueue, DeleteQueue, FreeCrew, stopAllWorkers, resultVars,
       queueVars, clientVars
  <2> QED
    BY <1>1, <2>1
<1>10. CASE OwnerCall
  <2>1. Quiet
    BY <1>10 DEF OwnerCall, startProcessing, startJobProcessor, maxWorkers, adjustIdle,
       stopProcessing, Destructor, resultVars, queueVars, clientVars
  <2> QED
    BY <1>1, <2>1
<1>11. CASE UNCHANGED vars
  <2>1. Quiet
    BY <1>11 DEF vars, resultVars, queueVars, clientVars
  <2> QED
    BY <1>1, <2>1
<1> QED
  BY <1>3, <1>4, <1>5, <1>6, <1>7, <1>8, <1>9, <1>10, <1>11
     DEF Next, Ended, ClientStep, addJob, OwnerStep

\* The constructor's crew is the empty, open pool.
LEMMA InitPool == Init => JobsInOnePlace /\ OpenUntilStopped /\ Pool!PoolInit
<1> SUFFICES ASSUME Init PROVE JobsInOnePlace /\ OpenUntilStopped /\ Pool!PoolInit
  OBVIOUS
<1>1. Queued = {}
  BY DEF Init, Queued
<1>2. HeldJobs = {}
  BY DEF Init, HeldJobs
<1>3. {j \in Jobs : jobRet[j] = "OK"} = {}
  BY DEF Init
<1>4. JobsInOnePlace
  BY <1>1, <1>2, <1>3 DEF JobsInOnePlace, Init
<1>5. OpenUntilStopped
  BY ThreadsAssumption DEF OpenUntilStopped, Init
<1>6. Pool!PoolInit
  BY <1>1, <1>2 DEF Pool!PoolInit, Init
<1> QED
  BY <1>4, <1>5, <1>6

\* No job is lost, doubled or taken twice, whatever the threads do.
THEOREM JobsKept == Spec => []JobsInOnePlace
<1>1. Init => JobsInOnePlace /\ OpenUntilStopped
  BY InitPool
<1>2. CrewInv /\ JobsInOnePlace /\ OpenUntilStopped /\ [Next]_vars
        => JobsInOnePlace' /\ OpenUntilStopped'
  BY NextPool, NextOpen
<1> QED
  BY <1>1, <1>2, CrewInvariance, PTL DEF Spec

\* WorkCrew implements JobPool.
THEOREM CrewImplementsPool == Spec => ImplementsJobPool
<1>1. Init => JobsInOnePlace /\ OpenUntilStopped /\ Pool!PoolInit
  BY InitPool
<1>2. CrewInv /\ JobsInOnePlace /\ OpenUntilStopped /\ [Next]_vars
        => JobsInOnePlace' /\ OpenUntilStopped' /\ [Pool!PoolNext]_(Pool!poolVars)
  BY NextPool, NextOpen
<1> QED
  BY <1>1, <1>2, CrewInvariance, PTL DEF Spec, ImplementsJobPool, Pool!PoolSpec
=============================================================================
