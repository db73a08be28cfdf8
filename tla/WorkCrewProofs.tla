--------------------------- MODULE WorkCrewProofs ---------------------------
(***************************************************************************)
(* Proofs about WorkCrew, for any number of clients, workers and jobs, any *)
(* limits, with pthread_create() failing or not, and whether or not the    *)
(* crew is deleted while it is running.                                    *)
(*                                                                         *)
(* CrewInv is the inductive invariant: type correctness and SlotOwnership, *)
(* which need each other (a slot that is given back must be a slot of the  *)
(* table), and what they need to know of a client in addWorker() and of a  *)
(* worker between getJob() and putFinishedItem().  JobsInOnePlace is       *)
(* inductive relative to it.                                               *)
(***************************************************************************)
EXTENDS WorkCrew, TLAPS, FiniteSetTheorems

USE ThreadsAssumption, SizesAssumption

-----------------------------------------------------------------------------
(***************************************************************************)
(* What a step preserves when all it does to the threads is to move one.   *)
(***************************************************************************)

\* a worker with its CrewWorker object, which is not giving its slot back
Going == WorkerAt \ {"none", "built", "unlockCrew"}

\* A worker that goes from one place of its routine to another disturbs neither
\* the slot table nor a client.
LEMMA WorkerMoves ==
    ASSUME CrewInv, NEW w \in Workers, NEW l \in Going,
           pc[w] \in Going,
           pc' = [pc EXCEPT ![w] = l],
           UNCHANGED <<slotVars, m_addWorker, from, newWorker, newSlot, jobArg,
                       jobRet>>
    PROVE  PcTypeOK' /\ ClientPhases' /\ OneAdds' /\ Building' /\ SlotOwnership'
           /\ ArgWhere'
<1> USE DEF CrewInv, TypeOK, PcTypeOK, slotVars, Going
<1>1. PcTypeOK'
  OBVIOUS
<1>2. \A c \in Clients : pc'[c] = pc[c]
  OBVIOUS
<1>3. \A v \in Workers : v # w => pc'[v] = pc[v]
  OBVIOUS
<1>4. \A v \in Workers : HasSlot(v)' <=> HasSlot(v)
  BY <1>3 DEF HasSlot
<1>5. ClientPhases'
  BY <1>2 DEF ClientPhases
<1>6. OneAdds'
  BY <1>2 DEF OneAdds
<1>7. Building'
  BY <1>2, <1>3, <1>4 DEF Building
<1>8. SlotOwnership'
  BY <1>3, <1>4 DEF SlotOwnership
<1>9. ArgWhere'
  BY <1>2 DEF ArgWhere
<1> QED
  BY <1>1, <1>5, <1>6, <1>7, <1>8, <1>9

\* A client that goes from one place to another, and is not in the middle of
\* addWorker() when it gets there, disturbs neither the slot table nor a worker.
LEMMA ClientMoves ==
    ASSUME CrewInv, NEW c \in Clients,
           NEW l \in ClientAt \ {"publish", "count", "launch", "undo", "releaseSlot"},
           pc' = [pc EXCEPT ![c] = l],
           UNCHANGED <<slotVars, held>>,
           \A d \in Clients : d # c => newWorker'[d] = newWorker[d]
                                       /\ newSlot'[d] = newSlot[d]
    PROVE  PcTypeOK' /\ Building' /\ SlotOwnership' /\ HeldWhere'
<1> USE DEF CrewInv, TypeOK, PcTypeOK, slotVars, ClientAt
<1>1. PcTypeOK'
  OBVIOUS
<1>2. \A d \in Clients : d # c => pc'[d] = pc[d]
  OBVIOUS
<1>3. \A v \in Workers : pc'[v] = pc[v]
  OBVIOUS
<1>4. pc'[c] = l
  OBVIOUS
<1>5. \A v \in Workers : HasSlot(v)' <=> HasSlot(v)
  BY <1>3 DEF HasSlot
<1>6. Building'
  BY <1>2, <1>3, <1>4, <1>5 DEF Building
<1>7. SlotOwnership'
  BY <1>3, <1>5 DEF SlotOwnership
<1>8. HeldWhere'
  BY <1>3 DEF HeldWhere
<1> QED
  BY <1>1, <1>6, <1>7, <1>8
-----------------------------------------------------------------------------
(***************************************************************************)
(* The steps of a worker.                                                  *)
(***************************************************************************)

\* doGet() takes the head of the queue for one worker
LEMMA TakeHeadFacts ==
    ASSUME TypeOK, NEW w \in Workers, TakeHead(w)
    PROVE  /\ jobQueue' \in Seq(Jobs)
           /\ held' \in [Workers -> Jobs \cup {NULL}]
           /\ \A v \in Workers : v # w => held'[v] = held[v]
           /\ jobQueue = <<>> => held'[w] = held[w]
           /\ jobQueue # <<>> => held'[w] \in Jobs
<1>1. CASE jobQueue = <<>>
  BY <1>1 DEF TypeOK, TakeHead
<1>2. CASE jobQueue # <<>>
  <2>1. Head(jobQueue) \in Jobs /\ Tail(jobQueue) \in Seq(Jobs)
    BY <1>2 DEF TypeOK
  <2> QED
    BY <1>2, <2>1, ZenonT(40) DEF TypeOK, TakeHead
<1> QED
  BY <1>1, <1>2

\* What a worker does in workerRoutine(), from the loop to the look at the
\* number of idle workers, preserves the invariant.
LEMMA RoutinePreserves ==
    ASSUME CrewInv, NEW w \in Workers,
           \/ CheckWorking(w) \/ PollJob(w) \/ BecomeIdle(w) \/ TimedGet(w)
           \/ WakeFromWait(w) \/ LeaveIdle(w) \/ ProcessJob(w)
           \/ CheckFinishedQueue(w) \/ putFinishedItem(w) \/ Shrink(w)
           \/ UncountDied(w)
    PROVE  CrewInv'
<1> USE DEF CrewInv, At, Goto, slotVars, limitVars, lockVars, resultVars,
            queueVars, clientVars, Going, WorkerAt
<1>1. CASE CheckWorking(w)
  <2> USE <1>1 DEF CheckWorking
  <2>1. PICK l \in {"poll", "cleanup"} : pc' = [pc EXCEPT ![w] = l]
    OBVIOUS
  <2>2. HeldWhere'
    BY <2>1 DEF HeldWhere, TypeOK, PcTypeOK
  <2> QED
    BY <2>1, <2>2, WorkerMoves, ZenonT(60) DEF TypeOK, CrewSize
<1>2. CASE PollJob(w)
  <2> USE <1>2 DEF PollJob
  <2>1. PICK l \in {"process", "toIdle"} : pc' = [pc EXCEPT ![w] = l]
    OBVIOUS
  <2>2. CASE l = "toIdle"
    <3>1. UNCHANGED <<jobQueue, held>>
      BY <2>1, <2>2 DEF TypeOK, PcTypeOK
    <3>2. HeldWhere'
      BY <2>1, <2>2, <3>1 DEF HeldWhere, TypeOK, PcTypeOK
    <3> QED
      BY <2>1, <3>1, <3>2, WorkerMoves, ZenonT(60) DEF TypeOK, CrewSize
  <2>3. CASE l = "process"
    <3>1. TakeHead(w) /\ jobQueue # <<>>
      BY <2>1, <2>3 DEF TypeOK, PcTypeOK
    <3>2. HeldWhere'
      BY <2>1, <2>3, <3>1, TakeHeadFacts DEF HeldWhere, TypeOK, PcTypeOK
    <3> QED
      BY <2>1, <3>1, <3>2, TakeHeadFacts, WorkerMoves, ZenonT(60) DEF TypeOK, CrewSize
  <2> QED
    BY <2>1, <2>2, <2>3
<1>3. CASE BecomeIdle(w)
  <2> USE <1>3 DEF BecomeIdle
  <2>1. HeldWhere'
    BY DEF HeldWhere, TypeOK, PcTypeOK
  <2>2. m_idleWorkers' \in Int
    BY DEF TypeOK
  <2>3. PcTypeOK' /\ ClientPhases' /\ OneAdds' /\ Building' /\ SlotOwnership'
        /\ ArgWhere'
    BY WorkerMoves
  <2> QED
    BY <2>1, <2>2, <2>3 DEF TypeOK, CrewSize
<1>4. CASE TimedGet(w)
  <2> USE <1>4 DEF TimedGet
  <2>1. PICK l \in {"unIdle", "wait"} : pc' = [pc EXCEPT ![w] = l]
    OBVIOUS
  <2>2. CASE UNCHANGED <<jobQueue, held>>
    <3>1. HeldWhere'
      BY <2>1, <2>2 DEF HeldWhere, TypeOK, PcTypeOK
    <3> QED
      BY <2>1, <2>2, <3>1, WorkerMoves, ZenonT(60) DEF TypeOK, CrewSize
  <2>3. CASE TakeHead(w) /\ l = "unIdle"
    <3>1. HeldWhere'
      BY <2>1, <2>3, TakeHeadFacts DEF HeldWhere, TypeOK, PcTypeOK
    <3> QED
      BY <2>1, <2>3, <3>1, TakeHeadFacts, WorkerMoves DEF TypeOK, CrewSize
  <2> QED
    BY <2>1, <2>2, <2>3 DEF TypeOK, PcTypeOK
<1>5. CASE WakeFromWait(w)
  <2> USE <1>5 DEF WakeFromWait
  <2>1. HeldWhere'
    BY TakeHeadFacts DEF HeldWhere, TypeOK, PcTypeOK
  <2> QED
    BY <2>1, TakeHeadFacts, WorkerMoves DEF TypeOK, CrewSize
<1>6. CASE LeaveIdle(w)
  <2> USE <1>6 DEF LeaveIdle
  <2>1. PICK l \in {"process", "shrink"} : pc' = [pc EXCEPT ![w] = l]
    OBVIOUS
  <2>2. HeldWhere'
    BY <2>1 DEF HeldWhere, TypeOK, PcTypeOK
  <2>3. m_idleWorkers' \in Int
    BY DEF TypeOK
  <2>4. PcTypeOK' /\ ClientPhases' /\ OneAdds' /\ Building' /\ SlotOwnership'
        /\ ArgWhere'
    BY <2>1, WorkerMoves
  <2> QED
    BY <2>2, <2>3, <2>4 DEF TypeOK, CrewSize
<1>7. CASE ProcessJob(w)
  <2> USE <1>7 DEF ProcessJob
  <2>1. HeldWhere'
    BY DEF HeldWhere, TypeOK, PcTypeOK
  <2> QED
    BY <2>1, WorkerMoves DEF TypeOK, CrewSize
<1>8. CASE CheckFinishedQueue(w)
  <2> USE <1>8 DEF CheckFinishedQueue
  <2>1. PICK l \in {"put", "shrink"} : pc' = [pc EXCEPT ![w] = l]
    OBVIOUS
  <2>2. CASE m_pFinishedQueue
    <3>1. HeldWhere'
      BY <2>2 DEF HeldWhere, TypeOK, PcTypeOK
    <3> QED
      BY <2>1, <2>2, <3>1, WorkerMoves DEF TypeOK, CrewSize
  <2>3. CASE ~m_pFinishedQueue
    <3>1. HeldWhere'
      BY <2>3, ZenonT(40) DEF HeldWhere, TypeOK, PcTypeOK
    <3>2. held[w] \in Jobs
      BY DEF HeldWhere, TypeOK
    <3>3. unreported' \subseteq Jobs
      BY <2>3, <3>2 DEF TypeOK
    <3>4. held' \in [Workers -> Jobs \cup {NULL}]
      BY <2>3 DEF TypeOK
    <3> QED
      BY <2>1, <2>3, <3>1, <3>3, <3>4, WorkerMoves DEF TypeOK, CrewSize
  <2> QED
    BY <2>2, <2>3
<1>9. CASE putFinishedItem(w)
  <2> USE <1>9 DEF putFinishedItem
  <2>1. PICK l \in {"shrink", "segv"} : pc' = [pc EXCEPT ![w] = l]
    OBVIOUS
  <2>2. CASE ~m_pFinishedQueue
    <3>1. HeldWhere'
      BY <2>2 DEF HeldWhere, TypeOK, PcTypeOK
    <3> QED
      BY <2>1, <2>2, <3>1, WorkerMoves DEF TypeOK, CrewSize
  <2>3. CASE m_pFinishedQueue
    <3>1. HeldWhere'
      BY <2>3 DEF HeldWhere, TypeOK, PcTypeOK
    <3>2. held[w] \in Jobs
      BY DEF HeldWhere, TypeOK
    <3>3. finished' \subseteq Jobs
      BY <2>3, <3>2 DEF TypeOK
    <3>4. held' \in [Workers -> Jobs \cup {NULL}]
      BY <2>3 DEF TypeOK
    <3> QED
      BY <2>1, <2>3, <3>1, <3>3, <3>4, WorkerMoves DEF TypeOK, CrewSize
  <2> QED
    BY <2>2, <2>3
<1>10. CASE Shrink(w)
  <2> USE <1>10 DEF Shrink
  <2>1. PICK l \in {"cleanup", "loop"} : pc' = [pc EXCEPT ![w] = l]
    OBVIOUS
  <2>2. HeldWhere'
    BY <2>1 DEF HeldWhere, TypeOK, PcTypeOK
  <2> QED
    BY <2>1, <2>2, WorkerMoves, ZenonT(60) DEF TypeOK, CrewSize
<1>11. CASE UncountDied(w)
  <2> USE <1>11 DEF UncountDied, Uncount
  <2>1. HeldWhere'
    BY DEF HeldWhere, TypeOK, PcTypeOK
  <2>2. m_iRunningWorkers' \in Int
    BY DEF TypeOK
  <2>3. PcTypeOK' /\ ClientPhases' /\ OneAdds' /\ Building' /\ SlotOwnership'
        /\ ArgWhere'
    BY WorkerMoves
  <2> QED
    BY <2>1, <2>2, <2>3 DEF TypeOK, CrewSize
<1> QED
  BY <1>1, <1>2, <1>3, <1>4, <1>5, <1>6, <1>7, <1>8, <1>9, <1>10, <1>11
\* A worker whose object is deleted leaves the slot table as it is.
LEMMA WorkerLeaves ==
    ASSUME CrewInv, NEW w \in Workers, pc[w] \notin {"none", "built"},
           held[w] = NULL,
           pc' = [pc EXCEPT ![w] = "none"],
           UNCHANGED <<slotVars, m_addWorker, from, newWorker, newSlot, jobArg,
                       jobRet, held>>
    PROVE  PcTypeOK' /\ ClientPhases' /\ OneAdds' /\ Building' /\ SlotOwnership'
           /\ HeldWhere' /\ ArgWhere'
<1> USE DEF CrewInv, TypeOK, PcTypeOK, slotVars, WorkerAt
<1>1. PcTypeOK'
  OBVIOUS
<1>2. \A c \in Clients : pc'[c] = pc[c]
  OBVIOUS
<1>3. pc'[w] = "none" /\ \A v \in Workers : v # w => pc'[v] = pc[v]
  OBVIOUS
<1>4. \A v \in Workers : HasSlot(v)' => HasSlot(v) /\ v # w
  BY <1>3 DEF HasSlot
<1>5. ClientPhases' /\ OneAdds' /\ ArgWhere'
  BY <1>2 DEF ClientPhases, OneAdds, ArgWhere
<1>6. Building'
  BY <1>2, <1>3, <1>4 DEF Building
<1>7. SlotOwnership'
  BY <1>3, <1>4 DEF SlotOwnership
<1>8. HeldWhere'
  BY <1>3 DEF HeldWhere
<1> QED
  BY <1>1, <1>5, <1>6, <1>7, <1>8

\* thr_cleanup() preserves the invariant, with or without a slot to give back.
LEMMA ThrCleanupPreserves ==
    ASSUME CrewInv, NEW w \in Workers, ThrCleanup(w)
    PROVE  CrewInv'
<1> USE DEF CrewInv, ThrCleanup, At, Goto, DeleteWorker, slotVars, limitVars,
            lockVars, resultVars, queueVars, clientVars
<1>1. CASE m_slot[w] # -1
  <2>1. pc' = [pc EXCEPT ![w] = "died"] /\ UNCHANGED m_isWorking
    BY <1>1
  <2>2. HeldWhere'
    BY <2>1 DEF HeldWhere, TypeOK, PcTypeOK
  <2> QED
    BY <2>1, <2>2, WorkerMoves DEF TypeOK, CrewSize, Going, WorkerAt
<1>2. CASE m_slot[w] = -1
  <2>1. pc' = [pc EXCEPT ![w] = "none"]
        /\ m_isWorking' \in [Workers -> {"TO_START", "RUNNING", "TO_STOP"}]
    BY <1>2 DEF TypeOK
  <2>2. held[w] = NULL
    BY DEF HeldWhere
  <2> QED
    BY <2>1, <2>2, WorkerLeaves DEF TypeOK, CrewSize
<1> QED
  BY <1>1, <1>2

\* workerDied() gives the slot back under m_crewLock: the invariant holds
\* after it, also when the destructor has taken the slot away.
LEMMA LockDiedPreserves ==
    ASSUME CrewInv, NEW w \in Workers, LockDied(w)
    PROVE  CrewInv'
<1> USE DEF CrewInv, LockDied, At, Goto, slotVars, limitVars, lockVars,
            resultVars, queueVars, clientVars
<1>0. held[w] = NULL /\ m_crewLock' \in Clients \cup Workers \cup {NULL}
  BY DEF HeldWhere
<1>1. CASE m_slot[w] = -1
  <2>1. /\ pc' = [pc EXCEPT ![w] = "none"]
        /\ m_isWorking' \in [Workers -> {"TO_START", "RUNNING", "TO_STOP"}]
        /\ UNCHANGED <<m_crew, m_emptySlots, m_slot>>
    BY <1>1 DEF TypeOK, DeleteWorker
  <2> QED
    BY <1>0, <2>1, WorkerLeaves DEF TypeOK, CrewSize
<1>2. CASE m_slot[w] # -1
  <2> USE DEF PcTypeOK
  <2> DEFINE s == m_slot[w]
  <2>1. HasSlot(w) /\ s \in DOMAIN m_crew \ m_emptySlots
    BY <1>2 DEF HasSlot, SlotOwnership
  <2>2. m_emptySlots' = m_emptySlots \cup {s} /\ m_crew' = [m_crew EXCEPT ![s] = NULL]
    BY <1>2 DEF ClearSlot
  <2>3. pc' = [pc EXCEPT ![w] = "unlockCrew"] /\ UNCHANGED m_isWorking
    BY <1>2
  <2>4. \A c \in Clients : pc'[c] = pc[c]
    BY <2>3 DEF TypeOK
  <2>5. pc'[w] = "unlockCrew" /\ \A v \in Workers : v # w => pc'[v] = pc[v]
    BY <2>3 DEF TypeOK
  <2>6. \A v \in Workers : HasSlot(v)' => HasSlot(v) /\ v # w /\ m_slot[v] # s
    BY <1>2, <2>1, <2>5 DEF HasSlot, SlotOwnership
  <2>7. DOMAIN m_crew' = DOMAIN m_crew /\ m_crew'[s] = NULL
        /\ \A i \in DOMAIN m_crew : i # s => m_crew'[i] = m_crew[i]
    BY <2>1, <2>2 DEF TypeOK
  <2>8. TypeOK'
    <3>1. CrewSize' \in Nat /\ m_crew' \in [0 .. CrewSize' - 1 -> Workers \cup {NULL}]
      BY <2>2, <2>7 DEF TypeOK, CrewSize
    <3>2. PcTypeOK'
      BY <2>3 DEF TypeOK, WorkerAt
    <3> QED
      BY <1>0, <2>1, <2>2, <2>3, <2>7, <3>1, <3>2 DEF TypeOK
  <2>9. ClientPhases' /\ OneAdds' /\ ArgWhere'
    BY <2>4 DEF ClientPhases, OneAdds, ArgWhere
  <2>10. Building'
    <3>1. \A c \in Clients : pc[c] \in {"publish", "count", "launch", "undo"} =>
              newWorker[c] # w /\ newSlot[c] # s /\ newSlot[c] \in DOMAIN m_crew
      <4> SUFFICES ASSUME NEW c \in Clients,
                          pc[c] \in {"publish", "count", "launch", "undo"}
                   PROVE  newWorker[c] # w /\ newSlot[c] # s
                          /\ newSlot[c] \in DOMAIN m_crew
        OBVIOUS
      <4>1. newWorker[c] \in Workers /\ pc[newWorker[c]] = "built"
            /\ m_slot[newWorker[c]] = newSlot[c]
        BY DEF Building
      <4>2. newSlot[c] # -1
        BY DEF TypeOK
      <4>3. HasSlot(newWorker[c])
        BY <4>1, <4>2 DEF HasSlot
      <4> QED
        BY <2>1, <4>1, <4>3 DEF SlotOwnership
    <3>2. \A c \in Clients : pc[c] = "releaseSlot" => newSlot[c] # s
      BY <2>1 DEF Building
    <3> QED
      BY <2>2, <2>4, <2>5, <2>6, <2>7, <3>1, <3>2 DEF Building
  <2>11. SlotOwnership'
    BY <2>2, <2>5, <2>6, <2>7 DEF SlotOwnership
  <2>12. HeldWhere'
    BY <1>0, <2>5 DEF HeldWhere
  <2> QED
    BY <2>8, <2>9, <2>10, <2>11, <2>12
<1> QED
  BY <1>1, <1>2

\* The end of workerDied() preserves the invariant.
LEMMA UnlockDiedPreserves ==
    ASSUME CrewInv, NEW w \in Workers, UnlockDied(w)
    PROVE  CrewInv'
<1> USE DEF CrewInv, UnlockDied, At, Goto, DeleteWorker, UnlockCrew, slotVars,
            limitVars, lockVars, resultVars, queueVars, clientVars
<1>1. held[w] = NULL
  BY DEF HeldWhere
<1>2. PcTypeOK' /\ ClientPhases' /\ OneAdds' /\ Building' /\ SlotOwnership'
      /\ HeldWhere' /\ ArgWhere'
  BY <1>1, WorkerLeaves
<1>3. m_isWorking' \in [Workers -> {"TO_START", "RUNNING", "TO_STOP"}]
  BY DEF TypeOK
<1> QED
  BY <1>2, <1>3 DEF TypeOK, CrewSize
-----------------------------------------------------------------------------
(***************************************************************************)
(* The steps of a client in addWorker().                                   *)
(***************************************************************************)

\* The new CrewWorker object gets a slot that nobody has: an empty one, or a
\* new one at the end of the table.
LEMMA GetSlotPreserves ==
    ASSUME CrewInv, NEW c \in Clients, GetSlot(c)
    PROVE  CrewInv'
<1> USE DEF CrewInv
<1>0. /\ pc[c] = "getSlot"
      /\ UNCHANGED <<m_stateFutex, m_iRunningWorkers, m_idleWorkers, limitVars,
                     lockVars, resultVars, queueVars, held, from, iter, jobArg,
                     jobRet, freed>>
  BY DEF GetSlot, At
<1>1. CASE ~(m_iRunningWorkers < m_maxWorkers)
  <2>1. /\ pc' = [pc EXCEPT ![c] = "added"]
        /\ UNCHANGED <<slotVars, m_isWorking, newWorker, newSlot>>
    BY <1>1 DEF GetSlot, Goto
  <2>2. PcTypeOK' /\ Building' /\ SlotOwnership' /\ HeldWhere'
    BY <1>0, <2>1, ClientMoves DEF ClientAt
  <2>3. ClientPhases' /\ OneAdds' /\ ArgWhere'
    BY <1>0, <2>1 DEF TypeOK, PcTypeOK, ClientPhases, OneAdds, ArgWhere, AddStages,
                      StopStages, lockVars
  <2> QED
    BY <1>0, <2>1, <2>2, <2>3 DEF TypeOK, CrewSize, slotVars, limitVars, lockVars,
                                  resultVars, queueVars
<1>2. CASE m_iRunningWorkers < m_maxWorkers
  <2>1. PICK w \in Workers, s \in SlotChoices :
            /\ pc[w] = "none"
            /\ m_crew' = [i \in DOMAIN m_crew \cup {s} |->
                             IF i = s THEN NULL ELSE m_crew[i]]
            /\ m_emptySlots' = m_emptySlots \ {s}
            /\ m_slot' = [m_slot EXCEPT ![w] = s]
            /\ m_isWorking' = [m_isWorking EXCEPT ![w] = "TO_START"]
            /\ newWorker' = [newWorker EXCEPT ![c] = w]
            /\ newSlot' = [newSlot EXCEPT ![c] = s]
            /\ pc' = [pc EXCEPT ![c] = "publish", ![w] = "built"]
    <3>1. ~(m_iRunningWorkers >= m_maxWorkers)
      BY <1>2 DEF TypeOK
    <3> QED
      BY <3>1 DEF GetSlot, PopSlot
  <2>2. /\ PcTypeOK'
        /\ pc'[c] = "publish"
        /\ pc'[w] = "built"
        /\ \A d \in Clients : d # c => pc'[d] = pc[d]
        /\ \A v \in Workers : v # w => pc'[v] = pc[v]
    <3>1. c # w /\ w \notin Clients /\ c \notin Workers
      OBVIOUS
    <3> QED
      BY <2>1, <3>1, ZenonT(60) DEF TypeOK, PcTypeOK, WorkerAt, ClientAt
  <2>3. /\ s \in Nat
        /\ s \notin DOMAIN m_crew \/ s \in m_emptySlots
        /\ DOMAIN m_crew' = DOMAIN m_crew \cup {s}
        /\ m_crew'[s] = NULL
        /\ \A i \in DOMAIN m_crew : i # s => m_crew'[i] = m_crew[i]
    BY <2>1 DEF TypeOK, SlotChoices
  <2> DEFINE D == DOMAIN m_crew \cup {s}
  <2>12. m_crew' \in [D -> Workers \cup {NULL}]
    BY <2>1 DEF TypeOK
  <2>4. CrewSize' \in Nat /\ m_crew' \in [0 .. CrewSize' - 1 -> Workers \cup {NULL}]
    <3>1. CASE s \in DOMAIN m_crew
      <4>1. D = DOMAIN m_crew
        BY <3>1
      <4> QED
        BY <2>12, <2>3, <4>1 DEF TypeOK, CrewSize
    <3>2. CASE s = CrewSize
      <4>1. CrewSize \in Nat /\ DOMAIN m_crew' = 0 .. CrewSize
        BY <2>3, <3>2, SMTT(30) DEF TypeOK
      <4>2. CrewSize' = CrewSize + 1
        BY <4>1, FS_Interval DEF CrewSize
      <4>3. D = 0 .. CrewSize' - 1
        BY <2>3, <4>1, <4>2
      <4> QED
        BY <2>12, <4>1, <4>2, <4>3
    <3> QED
      BY <2>1, <3>1, <3>2 DEF SlotChoices, TypeOK
  <2>5. TypeOK'
    <3>1. m_emptySlots' \subseteq DOMAIN m_crew' /\ m_slot' \in [Workers -> Int]
          /\ m_isWorking' \in [Workers -> {"TO_START", "RUNNING", "TO_STOP"}]
          /\ newWorker' \in [Clients -> Workers \cup {NULL}]
          /\ newSlot' \in [Clients -> Nat]
      BY <2>1, <2>3 DEF TypeOK
    <3> QED
      BY <1>0, <2>2, <2>4, <3>1 DEF TypeOK, limitVars, lockVars, resultVars, queueVars
  <2>6. /\ HasSlot(w)' /\ m_slot'[w] = s
        /\ \A v \in Workers : v # w => (HasSlot(v)' <=> HasSlot(v)) /\ m_slot'[v] = m_slot[v]
    <3>1. m_slot'[w] = s /\ \A v \in Workers : v # w => m_slot'[v] = m_slot[v]
      BY <2>1 DEF TypeOK
    <3> QED
      BY <2>2, <2>3, <3>1 DEF HasSlot
  <2>7. \A v \in Workers : v # w /\ HasSlot(v) => m_slot[v] # s
    BY <2>3 DEF SlotOwnership
  <2>8. ClientPhases' /\ OneAdds' /\ ArgWhere'
    BY <1>0, <2>2 DEF ClientPhases, OneAdds, ArgWhere, AddStages, StopStages, lockVars
  <2>9. Building'
    <3>1. \A d \in Clients : d # c => pc'[d] \notin AddStages
      BY <1>0, <2>2 DEF OneAdds, AddStages
    <3>2. newWorker'[c] = w /\ newSlot'[c] = s
      BY <2>1 DEF TypeOK
    <3> QED
      BY <2>2, <2>6, <3>1, <3>2 DEF Building, AddStages
  <2>10. SlotOwnership'
    <3>1. \A v \in Workers : v # w /\ HasSlot(v)' => m_slot'[v] \in DOMAIN m_crew \ {s}
      BY <2>6, <2>7 DEF SlotOwnership
    <3>2. \A i \in m_emptySlots' : m_crew'[i] = NULL
      BY <2>1, <2>3 DEF SlotOwnership, TypeOK
    <3>3. \A u, v \in Workers :
              HasSlot(u)' /\ HasSlot(v)' /\ m_slot'[u] = m_slot'[v] => u = v
      BY <2>6, <2>7 DEF SlotOwnership
    <3>4. \A v \in Workers : HasSlot(v)' =>
              /\ m_slot'[v] \in DOMAIN m_crew' \ m_emptySlots'
              /\ m_crew'[m_slot'[v]] \in {v, NULL}
              /\ pc'[v] # "built" => m_crew'[m_slot'[v]] = v
      <4> SUFFICES ASSUME NEW v \in Workers, HasSlot(v)'
                   PROVE  /\ m_slot'[v] \in DOMAIN m_crew' \ m_emptySlots'
                          /\ m_crew'[m_slot'[v]] \in {v, NULL}
                          /\ pc'[v] # "built" => m_crew'[m_slot'[v]] = v
        OBVIOUS
      <4>1. CASE v = w
        BY <2>1, <2>2, <2>3, <2>6, <4>1
      <4>2. CASE v # w
        <5>1. m_slot'[v] = m_slot[v] /\ HasSlot(v) /\ pc'[v] = pc[v]
          BY <2>2, <2>6, <4>2
        <5>2. m_slot[v] \in DOMAIN m_crew \ m_emptySlots /\ m_slot[v] # s
          BY <2>7, <4>2, <5>1 DEF SlotOwnership
        <5>3. m_slot[v] \in DOMAIN m_crew' \ m_emptySlots'
              /\ m_crew'[m_slot[v]] = m_crew[m_slot[v]]
          BY <2>1, <2>3, <5>2
        <5> QED
          BY <5>1, <5>3 DEF SlotOwnership
      <4> QED
        BY <4>1, <4>2
    <3> QED
      BY <3>2, <3>3, <3>4 DEF SlotOwnership
  <2>11. HeldWhere'
    BY <1>0, <2>1, <2>2 DEF HeldWhere
  <2> QED
    BY <2>5, <2>8, <2>9, <2>10, <2>11
<1> QED
  BY <1>1, <1>2
\* what a client that is building a worker knows of it
LEMMA BuiltFacts ==
    ASSUME CrewInv, NEW c \in Clients, pc[c] \in {"publish", "count", "launch", "undo"}
    PROVE  /\ newWorker[c] \in Workers
           /\ pc[newWorker[c]] = "built"
           /\ m_slot[newWorker[c]] = newSlot[c]
           /\ HasSlot(newWorker[c])
           /\ newSlot[c] \in DOMAIN m_crew \ m_emptySlots
           /\ newSlot[c] \in Nat
           /\ \A d \in Clients : d # c => pc[d] \notin AddStages
<1> USE DEF CrewInv
<1>1. newWorker[c] \in Workers /\ pc[newWorker[c]] = "built"
      /\ m_slot[newWorker[c]] = newSlot[c]
  BY DEF Building
<1>2. newSlot[c] \in Nat /\ newSlot[c] # -1
  BY DEF TypeOK
<1>3. HasSlot(newWorker[c])
  BY <1>1, <1>2 DEF HasSlot
<1>4. newSlot[c] \in DOMAIN m_crew \ m_emptySlots
  BY <1>1, <1>3 DEF SlotOwnership
<1>5. \A d \in Clients : d # c => pc[d] \notin AddStages
  BY DEF OneAdds, AddStages
<1> QED
  BY <1>1, <1>2, <1>3, <1>4, <1>5

\* m_crew[slot] = worker touches no other worker's slot.
LEMMA PublishPreserves ==
    ASSUME CrewInv, NEW c \in Clients, PublishWorker(c)
    PROVE  CrewInv'
<1> USE DEF CrewInv
<1> DEFINE w == newWorker[c]  s == newSlot[c]
<1>1. /\ pc[c] = "publish"
      /\ m_crew' = [m_crew EXCEPT ![s] = w]
      /\ pc' = [pc EXCEPT ![c] = "count"]
      /\ UNCHANGED <<m_stateFutex, m_emptySlots, m_slot, m_iRunningWorkers,
                     m_idleWorkers, limitVars, lockVars, resultVars, queueVars,
                     m_isWorking, held, clientVars>>
  BY DEF PublishWorker, At, Goto
<1>2. /\ w \in Workers /\ pc[w] = "built" /\ m_slot[w] = s /\ HasSlot(w)
      /\ s \in DOMAIN m_crew \ m_emptySlots
      /\ \A d \in Clients : d # c => pc[d] \notin AddStages
  BY <1>1, BuiltFacts
<1>3. /\ PcTypeOK'
      /\ pc'[c] = "count"
      /\ \A d \in Clients : d # c => pc'[d] = pc[d]
      /\ \A v \in Workers : pc'[v] = pc[v]
  BY <1>1 DEF TypeOK, PcTypeOK, ClientAt
<1>4. /\ DOMAIN m_crew' = DOMAIN m_crew /\ m_crew'[s] = w
      /\ \A i \in DOMAIN m_crew : i # s => m_crew'[i] = m_crew[i]
  BY <1>1, <1>2 DEF TypeOK
<1>5. CrewSize' = CrewSize /\ m_crew' \in [0 .. CrewSize - 1 -> Workers \cup {NULL}]
  BY <1>1, <1>2, <1>4 DEF TypeOK, CrewSize
<1>6. TypeOK'
  BY <1>1, <1>3, <1>4, <1>5 DEF TypeOK, limitVars, lockVars, resultVars, queueVars,
                                clientVars
<1>7. ClientPhases' /\ OneAdds' /\ ArgWhere'
  BY <1>1, <1>3 DEF ClientPhases, OneAdds, ArgWhere, AddStages, StopStages, lockVars,
                    clientVars
<1>8. Building'
  BY <1>1, <1>2, <1>3, <1>4 DEF Building, AddStages, clientVars
<1>9. \A v \in Workers : HasSlot(v)' <=> HasSlot(v)
  BY <1>1, <1>3 DEF HasSlot
<1>10. SlotOwnership'
  <2>1. \A v \in Workers : HasSlot(v) /\ v # w => m_slot[v] # s
    BY <1>2 DEF SlotOwnership
  <2>2. \A i \in m_emptySlots : m_crew'[i] = NULL
    BY <1>2, <1>4 DEF SlotOwnership, TypeOK
  <2> QED
    BY <1>1, <1>2, <1>3, <1>4, <1>9, <2>1, <2>2 DEF SlotOwnership
<1>11. HeldWhere'
  BY <1>1, <1>3 DEF HeldWhere
<1> QED
  BY <1>6, <1>7, <1>8, <1>10, <1>11

\* Counting the worker preserves the invariant.
LEMMA CountPreserves ==
    ASSUME CrewInv, NEW c \in Clients, CountWorker(c)
    PROVE  CrewInv'
<1> USE DEF CrewInv
<1>1. /\ pc[c] = "count"
      /\ m_iRunningWorkers' = m_iRunningWorkers + 1
      /\ pc' = [pc EXCEPT ![c] = "launch"]
      /\ UNCHANGED <<m_stateFutex, slotVars, m_idleWorkers, limitVars, lockVars,
                     resultVars, queueVars, m_isWorking, held, clientVars>>
  BY DEF CountWorker, At, Goto
<1>2. /\ PcTypeOK'
      /\ pc'[c] = "launch"
      /\ \A d \in Clients : d # c => pc'[d] = pc[d]
      /\ \A v \in Workers : pc'[v] = pc[v]
  BY <1>1 DEF TypeOK, PcTypeOK, ClientAt
<1>3. m_iRunningWorkers' \in Int
  BY <1>1 DEF TypeOK
<1>4. TypeOK'
  BY <1>1, <1>2, <1>3 DEF TypeOK, CrewSize, slotVars, limitVars, lockVars, resultVars,
                          queueVars, clientVars
<1>5. ClientPhases' /\ OneAdds' /\ ArgWhere'
  BY <1>1, <1>2 DEF ClientPhases, OneAdds, ArgWhere, AddStages, StopStages, lockVars,
                    clientVars
<1>6. \A v \in Workers : HasSlot(v)' <=> HasSlot(v)
  BY <1>1, <1>2 DEF HasSlot, slotVars
<1>7. Building'
  BY <1>1, <1>2, <1>6 DEF Building, slotVars, clientVars
<1>8. SlotOwnership' /\ HeldWhere'
  BY <1>1, <1>2, <1>6 DEF SlotOwnership, HeldWhere, slotVars
<1> QED
  BY <1>4, <1>5, <1>7, <1>8

\* A thread that is started finds itself in its slot; if it could not be
\* started, the client still has what it has to undo.
LEMMA LaunchPreserves ==
    ASSUME CrewInv, NEW c \in Clients, LaunchWorker(c)
    PROVE  CrewInv'
<1> USE DEF CrewInv
<1> DEFINE w == newWorker[c]  s == newSlot[c]
<1>1. /\ pc[c] = "launch"
      /\ m_isWorking' = [m_isWorking EXCEPT ![w] = "RUNNING"]
      /\ \/ pc' = [pc EXCEPT ![c] = "added", ![w] = "loop"]
         \/ pc' = [pc EXCEPT ![c] = "undo"]
      /\ UNCHANGED <<m_stateFutex, slotVars, m_iRunningWorkers, m_idleWorkers,
                     limitVars, lockVars, resultVars, queueVars, held, clientVars>>
  BY DEF LaunchWorker, At, Goto
<1>2. /\ w \in Workers /\ pc[w] = "built" /\ m_slot[w] = s /\ HasSlot(w)
      /\ \A d \in Clients : d # c => pc[d] \notin AddStages
  BY <1>1, BuiltFacts
<1>3. m_crew[s] = w
  BY <1>1 DEF Building
<1>4. c # w /\ w \notin Clients /\ c \notin Workers
  BY <1>2
<1>5. PICK lc \in {"added", "undo"}, lw \in {"loop", "built"} :
         /\ lc = "undo" <=> lw = "built"
         /\ pc' = [pc EXCEPT ![c] = lc, ![w] = lw]
  <2>1. CASE pc' = [pc EXCEPT ![c] = "added", ![w] = "loop"]
    BY <2>1
  <2>2. CASE pc' = [pc EXCEPT ![c] = "undo"]
    <3>1. pc' = [pc EXCEPT ![c] = "undo", ![w] = "built"]
      BY <1>2, <1>4, <2>2 DEF TypeOK, PcTypeOK
    <3> QED
      BY <3>1
  <2> QED
    BY <1>1, <2>1, <2>2
<1>6. /\ PcTypeOK'
      /\ pc'[c] = lc /\ pc'[w] = lw
      /\ \A d \in Clients : d # c => pc'[d] = pc[d]
      /\ \A v \in Workers : v # w => pc'[v] = pc[v]
  <2>1. /\ pc'[c] = lc /\ pc'[w] = lw
        /\ \A d \in Clients : d # c => pc'[d] = pc[d]
        /\ \A v \in Workers : v # w => pc'[v] = pc[v]
    BY <1>2, <1>4, <1>5 DEF TypeOK, PcTypeOK
  <2>2. lc \in ClientAt /\ lw \in WorkerAt
    BY <1>5 DEF WorkerAt, ClientAt
  <2>3. pc' \in [Clients \cup Workers -> WorkerAt \cup ClientAt]
    BY <1>5, <2>2 DEF TypeOK, PcTypeOK
  <2> QED
    BY <2>1, <2>2, <2>3 DEF TypeOK, PcTypeOK
<1>7. TypeOK'
  <2>1. m_isWorking' \in [Workers -> {"TO_START", "RUNNING", "TO_STOP"}]
    BY <1>1 DEF TypeOK
  <2> QED
    BY <1>1, <1>6, <2>1 DEF TypeOK, CrewSize, slotVars, limitVars, lockVars,
                            resultVars, queueVars, clientVars
<1>8. ClientPhases' /\ OneAdds' /\ ArgWhere'
  BY <1>1, <1>6 DEF ClientPhases, OneAdds, ArgWhere, AddStages, StopStages, lockVars,
                    clientVars
<1>9. \A v \in Workers : HasSlot(v)' <=> HasSlot(v)
  BY <1>1, <1>2, <1>6 DEF HasSlot, slotVars
<1>10. Building'
  <2>1. \A d \in Clients : d # c => pc'[d] \notin AddStages
    BY <1>2, <1>6
  <2>2. pc'[c] # "added" => pc'[c] = "undo" /\ pc'[w] = "built"
    BY <1>5, <1>6
  <2> QED
    BY <1>1, <1>2, <1>3, <1>6, <2>1, <2>2 DEF Building, AddStages, slotVars, clientVars
<1>11. SlotOwnership'
  BY <1>1, <1>2, <1>3, <1>6, <1>9 DEF SlotOwnership, slotVars
<1>12. HeldWhere'
  BY <1>1, <1>2, <1>6 DEF HeldWhere
<1> QED
  BY <1>7, <1>8, <1>10, <1>11, <1>12
\* When pthread_create() failed, the slot is cleared before anybody can have it.
LEMMA UndoPreserves ==
    ASSUME CrewInv, NEW c \in Clients, UndoWorker(c)
    PROVE  CrewInv'
<1> USE DEF CrewInv
<1> DEFINE w == newWorker[c]  s == newSlot[c]
<1>1. /\ pc[c] = "undo"
      /\ m_iRunningWorkers' = m_iRunningWorkers - 1
      /\ m_crew' = [m_crew EXCEPT ![s] = NULL]
      /\ pc' = [pc EXCEPT ![c] = "releaseSlot", ![w] = "none"]
      /\ UNCHANGED <<m_stateFutex, m_emptySlots, m_slot, m_idleWorkers, limitVars,
                     lockVars, resultVars, queueVars, m_isWorking, held, clientVars>>
  BY DEF UndoWorker, At, Uncount, ClearSlot
<1>2. /\ w \in Workers /\ pc[w] = "built" /\ m_slot[w] = s /\ HasSlot(w)
      /\ s \in DOMAIN m_crew \ m_emptySlots
      /\ \A d \in Clients : d # c => pc[d] \notin AddStages
  BY <1>1, BuiltFacts
<1>3. c # w /\ w \notin Clients /\ c \notin Workers
  BY <1>2
<1>4. /\ PcTypeOK'
      /\ pc'[c] = "releaseSlot" /\ pc'[w] = "none"
      /\ \A d \in Clients : d # c => pc'[d] = pc[d]
      /\ \A v \in Workers : v # w => pc'[v] = pc[v]
  <2>1. /\ pc'[c] = "releaseSlot" /\ pc'[w] = "none"
        /\ \A d \in Clients : d # c => pc'[d] = pc[d]
        /\ \A v \in Workers : v # w => pc'[v] = pc[v]
    BY <1>1, <1>2, <1>3 DEF TypeOK, PcTypeOK
  <2>2. "releaseSlot" \in ClientAt /\ "none" \in WorkerAt
    BY DEF WorkerAt, ClientAt
  <2>3. pc' \in [Clients \cup Workers -> WorkerAt \cup ClientAt]
    BY <1>1, <2>2 DEF TypeOK, PcTypeOK
  <2> QED
    BY <2>1, <2>2, <2>3 DEF TypeOK, PcTypeOK
<1>5. /\ DOMAIN m_crew' = DOMAIN m_crew /\ m_crew'[s] = NULL
      /\ \A i \in DOMAIN m_crew : i # s => m_crew'[i] = m_crew[i]
  BY <1>1, <1>2 DEF TypeOK
<1>6. TypeOK'
  <2>1. CrewSize' = CrewSize /\ m_crew' \in [0 .. CrewSize - 1 -> Workers \cup {NULL}]
    BY <1>1, <1>5 DEF TypeOK, CrewSize
  <2>2. m_iRunningWorkers' \in Int
    BY <1>1 DEF TypeOK
  <2> QED
    BY <1>1, <1>4, <1>5, <2>1, <2>2 DEF TypeOK, limitVars, lockVars, resultVars,
                                        queueVars, clientVars
<1> DEFINE Kept == UNCHANGED <<m_emptySlots, m_slot, m_addWorker, from, newWorker,
                              newSlot, jobArg, jobRet, held>>
<1>13. pc[c] = "undo" /\ Kept
  BY <1>1 DEF lockVars, clientVars
<1>7. ClientPhases' /\ OneAdds' /\ ArgWhere'
  BY <1>4, <1>13 DEF ClientPhases, OneAdds, ArgWhere, AddStages, StopStages
<1>8. \A v \in Workers : HasSlot(v)' <=> HasSlot(v) /\ v # w
  BY <1>1, <1>4 DEF HasSlot
<1>9. \A v \in Workers : HasSlot(v)' => m_slot[v] # s
  BY <1>2, <1>8 DEF SlotOwnership
<1>10. Building'
  <2>1. \A d \in Clients : d # c => pc'[d] \notin AddStages
    BY <1>2, <1>4
  <2> QED
    BY <1>2, <1>4, <1>5, <1>9, <1>13, <2>1 DEF Building, AddStages
<1>11. SlotOwnership'
  <2>1. \A i \in m_emptySlots : m_crew'[i] = NULL
    BY <1>2, <1>5 DEF SlotOwnership, TypeOK
  <2> QED
    BY <1>4, <1>5, <1>8, <1>9, <1>13, <2>1 DEF SlotOwnership
<1>12. HeldWhere'
  BY <1>1, <1>2, <1>4 DEF HeldWhere
<1> QED
  BY <1>6, <1>7, <1>10, <1>11, <1>12

\* releaseSlot() makes the slot available again.
LEMMA ReleasePreserves ==
    ASSUME CrewInv, NEW c \in Clients, ReleaseSlot(c)
    PROVE  CrewInv'
<1> USE DEF CrewInv
<1> DEFINE s == newSlot[c]
<1>1. /\ pc[c] = "releaseSlot"
      /\ m_emptySlots' = m_emptySlots \cup {s}
      /\ pc' = [pc EXCEPT ![c] = "added"]
      /\ UNCHANGED <<m_stateFutex, m_crew, m_slot, m_iRunningWorkers, m_idleWorkers,
                     limitVars, lockVars, resultVars, queueVars, m_isWorking, held,
                     clientVars>>
  BY DEF ReleaseSlot, At, Goto
<1>2. /\ s \in DOMAIN m_crew /\ m_crew[s] = NULL
      /\ \A w \in Workers : HasSlot(w) => m_slot[w] # s
      /\ \A d \in Clients : d # c => pc[d] \notin AddStages
  BY <1>1 DEF Building, OneAdds, AddStages
<1>3. /\ PcTypeOK'
      /\ pc'[c] = "added"
      /\ \A d \in Clients : d # c => pc'[d] = pc[d]
      /\ \A v \in Workers : pc'[v] = pc[v]
  BY <1>1 DEF TypeOK, PcTypeOK, ClientAt
<1>4. TypeOK'
  BY <1>1, <1>2, <1>3 DEF TypeOK, CrewSize, limitVars, lockVars, resultVars, queueVars,
                          clientVars
<1>5. ClientPhases' /\ OneAdds' /\ ArgWhere'
  BY <1>1, <1>3 DEF ClientPhases, OneAdds, ArgWhere, AddStages, StopStages, lockVars,
                    clientVars
<1>6. Building'
  BY <1>2, <1>3 DEF Building, AddStages
<1>7. \A v \in Workers : HasSlot(v)' <=> HasSlot(v)
  BY <1>1, <1>3 DEF HasSlot
<1>8. SlotOwnership'
  BY <1>1, <1>2, <1>3, <1>7 DEF SlotOwnership
<1>9. HeldWhere'
  BY <1>1, <1>3 DEF HeldWhere
<1> QED
  BY <1>4, <1>5, <1>6, <1>8, <1>9

\* The end of one round of the loop that adds workers.
LEMMA WorkerAddedPreserves ==
    ASSUME CrewInv, NEW c \in Clients, WorkerAdded(c)
    PROVE  CrewInv'
<1> USE DEF CrewInv
<1>1. /\ pc[c] = "added"
      /\ iter' = [iter EXCEPT ![c] = @ + 1]
      /\ newWorker' = [newWorker EXCEPT ![c] = NULL]
      /\ UNCHANGED <<m_stateFutex, slotVars, m_iRunningWorkers, m_idleWorkers,
                     limitVars, m_crewLock, resultVars, queueVars, m_isWorking, held,
                     newSlot, jobArg, jobRet, freed>>
  BY DEF WorkerAdded, At
<1>2. \/ /\ m_addWorker' = NULL
         /\ from' = [from EXCEPT ![c] = "none"]
         /\ pc' = [pc EXCEPT ![c] = "idle"]
      \/ /\ UNCHANGED <<m_addWorker, from>>
         /\ \/ pc' = [pc EXCEPT ![c] = "getSlot"]
            \/ pc' = [pc EXCEPT ![c] = "grow"] /\ from[c] # "start"
  BY DEF WorkerAdded, UnlockAddWorker, Goto
<1>3. PICK l \in {"idle", "getSlot", "grow"} : pc' = [pc EXCEPT ![c] = l]
  BY <1>2
<1>4. PcTypeOK' /\ Building' /\ SlotOwnership' /\ HeldWhere'
  <2>1. \A d \in Clients : d # c => newWorker'[d] = newWorker[d] /\ newSlot'[d] = newSlot[d]
    BY <1>1 DEF TypeOK
  <2> QED
    BY <1>1, <1>3, <2>1, ClientMoves DEF ClientAt
<1>5. /\ pc'[c] = l
      /\ \A d \in Clients : d # c => pc'[d] = pc[d]
      /\ \A d \in Clients : d # c => from'[d] = from[d]
      /\ IF l = "idle" THEN from'[c] = "none" /\ m_addWorker' = NULL
                       ELSE from'[c] = from[c] /\ m_addWorker' = m_addWorker
  <2>1. pc'[c] = l /\ \A d \in Clients : d # c => pc'[d] = pc[d]
    BY <1>3 DEF TypeOK, PcTypeOK
  <2>2. CASE l = "idle"
    BY <1>2, <2>1, <2>2 DEF TypeOK, PcTypeOK
  <2>3. CASE l # "idle"
    BY <1>2, <2>1, <2>3 DEF TypeOK, PcTypeOK
  <2> QED
    BY <2>1, <2>2, <2>3
<1>6. TypeOK'
  <2>1. iter' \in [Clients -> Nat] /\ newWorker' \in [Clients -> Workers \cup {NULL}]
    BY <1>1 DEF TypeOK
  <2>2. from' \in [Clients -> {"none", "start", "addJob", "stop", "destructor"}]
        /\ m_addWorker' \in Clients \cup {NULL}
    BY <1>2 DEF TypeOK
  <2> QED
    BY <1>1, <1>4, <2>1, <2>2 DEF TypeOK, CrewSize, slotVars, limitVars, resultVars,
                                  queueVars
<1>7. ClientPhases'
  BY <1>1, <1>5 DEF ClientPhases, AddStages, StopStages
<1>8. OneAdds'
  BY <1>1, <1>5 DEF OneAdds, AddStages
<1>9. ArgWhere'
  BY <1>1, <1>5 DEF ArgWhere
<1> QED
  BY <1>4, <1>6, <1>7, <1>8, <1>9
-----------------------------------------------------------------------------
(***************************************************************************)
(* The steps of a client in addJob().                                      *)
(***************************************************************************)

\* Entering addJob() preserves the invariant, whether the crew takes jobs or not.
LEMMA EnterAddJobPreserves ==
    ASSUME CrewInv, NEW c \in Clients, NEW j \in Jobs, EnterAddJob(c, j)
    PROVE  CrewInv'
<1> USE DEF CrewInv
<1>1. /\ pc[c] = "idle" /\ from[Owner] # "destructor" /\ jobRet[j] = "none"
      /\ \A d \in Clients : jobArg[d] # j
      /\ UNCHANGED <<m_stateFutex, slotVars, m_iRunningWorkers, m_idleWorkers,
                     limitVars, lockVars, resultVars, queueVars, m_isWorking, held,
                     newWorker, newSlot, iter, freed>>
  BY DEF EnterAddJob, At
<1>2. CASE m_stateFutex \in {"STOPPING", "STOPPED"}
  <2>1. jobRet' = [jobRet EXCEPT ![j] = "LS_FAIL"] /\ UNCHANGED <<pc, from, jobArg>>
    BY <1>2 DEF EnterAddJob
  <2>2. ArgWhere'
    BY <1>1, <2>1 DEF ArgWhere, TypeOK
  <2>3. TypeOK'
    BY <1>1, <2>1 DEF TypeOK, PcTypeOK, CrewSize, slotVars, limitVars, lockVars,
                      resultVars, queueVars
  <2>4. ClientPhases' /\ OneAdds' /\ Building' /\ SlotOwnership' /\ HeldWhere'
    BY <1>1, <2>1 DEF ClientPhases, OneAdds, Building, SlotOwnership, HeldWhere, HasSlot,
                      slotVars, lockVars
  <2> QED
    BY <2>2, <2>3, <2>4
<1>3. CASE m_stateFutex \notin {"STOPPING", "STOPPED"}
  <2>1. /\ pc' = [pc EXCEPT ![c] = "append"]
        /\ from' = [from EXCEPT ![c] = "addJob"]
        /\ jobArg' = [jobArg EXCEPT ![c] = j]
        /\ UNCHANGED jobRet
    BY <1>3 DEF EnterAddJob, Goto
  <2>2. PcTypeOK' /\ Building' /\ SlotOwnership' /\ HeldWhere'
    BY <1>1, <2>1, ClientMoves DEF ClientAt
  <2>3. TypeOK'
    BY <1>1, <2>1, <2>2 DEF TypeOK, CrewSize, slotVars, limitVars, lockVars, resultVars,
                            queueVars
  <2>4. /\ pc'[c] = "append" /\ from'[c] = "addJob" /\ jobArg'[c] = j
        /\ \A d \in Clients : d # c =>
              pc'[d] = pc[d] /\ from'[d] = from[d] /\ jobArg'[d] = jobArg[d]
    BY <2>1 DEF TypeOK, PcTypeOK
  <2>5. ClientPhases' /\ OneAdds'
    BY <1>1, <2>4 DEF ClientPhases, OneAdds, AddStages, lockVars
  <2>6. ArgWhere'
    BY <1>1, <2>1, <2>4 DEF ArgWhere
  <2> QED
    BY <2>2, <2>3, <2>5, <2>6
<1> QED
  BY <1>2, <1>3

\* append() is given a job, and is done with it when it returns.
LEMMA AppendJobPreserves ==
    ASSUME CrewInv, NEW c \in Clients, AppendJob(c)
    PROVE  CrewInv'
<1> USE DEF CrewInv
<1>1. /\ pc[c] = "append"
      /\ jobArg' = [jobArg EXCEPT ![c] = NULL]
      /\ pc' = [pc EXCEPT ![c] = "needGrow"]
      /\ UNCHANGED <<m_stateFutex, slotVars, m_iRunningWorkers, m_idleWorkers,
                     limitVars, lockVars, resultVars, m_bShutdown, m_isWorking, held,
                     from, newWorker, newSlot, iter, freed>>
  BY DEF AppendJob, At, Goto
<1>2. jobArg[c] \in Jobs
  BY <1>1 DEF TypeOK, ArgWhere
<1>3. PICK r \in {"OK", "EACCES"} : jobRet' = [jobRet EXCEPT ![jobArg[c]] = r]
  BY DEF AppendJob
<1>4. jobQueue' \in Seq(Jobs)
  <2>1. jobQueue' = jobQueue \/ jobQueue' = Append(jobQueue, jobArg[c])
    BY DEF AppendJob
  <2>2. jobQueue \in Seq(Jobs)
    BY DEF TypeOK
  <2> QED
    BY <1>2, <2>1, <2>2
<1>5. PcTypeOK' /\ Building' /\ SlotOwnership' /\ HeldWhere'
  BY <1>1, ClientMoves DEF ClientAt
<1>6. TypeOK'
  <2>1. jobRet' \in [Jobs -> {"none", "OK", "LS_FAIL", "EACCES"}]
        /\ jobArg' \in [Clients -> Jobs \cup {NULL}]
    BY <1>1, <1>3 DEF TypeOK
  <2> QED
    BY <1>1, <1>4, <1>5, <2>1 DEF TypeOK, CrewSize, slotVars, limitVars, lockVars,
                                  resultVars
<1>7. /\ pc'[c] = "needGrow" /\ jobArg'[c] = NULL
      /\ \A d \in Clients : d # c => pc'[d] = pc[d] /\ jobArg'[d] = jobArg[d]
  BY <1>1 DEF TypeOK, PcTypeOK
<1>8. ClientPhases' /\ OneAdds'
  BY <1>1, <1>7 DEF ClientPhases, OneAdds, AddStages, StopStages, lockVars
<1>9. ArgWhere'
  <2>1. \A d \in Clients : d # c /\ jobArg[d] # NULL => jobArg[d] # jobArg[c]
    BY DEF ArgWhere
  <2>2. \A d \in Clients : d # c /\ jobArg[d] # NULL => jobRet'[jobArg[d]] = jobRet[jobArg[d]]
    BY <1>3, <2>1 DEF TypeOK
  <2> QED
    BY <1>1, <1>7, <2>2 DEF ArgWhere
<1> QED
  BY <1>5, <1>6, <1>8, <1>9

\* trylock() lets one client at a time add workers.
LEMMA NeedGrowPreserves ==
    ASSUME CrewInv, NEW c \in Clients, NeedGrow(c)
    PROVE  CrewInv'
<1> USE DEF CrewInv
<1>1. /\ pc[c] = "needGrow"
      /\ UNCHANGED <<m_stateFutex, slotVars, m_iRunningWorkers, m_idleWorkers,
                     limitVars, m_crewLock, resultVars, queueVars, m_isWorking, held,
                     newWorker, newSlot, jobArg, jobRet, freed>>
  BY DEF NeedGrow, At
<1>2. CASE m_idleWorkers >= m_minIdle \/ AddWorkerBusy
  <2>1. /\ pc' = [pc EXCEPT ![c] = "idle"]
        /\ from' = [from EXCEPT ![c] = "none"]
        /\ UNCHANGED <<m_addWorker, iter>>
    BY <1>2 DEF NeedGrow, Goto
  <2>2. PcTypeOK' /\ Building' /\ SlotOwnership' /\ HeldWhere'
    BY <1>1, <2>1, ClientMoves DEF ClientAt
  <2>3. TypeOK'
    BY <1>1, <2>1, <2>2 DEF TypeOK, CrewSize, slotVars, limitVars, resultVars, queueVars
  <2>4. /\ pc'[c] = "idle" /\ from'[c] = "none"
        /\ \A d \in Clients : d # c => pc'[d] = pc[d] /\ from'[d] = from[d]
    BY <2>1 DEF TypeOK, PcTypeOK
  <2>5. ClientPhases' /\ OneAdds' /\ ArgWhere'
    BY <1>1, <2>1, <2>4 DEF ClientPhases, OneAdds, ArgWhere, AddStages, StopStages
  <2> QED
    BY <2>2, <2>3, <2>5
<1>3. CASE ~(m_idleWorkers >= m_minIdle \/ AddWorkerBusy)
  <2>1. /\ m_addWorker = NULL /\ m_addWorker' = c
        /\ iter' = [iter EXCEPT ![c] = 0]
        /\ pc' = [pc EXCEPT ![c] = "grow"]
        /\ UNCHANGED from
    BY <1>3 DEF NeedGrow, Goto, AddWorkerBusy
  <2>2. PcTypeOK' /\ Building' /\ SlotOwnership' /\ HeldWhere'
    BY <1>1, <2>1, ClientMoves DEF ClientAt
  <2>3. TypeOK'
    BY <1>1, <2>1, <2>2 DEF TypeOK, CrewSize, slotVars, limitVars, resultVars, queueVars
  <2>4. pc'[c] = "grow" /\ \A d \in Clients : d # c => pc'[d] = pc[d]
    BY <2>1 DEF TypeOK, PcTypeOK
  <2>5. ClientPhases' /\ OneAdds' /\ ArgWhere'
    BY <1>1, <2>1, <2>4 DEF ClientPhases, OneAdds, ArgWhere, AddStages, StopStages
  <2> QED
    BY <2>2, <2>3, <2>5
<1> QED
  BY <1>2, <1>3

\* The head of the loop that adds workers.
LEMMA GrowPreserves ==
    ASSUME CrewInv, NEW c \in Clients, Grow(c)
    PROVE  CrewInv'
<1> USE DEF CrewInv
<1>1. /\ pc[c] = "grow"
      /\ UNCHANGED <<m_stateFutex, slotVars, m_iRunningWorkers, m_idleWorkers,
                     limitVars, m_crewLock, resultVars, queueVars, m_isWorking, held,
                     newWorker, newSlot, iter, jobArg, jobRet, freed>>
  BY DEF Grow, At
<1>2. CASE pc' = [pc EXCEPT ![c] = "getSlot"] /\ UNCHANGED <<m_addWorker, from>>
  <2>1. PcTypeOK' /\ Building' /\ SlotOwnership' /\ HeldWhere'
    BY <1>1, <1>2, ClientMoves DEF ClientAt
  <2>2. TypeOK'
    BY <1>1, <1>2, <2>1 DEF TypeOK, CrewSize, slotVars, limitVars, resultVars, queueVars
  <2>3. pc'[c] = "getSlot" /\ \A d \in Clients : d # c => pc'[d] = pc[d]
    BY <1>2 DEF TypeOK, PcTypeOK
  <2>4. ClientPhases' /\ OneAdds' /\ ArgWhere'
    BY <1>1, <1>2, <2>3 DEF ClientPhases, OneAdds, ArgWhere, AddStages, StopStages
  <2> QED
    BY <2>1, <2>2, <2>4
<1>3. CASE /\ pc' = [pc EXCEPT ![c] = "idle"]
           /\ from' = [from EXCEPT ![c] = "none"]
           /\ m_addWorker' = NULL
  <2>1. PcTypeOK' /\ Building' /\ SlotOwnership' /\ HeldWhere'
    BY <1>1, <1>3, ClientMoves DEF ClientAt
  <2>2. TypeOK'
    BY <1>1, <1>3, <2>1 DEF TypeOK, CrewSize, slotVars, limitVars, resultVars, queueVars
  <2>3. /\ pc'[c] = "idle" /\ from'[c] = "none"
        /\ \A d \in Clients : d # c => pc'[d] = pc[d] /\ from'[d] = from[d]
    BY <1>3 DEF TypeOK, PcTypeOK
  <2>4. ClientPhases' /\ OneAdds' /\ ArgWhere'
    BY <1>1, <1>3, <2>3 DEF ClientPhases, OneAdds, ArgWhere, AddStages, StopStages
  <2> QED
    BY <2>1, <2>2, <2>4
<1> QED
  BY <1>2, <1>3 DEF Grow, UnlockAddWorker, Goto
-----------------------------------------------------------------------------
(***************************************************************************)
(* The steps of the owner.                                                 *)
(***************************************************************************)

\* A step of the owner that leaves slots, workers and arguments alone preserves
\* the invariant if it ends where the function it is in then can be.
LEMMA OwnerMoves ==
    ASSUME CrewInv, pc[Owner] # "append",
           NEW l \in ClientAt \ {"publish", "count", "launch", "undo", "releaseSlot"},
           NEW f \in {"none", "start", "stop", "destructor"},
           pc' = [pc EXCEPT ![Owner] = l],
           from' = [from EXCEPT ![Owner] = f],
           \/ f = "none" /\ l = "idle"
           \/ f = "start" /\ l \in AddStages \cup {"queueStart", "startLock"}
           \/ f \in {"stop", "destructor"} /\ l \in StopStages,
           f = "destructor" => \A c \in Clients \ {Owner} : pc[c] = "idle",
           IF l \in AddStages THEN m_addWorker = NULL /\ m_addWorker' = Owner
                              ELSE UNCHANGED m_addWorker,
           UNCHANGED <<slotVars, held, newWorker, newSlot, jobArg, jobRet>>
    PROVE  /\ from' \in [Clients -> {"none", "start", "addJob", "stop", "destructor"}]
           /\ PcTypeOK' /\ ClientPhases' /\ OneAdds' /\ Building' /\ SlotOwnership'
           /\ HeldWhere' /\ ArgWhere'
<1> USE DEF CrewInv
<1>1. PcTypeOK' /\ Building' /\ SlotOwnership' /\ HeldWhere'
  BY ClientMoves
<1>2. /\ pc'[Owner] = l /\ from'[Owner] = f
      /\ \A d \in Clients : d # Owner => pc'[d] = pc[d] /\ from'[d] = from[d]
  BY DEF TypeOK, PcTypeOK
<1>3. from' \in [Clients -> {"none", "start", "addJob", "stop", "destructor"}]
  BY DEF TypeOK
<1>4. ClientPhases'
  BY <1>2 DEF ClientPhases
<1>5. OneAdds'
  BY <1>2 DEF OneAdds
<1>6. l # "append"
  BY DEF AddStages, StopStages
<1>7. ArgWhere'
  BY <1>2, <1>6 DEF ArgWhere
<1> QED
  BY <1>1, <1>3, <1>4, <1>5, <1>7

\* where the owner can be when it is in stopProcessing() or the destructor
LEMMA OwnerStops ==
    ASSUME CrewInv, pc[Owner] \in StopStages
    PROVE  /\ from[Owner] \in {"stop", "destructor"}
           /\ from[Owner] = "destructor" => \A c \in Clients \ {Owner} : pc[c] = "idle"
           /\ from' = from => from' = [from EXCEPT ![Owner] = from[Owner]]
<1>1. from[Owner] \in {"stop", "destructor"}
  BY DEF CrewInv, ClientPhases, AddStages, StopStages
<1> QED
  BY <1>1 DEF CrewInv, ClientPhases, TypeOK

\* The steps of stopProcessing() and the destructor that touch no worker.
LEMMA StopStepsPreserve ==
    ASSUME CrewInv,
           \/ ShutdownQueue \/ waitTillNoWaiting \/ WaitAllDead \/ LookAfterWait
           \/ ResetFinishedQueue \/ DeleteQueue \/ FreeCrew
    PROVE  CrewInv'
<1> USE DEF CrewInv, At, Goto
<1> DEFINE Inv6 == from' \in [Clients -> {"none", "start", "addJob", "stop", "destructor"}]
                   /\ PcTypeOK' /\ ClientPhases' /\ OneAdds' /\ Building'
                   /\ SlotOwnership' /\ HeldWhere' /\ ArgWhere'
<1> DEFINE Kept == UNCHANGED <<slotVars, held, newWorker, newSlot, jobArg, jobRet,
                               m_addWorker>>
<1>1. \A l \in StopStages :
        /\ pc[Owner] \in StopStages /\ Kept
        /\ UNCHANGED from
        /\ pc' = [pc EXCEPT ![Owner] = l]
        => Inv6
  <2> SUFFICES ASSUME NEW l \in StopStages, pc[Owner] \in StopStages, Kept,
                      UNCHANGED from, pc' = [pc EXCEPT ![Owner] = l]
               PROVE  Inv6
    OBVIOUS
  <2>1. pc[Owner] # "append" /\ l \notin AddStages
        /\ l \in ClientAt \ {"publish", "count", "launch", "undo", "releaseSlot"}
    BY DEF StopStages, AddStages, ClientAt
  <2> QED
    BY <2>1, OwnerStops, OwnerMoves
<1>2. CASE ShutdownQueue
  <2>1. Inv6
    BY <1>1, <1>2 DEF ShutdownQueue, StopStages, lockVars, clientVars
  <2> QED
    BY <1>2, <2>1 DEF ShutdownQueue, TypeOK, CrewSize, slotVars, limitVars, lockVars,
                      resultVars, clientVars
<1>3. CASE waitTillNoWaiting
  <2>1. Inv6
    BY <1>1, <1>3 DEF waitTillNoWaiting, StopStages, lockVars, clientVars
  <2> QED
    BY <1>3, <2>1 DEF waitTillNoWaiting, TypeOK, CrewSize, slotVars, limitVars, lockVars,
                      resultVars, queueVars, clientVars
<1>4. CASE WaitAllDead
  <2>1. PICK l \in {"reset", "futex", "woken"} : pc' = [pc EXCEPT ![Owner] = l]
    BY <1>4 DEF WaitAllDead
  <2>2. Inv6
    BY <1>1, <1>4, <2>1 DEF WaitAllDead, StopStages, lockVars, clientVars
  <2> QED
    BY <1>4, <2>2 DEF WaitAllDead, TypeOK, CrewSize, slotVars, limitVars, lockVars,
                      resultVars, queueVars, clientVars
<1>5. CASE LookAfterWait
  <2>1. PICK l \in {"reset", "stopAgain"} : pc' = [pc EXCEPT ![Owner] = l]
    BY <1>5 DEF LookAfterWait
  <2>2. Inv6
    BY <1>1, <1>5, <2>1 DEF LookAfterWait, StopStages, lockVars, clientVars
  <2>3. m_stateFutex' \in {"TO_START", "RUNNING", "STOPPING", "STOPPED"}
    BY <1>5 DEF LookAfterWait, TypeOK
  <2> QED
    BY <1>5, <2>2, <2>3 DEF LookAfterWait, TypeOK, CrewSize, slotVars, limitVars,
                            lockVars, resultVars, queueVars, clientVars
<1>6. CASE ResetFinishedQueue
  <2>1. pc[Owner] = "reset" /\ Kept
    BY <1>6 DEF ResetFinishedQueue, lockVars
  <2>2. Inv6
    <3>1. CASE discard
      BY <1>1, <1>6, <2>1, <3>1 DEF ResetFinishedQueue, StopStages
    <3>2. CASE ~discard
      <4>1. pc' = [pc EXCEPT ![Owner] = "idle"] /\ from' = [from EXCEPT ![Owner] = "none"]
        BY <1>6, <3>2 DEF ResetFinishedQueue
      <4> QED
        BY <2>1, <4>1, OwnerMoves DEF AddStages, ClientAt
    <3> QED
      BY <3>1, <3>2
  <2> QED
    BY <1>6, <2>2 DEF ResetFinishedQueue, TypeOK, CrewSize, slotVars, limitVars,
                      lockVars, queueVars
<1>7. CASE DeleteQueue
  <2>1. Inv6
    BY <1>1, <1>7 DEF DeleteQueue, StopStages, lockVars, clientVars
  <2> QED
    BY <1>7, <2>1 DEF DeleteQueue, TypeOK, CrewSize, slotVars, limitVars, lockVars,
                      resultVars, queueVars, clientVars
<1>8. CASE FreeCrew
  <2>1. Inv6
    BY <1>1, <1>8 DEF FreeCrew, StopStages, lockVars
  <2> QED
    BY <1>8, <2>1 DEF FreeCrew, TypeOK, CrewSize, slotVars, limitVars, lockVars,
                      resultVars, queueVars
<1> QED
  BY <1>2, <1>3, <1>4, <1>5, <1>6, <1>7, <1>8
\* stopAllWorkers() preserves the invariant: it takes slots away only in the
\* destructor, when no client is building a worker.
LEMMA StopAllPreserves ==
    ASSUME CrewInv, StopAll \/ StopAgain
    PROVE  CrewInv'
<1> USE DEF CrewInv
<1>1. PICK l \in {"shutdown", "waitDead"}, drop \in BOOLEAN :
         /\ pc[Owner] \in {"stopAll", "stopAgain"}
         /\ pc' = [pc EXCEPT ![Owner] = l]
         /\ stopAllWorkers(drop)
         /\ drop => from[Owner] = "destructor"
  BY DEF StopAll, StopAgain, At, Goto, discard
<1>2. /\ m_isWorking' = [w \in Workers |->
              IF w \in InCrew /\ m_isWorking[w] = "RUNNING"
              THEN "TO_STOP" ELSE m_isWorking[w]]
      /\ m_slot' = [w \in Workers |-> IF drop /\ w \in InCrew THEN -1 ELSE m_slot[w]]
      /\ m_minIdle' = 0 /\ m_maxIdle' = 0
      /\ UNCHANGED <<m_stateFutex, m_crew, m_emptySlots, m_iRunningWorkers,
                     m_idleWorkers, m_maxWorkers, lockVars, resultVars, queueVars,
                     held, clientVars>>
  BY <1>1 DEF stopAllWorkers
<1>3. /\ PcTypeOK'
      /\ pc'[Owner] = l
      /\ \A d \in Clients : d # Owner => pc'[d] = pc[d]
      /\ \A v \in Workers : pc'[v] = pc[v]
  BY <1>1 DEF TypeOK, PcTypeOK, ClientAt
<1>4. \A v \in Workers : HasSlot(v)' => HasSlot(v) /\ m_slot'[v] = m_slot[v]
  BY <1>2, <1>3 DEF HasSlot
<1>5. TypeOK'
  <2>1. m_isWorking' \in [Workers -> {"TO_START", "RUNNING", "TO_STOP"}]
    BY <1>2 DEF TypeOK
  <2>2. m_slot' \in [Workers -> Int]
    BY <1>2 DEF TypeOK
  <2> QED
    BY <1>2, <1>3, <2>1, <2>2 DEF TypeOK, CrewSize, lockVars, resultVars, queueVars,
                                  clientVars
<1>6. ClientPhases' /\ OneAdds' /\ ArgWhere'
  BY <1>1, <1>2, <1>3 DEF ClientPhases, OneAdds, ArgWhere, AddStages, StopStages,
                          lockVars, clientVars
<1>7. Building'
  <2>1. CASE drop
    <3>1. \A c \in Clients : pc'[c] \notin {"publish", "count", "launch", "undo",
                                             "releaseSlot"}
      BY <1>1, <1>3, <2>1 DEF ClientPhases
    <3> QED
      BY <3>1 DEF Building
  <2>2. CASE ~drop
    <3>1. m_slot' = m_slot
      BY <1>2, <2>2 DEF TypeOK
    <3> QED
      BY <1>1, <1>2, <1>3, <1>4, <3>1 DEF Building, clientVars
  <2> QED
    BY <2>1, <2>2
<1>8. SlotOwnership'
  BY <1>2, <1>3, <1>4 DEF SlotOwnership
<1>9. HeldWhere'
  BY <1>2, <1>3 DEF HeldWhere
<1> QED
  BY <1>5, <1>6, <1>7, <1>8, <1>9

\* The steps of startProcessing() before its loop.
LEMMA StartStepsPreserve ==
    ASSUME CrewInv, QueueStart \/ StartLock
    PROVE  CrewInv'
<1> USE DEF CrewInv, At, Goto
<1> DEFINE Kept == UNCHANGED <<slotVars, held, newWorker, newSlot, jobArg, jobRet>>
<1>1. pc[Owner] \in {"queueStart", "startLock"} => from[Owner] = "start"
  BY DEF ClientPhases, AddStages, StopStages
<1>2. from = [from EXCEPT ![Owner] = from[Owner]]
  BY DEF TypeOK
<1>3. CASE QueueStart
  <2>1. /\ pc[Owner] = "queueStart" /\ Kept /\ UNCHANGED m_addWorker
        /\ pc' = [pc EXCEPT ![Owner] = "startLock"]
        /\ from' = [from EXCEPT ![Owner] = "start"]
    BY <1>1, <1>2, <1>3 DEF QueueStart, lockVars, clientVars
  <2>2. /\ from' \in [Clients -> {"none", "start", "addJob", "stop", "destructor"}]
        /\ PcTypeOK' /\ ClientPhases' /\ OneAdds' /\ Building' /\ SlotOwnership'
        /\ HeldWhere' /\ ArgWhere'
    BY <2>1, OwnerMoves DEF AddStages, ClientAt
  <2> QED
    BY <1>3, <2>2 DEF QueueStart, TypeOK, CrewSize, slotVars, limitVars, lockVars,
                      resultVars, clientVars
<1>4. CASE StartLock /\ m_minIdle > 0
  <2>1. /\ pc[Owner] = "startLock" /\ Kept
        /\ m_addWorker = NULL /\ m_addWorker' = Owner
        /\ iter' = [iter EXCEPT ![Owner] = 0]
        /\ pc' = [pc EXCEPT ![Owner] = "getSlot"]
        /\ from' = [from EXCEPT ![Owner] = "start"]
    BY <1>1, <1>2, <1>4 DEF StartLock
  <2>2. /\ from' \in [Clients -> {"none", "start", "addJob", "stop", "destructor"}]
        /\ PcTypeOK' /\ ClientPhases' /\ OneAdds' /\ Building' /\ SlotOwnership'
        /\ HeldWhere' /\ ArgWhere'
    BY <2>1, OwnerMoves DEF AddStages, ClientAt
  <2>3. iter' \in [Clients -> Nat]
    BY <2>1 DEF TypeOK
  <2> QED
    BY <1>4, <2>1, <2>2, <2>3 DEF StartLock, TypeOK, CrewSize, slotVars, limitVars,
                                  resultVars, queueVars
<1>5. CASE StartLock /\ ~(m_minIdle > 0)
  <2>1. /\ pc[Owner] = "startLock" /\ Kept
        /\ UNCHANGED <<m_addWorker, iter>>
        /\ pc' = [pc EXCEPT ![Owner] = "idle"]
        /\ from' = [from EXCEPT ![Owner] = "none"]
    BY <1>5 DEF StartLock
  <2>2. /\ from' \in [Clients -> {"none", "start", "addJob", "stop", "destructor"}]
        /\ PcTypeOK' /\ ClientPhases' /\ OneAdds' /\ Building' /\ SlotOwnership'
        /\ HeldWhere' /\ ArgWhere'
    BY <2>1, OwnerMoves DEF AddStages, ClientAt
  <2> QED
    BY <1>5, <2>1, <2>2 DEF StartLock, TypeOK, CrewSize, slotVars, limitVars,
                            resultVars, queueVars
<1> QED
  BY <1>3, <1>4, <1>5

\* The calls that the owner makes preserve the invariant.
LEMMA OwnerCallPreserves ==
    ASSUME CrewInv, OwnerCall
    PROVE  CrewInv'
<1> USE DEF CrewInv, At, Goto
<1> DEFINE Kept == UNCHANGED <<slotVars, held, newWorker, newSlot, jobArg, jobRet,
                               m_addWorker>>
<1> DEFINE Inv6 == from' \in [Clients -> {"none", "start", "addJob", "stop", "destructor"}]
                   /\ PcTypeOK' /\ ClientPhases' /\ OneAdds' /\ Building'
                   /\ SlotOwnership' /\ HeldWhere' /\ ArgWhere'
<1> DEFINE Rest == UNCHANGED <<m_iRunningWorkers, m_idleWorkers, m_crewLock, finished,
                               unreported, queueVars, m_isWorking, iter, freed>>
<1>1. UNCHANGED <<pc, from>> /\ Kept => Inv6
  BY DEF TypeOK, PcTypeOK, ClientPhases, OneAdds, Building, SlotOwnership, HeldWhere,
         ArgWhere, HasSlot, slotVars
<1>2. Inv6 /\ Kept /\ Rest
      /\ m_stateFutex' \in {"TO_START", "RUNNING", "STOPPING", "STOPPED"}
      /\ m_minIdle' \in Nat /\ m_maxIdle' \in Nat /\ m_maxWorkers' \in Nat
      /\ m_pFinishedQueue' \in BOOLEAN
      => CrewInv'
  BY DEF TypeOK, CrewSize, slotVars, queueVars
<1>3. ASSUME pc[Owner] = "idle", StartCas, Kept
      PROVE  Inv6 /\ m_stateFutex' \in {"TO_START", "RUNNING", "STOPPING", "STOPPED"}
  <2>1. CASE m_stateFutex = "TO_START"
    <3>1. pc' = [pc EXCEPT ![Owner] = "queueStart"]
          /\ from' = [from EXCEPT ![Owner] = "start"] /\ m_stateFutex' = "RUNNING"
      BY <1>3, <2>1 DEF StartCas
    <3> QED
      BY <1>3, <3>1, OwnerMoves DEF AddStages, ClientAt
  <2>2. CASE m_stateFutex # "TO_START"
    BY <1>1, <1>3, <2>2 DEF StartCas, TypeOK
  <2> QED
    BY <2>1, <2>2
<1>4. CASE startProcessing
  BY <1>2, <1>3, <1>4 DEF startProcessing, lockVars, limitVars, resultVars, TypeOK
<1>5. ASSUME NEW n \in MaxChoices, startJobProcessor(n)
      PROVE  CrewInv'
  <2>1. n \in Nat
    OBVIOUS
  <2> QED
    BY <1>2, <1>3, <1>5, <2>1 DEF startJobProcessor, lockVars, TypeOK
<1>6. ASSUME NEW n \in MaxChoices, maxWorkers(n)
      PROVE  CrewInv'
  <2>1. n \in Nat
    OBVIOUS
  <2> QED
    BY <1>1, <1>2, <1>6, <2>1 DEF maxWorkers, lockVars, resultVars, clientVars, TypeOK
<1>7. ASSUME NEW p \in IdleChoices, adjustIdle(p[1], p[2])
      PROVE  CrewInv'
  <2>1. p[1] \in Nat /\ p[2] \in Nat
    OBVIOUS
  <2> QED
    BY <1>1, <1>2, <1>7, <2>1 DEF adjustIdle, lockVars, resultVars, clientVars, TypeOK
<1>8. CASE stopProcessing
  <2>1. /\ pc[Owner] = "idle" /\ pc' = [pc EXCEPT ![Owner] = "stopAll"]
        /\ from' = [from EXCEPT ![Owner] = "stop"] /\ m_stateFutex' = "STOPPING"
        /\ Kept /\ Rest /\ UNCHANGED <<limitVars, m_pFinishedQueue>>
    BY <1>8 DEF stopProcessing, lockVars, resultVars
  <2>2. Inv6
    BY <2>1, OwnerMoves DEF StopStages, AddStages, ClientAt
  <2> QED
    BY <1>2, <2>1, <2>2 DEF limitVars, TypeOK
<1>9. CASE Destructor
  <2>1. PICK l \in {"stopAll", "deleteQueue"} :
           /\ pc[Owner] = "idle" /\ pc' = [pc EXCEPT ![Owner] = l]
           /\ from' = [from EXCEPT ![Owner] = "destructor"]
           /\ \A c \in Clients \ {Owner} : pc[c] = "idle"
    BY <1>9 DEF Destructor
  <2>2. /\ Kept /\ Rest /\ UNCHANGED <<limitVars, m_pFinishedQueue>>
        /\ m_stateFutex' \in {m_stateFutex, "STOPPING"}
    BY <1>9 DEF Destructor, lockVars, resultVars
  <2>3. Inv6
    BY <2>1, <2>2, OwnerMoves DEF StopStages, AddStages, ClientAt
  <2> QED
    BY <1>2, <2>2, <2>3 DEF limitVars, TypeOK
<1> QED
  BY <1>4, <1>5, <1>6, <1>7, <1>8, <1>9 DEF OwnerCall
-----------------------------------------------------------------------------
(***************************************************************************)
(* The invariant.                                                          *)
(***************************************************************************)

\* The constructor establishes the invariant.
LEMMA InitCrewInv == Init => CrewInv
<1> SUFFICES ASSUME Init PROVE CrewInv
  OBVIOUS
<1> USE DEF Init
<1>1. DOMAIN m_crew = {} /\ CrewSize = 0
  BY FS_EmptySet DEF CrewSize
<1>2. m_crew \in [0 .. CrewSize - 1 -> Workers \cup {NULL}]
  BY <1>1
<1>3. PcTypeOK
  BY DEF PcTypeOK, WorkerAt, ClientAt
<1>4. TypeOK
  <2>1. jobQueue \in Seq(Jobs) /\ m_emptySlots \subseteq DOMAIN m_crew
    OBVIOUS
  <2>2. /\ m_slot \in [Workers -> Int]
        /\ m_isWorking \in [Workers -> {"TO_START", "RUNNING", "TO_STOP"}]
        /\ held \in [Workers -> Jobs \cup {NULL}]
    OBVIOUS
  <2>3. /\ from \in [Clients -> {"none", "start", "addJob", "stop", "destructor"}]
        /\ newWorker \in [Clients -> Workers \cup {NULL}]
        /\ newSlot \in [Clients -> Nat] /\ iter \in [Clients -> Nat]
        /\ jobArg \in [Clients -> Jobs \cup {NULL}]
        /\ jobRet \in [Jobs -> {"none", "OK", "LS_FAIL", "EACCES"}]
    OBVIOUS
  <2>4. CrewSize \in Nat /\ m_iRunningWorkers \in Int /\ m_idleWorkers \in Int
        /\ m_minIdle \in Nat /\ m_maxIdle \in Nat /\ m_maxWorkers \in Nat
    BY <1>1
  <2>5. /\ m_stateFutex \in {"TO_START", "RUNNING", "STOPPING", "STOPPED"}
        /\ m_crewLock \in Clients \cup Workers \cup {NULL}
        /\ m_addWorker \in Clients \cup {NULL}
        /\ m_pFinishedQueue \in BOOLEAN /\ m_bShutdown \in BOOLEAN
        /\ freed \in BOOLEAN /\ finished \subseteq Jobs /\ unreported \subseteq Jobs
    OBVIOUS
  <2> QED
    BY <1>2, <1>3, <2>1, <2>2, <2>3, <2>4, <2>5 DEF TypeOK
<1>5. /\ \A c \in Clients : pc[c] = "idle"
      /\ \A w \in Workers : pc[w] = "none"
  OBVIOUS
<1>6. ClientPhases /\ OneAdds /\ Building /\ ArgWhere
  BY <1>5 DEF ClientPhases, OneAdds, Building, ArgWhere, AddStages
<1>7. SlotOwnership /\ HeldWhere
  BY <1>5 DEF SlotOwnership, HeldWhere, HasSlot
<1> QED
  BY <1>4, <1>6, <1>7 DEF CrewInv

\* Every step of every thread preserves the invariant.
LEMMA NextCrewInv == CrewInv /\ [Next]_vars => CrewInv'
<1> SUFFICES ASSUME CrewInv, [Next]_vars PROVE CrewInv'
  OBVIOUS
<1>1. ASSUME NEW w \in Workers, WorkerStep(w) PROVE CrewInv'
  BY <1>1, RoutinePreserves, ThrCleanupPreserves, LockDiedPreserves, UnlockDiedPreserves
     DEF WorkerStep
<1>2. ASSUME NEW c \in Clients, ClientStep(c) PROVE CrewInv'
  <2>1. CASE addWorker(c)
    BY <2>1, GetSlotPreserves, PublishPreserves, CountPreserves, LaunchPreserves,
       UndoPreserves, ReleasePreserves, WorkerAddedPreserves DEF addWorker
  <2>2. CASE addJob(c)
    BY <2>2, AppendJobPreserves, NeedGrowPreserves, GrowPreserves DEF addJob
  <2> QED
    BY <1>2, <2>1, <2>2 DEF ClientStep
<1>3. ASSUME NEW c \in Clients, NEW j \in Jobs, EnterAddJob(c, j) PROVE CrewInv'
  BY <1>3, EnterAddJobPreserves
<1>4. CASE OwnerStep
  BY <1>4, StopStepsPreserve, StopAllPreserves, StartStepsPreserve DEF OwnerStep
<1>5. CASE OwnerCall
  BY <1>5, OwnerCallPreserves
<1>6. CASE UNCHANGED vars
  BY <1>6 DEF vars, CrewInv, TypeOK, PcTypeOK, ClientPhases, OneAdds, Building,
              SlotOwnership, HeldWhere, ArgWhere, HasSlot, CrewSize, slotVars, limitVars,
              lockVars, resultVars, queueVars, clientVars
<1> QED
  BY <1>1, <1>2, <1>3, <1>4, <1>5, <1>6 DEF Next, Ended

\* CrewInv holds in every reachable state.
THEOREM CrewInvariance == Spec => []CrewInv
<1>1. Init => CrewInv
  BY InitCrewInv
<1>2. CrewInv /\ [Next]_vars => CrewInv'
  BY NextCrewInv
<1> QED
  BY <1>1, <1>2, PTL DEF Spec

\* Every variable of the crew keeps its type: in particular a slot that is
\* published, cleared or given back is a slot of the table.
THEOREM TypeCorrect == Spec => []TypeOK
<1>1. CrewInv => TypeOK
  BY DEF CrewInv
<1> QED
  BY <1>1, CrewInvariance, PTL

\* A slot belongs to at most one worker and an empty slot to none, whatever the
\* interleaving of addWorker() and workerDied().
THEOREM SlotsOwned == Spec => []SlotOwnership
<1>1. CrewInv => SlotOwnership
  BY DEF CrewInv
<1> QED
  BY <1>1, CrewInvariance, PTL

-----------------------------------------------------------------------------
(***************************************************************************)
(* The counters.  size() and m_idleWorkers are numbers of threads at some  *)
(* labels: what a step does to a counter is what it does to such a number. *)
(***************************************************************************)

Number(f, S, L) == Cardinality({x \in S : f[x] \in L})

CountedAt == WorkerAt \ {"none", "built", "lockCrew", "unlockCrew"}
IdleAt    == {"get", "wait", "unIdle"}
BegunAt   == {"launch", "undo"}

Few(f, S, L)  == S \subseteq Clients \cup Workers /\ IsFiniteSet({x \in S : f[x] \in L})
Moves(f, g, t, l) ==
    /\ f = [x \in Clients \cup Workers |-> f[x]] /\ t \in Clients \cup Workers
    /\ g = [f EXCEPT ![t] = l]

\* A thread that moves changes a number by one at most.
LEMMA NumberMoves ==
    ASSUME NEW f, NEW g, NEW t, NEW l, Moves(f, g, t, l), NEW S, NEW L, Few(f, S, L)
    PROVE  /\ Number(f, S, L) \in Nat /\ Number(g, S, L) \in Nat
           /\ Few(g, S, L)
           /\ t \notin S \/ (l \in L <=> f[t] \in L) => Number(g, S, L) = Number(f, S, L)
           /\ t \in S /\ l \in L /\ f[t] \notin L => Number(g, S, L) = Number(f, S, L) + 1
           /\ t \in S /\ l \notin L /\ f[t] \in L => Number(g, S, L) = Number(f, S, L) - 1
<1> DEFINE F == {x \in S : f[x] \in L}
           G == {x \in S : g[x] \in L}
<1>1. g[t] = l /\ \A x \in S : x # t => g[x] = f[x]
  BY DEF Moves, Few
<1>2. /\ t \notin S \/ (l \in L <=> f[t] \in L) => G = F
      /\ t \in S /\ l \in L /\ f[t] \notin L => G = F \cup {t} /\ t \notin F
      /\ t \in S /\ l \notin L /\ f[t] \in L => G = F \ {t} /\ t \in F
  BY <1>1
<1>3. G = F \/ G = F \cup {t} \/ G = F \ {t}
  BY <1>2
<1> HIDE DEF F, G
<1>4. IsFiniteSet(F)
  BY DEF F, Few
<1>5. IsFiniteSet(G)
  BY <1>3, <1>4, FS_AddElement, FS_RemoveElement
<1>6. Cardinality(F) \in Nat /\ Cardinality(G) \in Nat
  BY <1>4, <1>5, FS_CardinalityType
<1>7. /\ t \notin F => Cardinality(F \cup {t}) = Cardinality(F) + 1
      /\ t \in F => Cardinality(F \ {t}) = Cardinality(F) - 1
  BY <1>4, FS_AddElement, FS_RemoveElement
<1>8. Number(f, S, L) = Cardinality(F) /\ Number(g, S, L) = Cardinality(G)
  BY DEF Number, F, G
<1>9. Few(g, S, L)
  BY <1>5 DEF G, Few
<1> QED
  BY <1>2, <1>6, <1>7, <1>8, <1>9

\* The threads that are counted are finitely many: one client adds workers at a time.
LEMMA FewThreads ==
    ASSUME CrewInv
    PROVE  Few(pc, Workers, CountedAt) /\ Few(pc, Workers, IdleAt) /\ Few(pc, Clients, BegunAt)
<1>1. /\ {w \in Workers : pc[w] \in CountedAt} \subseteq Workers
      /\ {w \in Workers : pc[w] \in IdleAt} \subseteq Workers
  OBVIOUS
<1>2. {c \in Clients : pc[c] \in BegunAt} \subseteq {m_addWorker}
  BY DEF CrewInv, OneAdds, AddStages, BegunAt
<1>3. IsFiniteSet({m_addWorker})
  BY FS_Singleton
<1> QED
  BY <1>1, <1>2, <1>3, FS_Subset DEF Few

LEMMA ThreadMoves ==
    ASSUME CrewInv, NEW t \in Clients \cup Workers, NEW l, pc' = [pc EXCEPT ![t] = l]
    PROVE  Moves(pc, pc', t, l)
  BY DEF Moves, CrewInv, TypeOK, PcTypeOK

NRun   == Number(pc, Workers, CountedAt)
NIdle  == Number(pc, Workers, IdleAt)
NBegun == Number(pc, Clients, BegunAt)

\* CountersExact, in these numbers.
LEMMA CountersAre ==
    ASSUME CrewInv
    PROVE  /\ Cardinality({w \in Workers : Counted(w)}) = NRun
           /\ Cardinality({c \in Clients : Starting(c)}) = NBegun
           /\ Cardinality({w \in Workers : pc[w] \in {"get", "wait", "unIdle"}}) = NIdle
           /\ NRun \in Nat /\ NIdle \in Nat /\ NBegun \in Nat
<1>1. \A w \in Workers : Counted(w) <=> pc[w] \in CountedAt
  BY DEF CrewInv, TypeOK, PcTypeOK, Counted, CountedAt
<1>2. {w \in Workers : Counted(w)} = {w \in Workers : pc[w] \in CountedAt}
  BY <1>1
<1>3. {c \in Clients : Starting(c)} = {c \in Clients : pc[c] \in BegunAt}
  BY DEF Starting, BegunAt
<1>4. NRun \in Nat /\ NIdle \in Nat /\ NBegun \in Nat
  BY FewThreads, FS_CardinalityType DEF Few, NRun, NIdle, NBegun, Number
<1> QED
  BY <1>2, <1>3, <1>4 DEF NRun, NIdle, NBegun, Number, IdleAt

\* What a worker's move does to the numbers.
LEMMA WorkerNumbers ==
    ASSUME CrewInv, NEW w \in Workers, NEW l, pc' = [pc EXCEPT ![w] = l]
    PROVE  /\ NBegun' = NBegun
           /\ (l \in CountedAt <=> pc[w] \in CountedAt) => NRun' = NRun
           /\ l \in CountedAt /\ pc[w] \notin CountedAt => NRun' = NRun + 1
           /\ l \notin CountedAt /\ pc[w] \in CountedAt => NRun' = NRun - 1
           /\ (l \in IdleAt <=> pc[w] \in IdleAt) => NIdle' = NIdle
           /\ l \in IdleAt /\ pc[w] \notin IdleAt => NIdle' = NIdle + 1
           /\ l \notin IdleAt /\ pc[w] \in IdleAt => NIdle' = NIdle - 1
<1>1. Moves(pc, pc', w, l) /\ w \notin Clients
  BY ThreadMoves
<1>2. Few(pc, Workers, CountedAt) /\ Few(pc, Workers, IdleAt) /\ Few(pc, Clients, BegunAt)
  BY FewThreads
<1>3. Number(pc', Clients, BegunAt) = Number(pc, Clients, BegunAt)
  BY <1>1, <1>2, NumberMoves
<1>4. /\ (l \in CountedAt <=> pc[w] \in CountedAt)
           => Number(pc', Workers, CountedAt) = Number(pc, Workers, CountedAt)
      /\ l \in CountedAt /\ pc[w] \notin CountedAt
           => Number(pc', Workers, CountedAt) = Number(pc, Workers, CountedAt) + 1
      /\ l \notin CountedAt /\ pc[w] \in CountedAt
           => Number(pc', Workers, CountedAt) = Number(pc, Workers, CountedAt) - 1
  BY <1>1, <1>2, NumberMoves
<1>5. /\ (l \in IdleAt <=> pc[w] \in IdleAt)
           => Number(pc', Workers, IdleAt) = Number(pc, Workers, IdleAt)
      /\ l \in IdleAt /\ pc[w] \notin IdleAt
           => Number(pc', Workers, IdleAt) = Number(pc, Workers, IdleAt) + 1
      /\ l \notin IdleAt /\ pc[w] \in IdleAt
           => Number(pc', Workers, IdleAt) = Number(pc, Workers, IdleAt) - 1
  BY <1>1, <1>2, NumberMoves
<1> QED
  BY <1>3, <1>4, <1>5 DEF NRun, NIdle, NBegun

\* What a client's move does to the numbers.
LEMMA ClientNumbers ==
    ASSUME CrewInv, NEW c \in Clients, NEW l, pc' = [pc EXCEPT ![c] = l]
    PROVE  /\ NRun' = NRun /\ NIdle' = NIdle
           /\ (l \in BegunAt <=> pc[c] \in BegunAt) => NBegun' = NBegun
           /\ l \in BegunAt /\ pc[c] \notin BegunAt => NBegun' = NBegun + 1
           /\ l \notin BegunAt /\ pc[c] \in BegunAt => NBegun' = NBegun - 1
<1>1. Moves(pc, pc', c, l) /\ c \notin Workers
  BY ThreadMoves
<1>2. Few(pc, Workers, CountedAt) /\ Few(pc, Workers, IdleAt) /\ Few(pc, Clients, BegunAt)
  BY FewThreads
<1>3. /\ Number(pc', Workers, CountedAt) = Number(pc, Workers, CountedAt)
      /\ Number(pc', Workers, IdleAt) = Number(pc, Workers, IdleAt)
  BY <1>1, <1>2, NumberMoves
<1>4. /\ (l \in BegunAt <=> pc[c] \in BegunAt)
           => Number(pc', Clients, BegunAt) = Number(pc, Clients, BegunAt)
      /\ l \in BegunAt /\ pc[c] \notin BegunAt
           => Number(pc', Clients, BegunAt) = Number(pc, Clients, BegunAt) + 1
      /\ l \notin BegunAt /\ pc[c] \in BegunAt
           => Number(pc', Clients, BegunAt) = Number(pc, Clients, BegunAt) - 1
  BY <1>1, <1>2, NumberMoves
<1> QED
  BY <1>3, <1>4 DEF NRun, NIdle, NBegun

\* addWorker() moves a client and the worker it builds in one step.
LEMMA BothNumbers ==
    ASSUME CrewInv, NEW c \in Clients, NEW w \in Workers, NEW k, NEW l,
           pc' = [pc EXCEPT ![c] = k, ![w] = l],
           pc[w] \notin CountedAt, pc[w] \notin IdleAt, l \notin IdleAt, k \notin BegunAt
    PROVE  /\ NIdle' = NIdle
           /\ l \notin CountedAt => NRun' = NRun
           /\ l \in CountedAt => NRun' = NRun + 1
           /\ pc[c] \notin BegunAt => NBegun' = NBegun
           /\ pc[c] \in BegunAt => NBegun' = NBegun - 1
<1>1. PICK m : m = [pc EXCEPT ![c] = k]
  OBVIOUS
<1>2. pc = [t \in Clients \cup Workers |-> pc[t]] /\ c \notin Workers /\ w \notin Clients
  BY DEF CrewInv, TypeOK, PcTypeOK
<1>3. m = [t \in Clients \cup Workers |-> m[t]] /\ m[w] = pc[w] /\ pc' = [m EXCEPT ![w] = l]
  BY <1>1, <1>2
<1>4. Moves(pc, m, c, k) /\ Moves(m, pc', w, l)
  BY <1>1, <1>2, <1>3 DEF Moves
<1>5. Few(pc, Workers, CountedAt) /\ Few(pc, Workers, IdleAt) /\ Few(pc, Clients, BegunAt)
  BY FewThreads
<1>6. /\ Number(m, Workers, CountedAt) = Number(pc, Workers, CountedAt)
      /\ Number(m, Workers, IdleAt) = Number(pc, Workers, IdleAt)
      /\ Few(m, Workers, CountedAt) /\ Few(m, Workers, IdleAt) /\ Few(m, Clients, BegunAt)
  BY <1>2, <1>4, <1>5, NumberMoves
<1>7. /\ pc[c] \notin BegunAt => Number(m, Clients, BegunAt) = Number(pc, Clients, BegunAt)
      /\ pc[c] \in BegunAt => Number(m, Clients, BegunAt) = Number(pc, Clients, BegunAt) - 1
  BY <1>4, <1>5, NumberMoves
<1>8. /\ Number(pc', Workers, IdleAt) = Number(m, Workers, IdleAt)
      /\ Number(pc', Clients, BegunAt) = Number(m, Clients, BegunAt)
  BY <1>2, <1>3, <1>4, <1>6, NumberMoves
<1>9. /\ l \notin CountedAt => Number(pc', Workers, CountedAt) = Number(m, Workers, CountedAt)
      /\ l \in CountedAt => Number(pc', Workers, CountedAt) = Number(m, Workers, CountedAt) + 1
  BY <1>3, <1>4, <1>6, NumberMoves
<1> QED
  BY <1>6, <1>7, <1>8, <1>9 DEF NRun, NIdle, NBegun

-----------------------------------------------------------------------------
(***************************************************************************)
(* The steps again, by what they do to labels and counters.                *)
(***************************************************************************)

\* A step of a worker that goes to l.
WorkerMove(w, l) ==
    /\ pc' = [pc EXCEPT ![w] = l]
    /\ UNCHANGED <<m_slot, limitVars, m_addWorker, m_pFinishedQueue, clientVars>>
    /\ \A v \in Workers : v # w \/ l # "none" => m_isWorking'[v] = m_isWorking[v]
    /\ \/ m_stateFutex' = m_stateFutex
       \/ m_stateFutex = "STOPPING" /\ isAllWorkerDead /\ m_stateFutex' = "STOPPED"
    /\ \/ /\ UNCHANGED <<m_iRunningWorkers, m_idleWorkers>>
          /\ \/ pc[w] = "loop" /\ l = "poll" /\ m_isWorking[w] = "RUNNING"
             \/ pc[w] = "loop" /\ l = "cleanup" /\ m_isWorking[w] # "RUNNING"
             \/ pc[w] = "poll" /\ l \in {"process", "toIdle"}
             \/ pc[w] = "get" /\ l \in {"unIdle", "wait"}
             \/ pc[w] = "wait" /\ l = "unIdle"
             \/ pc[w] = "process" /\ l = "report"
             \/ pc[w] = "report" /\ l = "put" /\ m_pFinishedQueue
             \/ pc[w] \in {"report", "put"} /\ l = "shrink"
             \/ pc[w] = "put" /\ l = "segv" /\ ~m_pFinishedQueue
             \/ pc[w] = "shrink" /\ l = "loop"
             \/ pc[w] = "shrink" /\ l = "cleanup" /\ TooMany
             \/ pc[w] = "cleanup" /\ l = "died"
             \/ pc[w] \in {"cleanup", "lockCrew"} /\ l = "none" /\ m_slot[w] = -1
             \/ pc[w] = "lockCrew" /\ l = "unlockCrew"
             \/ pc[w] = "unlockCrew" /\ l = "none"
       \/ /\ m_idleWorkers' = m_idleWorkers + 1 /\ UNCHANGED m_iRunningWorkers
          /\ pc[w] = "toIdle" /\ l = "get"
       \/ /\ m_idleWorkers' = m_idleWorkers - 1 /\ UNCHANGED m_iRunningWorkers
          /\ pc[w] = "unIdle" /\ l \in {"process", "shrink"}
       \/ /\ m_iRunningWorkers' = m_iRunningWorkers - 1 /\ UNCHANGED m_idleWorkers
          /\ pc[w] = "died" /\ l = "lockCrew"

LEMMA WorkerSteps ==
    ASSUME CrewInv, NEW w \in Workers, WorkerStep(w)
    PROVE  \E l \in WorkerAt : WorkerMove(w, l)
<1> USE DEF At, Goto, slotVars, lockVars, resultVars, WorkerAt
<1>1. CASE CheckWorking(w)
  BY <1>1 DEF CheckWorking, WorkerMove
<1>2. CASE PollJob(w)
  BY <1>2 DEF PollJob, WorkerMove
<1>3. CASE BecomeIdle(w)
  BY <1>3 DEF BecomeIdle, WorkerMove
<1>4. CASE TimedGet(w)
  BY <1>4 DEF TimedGet, WorkerMove
<1>5. CASE WakeFromWait(w)
  BY <1>5 DEF WakeFromWait, WorkerMove
<1>6. CASE LeaveIdle(w)
  BY <1>6 DEF LeaveIdle, WorkerMove
<1>7. CASE ProcessJob(w)
  BY <1>7 DEF ProcessJob, WorkerMove
<1>8. CASE CheckFinishedQueue(w)
  BY <1>8 DEF CheckFinishedQueue, WorkerMove
<1>9. CASE putFinishedItem(w)
  BY <1>9 DEF putFinishedItem, WorkerMove
<1>10. CASE Shrink(w)
  BY <1>10 DEF Shrink, WorkerMove
<1>11. CASE UncountDied(w)
  BY <1>11 DEF UncountDied, Uncount, WorkerMove
<1>12. CASE ThrCleanup(w) \/ LockDied(w)
  <2>1. m_isWorking \in [Workers -> {"TO_START", "RUNNING", "TO_STOP"}]
    BY DEF CrewInv, TypeOK
  <2> QED
    BY <1>12, <2>1 DEF ThrCleanup, LockDied, DeleteWorker, WorkerMove
<1>13. CASE UnlockDied(w)
  <2>1. m_isWorking \in [Workers -> {"TO_START", "RUNNING", "TO_STOP"}]
    BY DEF CrewInv, TypeOK
  <2>2. \/ m_stateFutex' = m_stateFutex
        \/ m_stateFutex = "STOPPING" /\ isAllWorkerDead /\ m_stateFutex' = "STOPPED"
    BY <1>13 DEF UnlockDied, LastDied
  <2> QED
    BY <1>13, <2>1, <2>2 DEF UnlockDied, DeleteWorker, WorkerMove
<1> QED
  BY <1>1, <1>2, <1>3, <1>4, <1>5, <1>6, <1>7, <1>8, <1>9, <1>10, <1>11, <1>12, <1>13
     DEF WorkerStep

\* A step of a client in addWorker() that moves the worker it builds as well.
BuildMove(c, w, k, l) ==
    /\ pc' = [pc EXCEPT ![c] = k, ![w] = l]
    /\ UNCHANGED <<m_stateFutex, limitVars, m_addWorker, m_pFinishedQueue, m_idleWorkers, from, iter>>
    /\ \A v \in Workers : v # w => m_isWorking'[v] = m_isWorking[v] /\ m_slot'[v] = m_slot[v]
    /\ \A d \in Clients : d # c => newWorker'[d] = newWorker[d]
    /\ newWorker'[c] = w /\ m_slot'[w] # -1
    /\ \/ /\ pc[c] = "getSlot" /\ k = "publish" /\ pc[w] = "none" /\ l = "built"
          /\ m_iRunningWorkers < m_maxWorkers /\ UNCHANGED m_iRunningWorkers
       \/ /\ pc[c] = "launch" /\ k = "added" /\ pc[w] = "built" /\ l = "loop"
          /\ m_isWorking'[w] = "RUNNING" /\ UNCHANGED m_iRunningWorkers
       \/ /\ pc[c] = "undo" /\ k = "releaseSlot" /\ pc[w] = "built" /\ l = "none"
          /\ m_iRunningWorkers' = m_iRunningWorkers - 1

\* A step of a client that goes to k, inside of addWorker() or addJob().
ClientMove(c, k) ==
    /\ pc' = [pc EXCEPT ![c] = k]
    /\ UNCHANGED <<m_stateFutex, limitVars, m_pFinishedQueue, m_slot, m_idleWorkers>>
    /\ \A d \in Clients : d # c => newWorker'[d] = newWorker[d] /\ from'[d] = from[d]
                                   /\ iter'[d] = iter[d]
    /\ \A v \in Workers : v # newWorker[c] \/ k # "undo" => m_isWorking'[v] = m_isWorking[v]
    /\ \/ /\ pc[c] = "count" /\ k = "launch" /\ UNCHANGED <<newWorker, from, iter>>
          /\ m_iRunningWorkers' = m_iRunningWorkers + 1
       \/ /\ UNCHANGED m_iRunningWorkers
          /\ \/ /\ pc[c] = "publish" /\ k = "count" /\ UNCHANGED <<newWorker, from, iter>>
             \/ /\ pc[c] = "launch" /\ k = "undo" /\ UNCHANGED <<newWorker, from, iter>>
                /\ CreateMayFail
             \/ /\ pc[c] = "releaseSlot" /\ k = "added" /\ UNCHANGED <<newWorker, from, iter>>
             \/ /\ pc[c] = "getSlot" /\ k = "added" /\ UNCHANGED <<newWorker, from, iter>>
                /\ m_iRunningWorkers >= m_maxWorkers
             \/ /\ pc[c] = "added" /\ k = "idle" /\ from'[c] = "none"
             \/ /\ pc[c] = "added" /\ k \in {"getSlot", "grow"} /\ from' = from
                /\ k = "grow" => from[c] # "start"
                /\ iter'[c] = iter[c] + 1
             \/ /\ pc[c] = "append" /\ k = "needGrow" /\ from' = from
             \/ /\ pc[c] = "needGrow" /\ k = "idle" /\ from'[c] = "none"
             \/ /\ pc[c] = "needGrow" /\ k = "grow" /\ from' = from
             \/ /\ pc[c] = "grow" /\ k = "getSlot" /\ from' = from /\ m_stateFutex = "RUNNING"
             \/ /\ pc[c] = "grow" /\ k = "idle" /\ from'[c] = "none"

LEMMA ClientSteps ==
    ASSUME CrewInv, NEW c \in Clients, ClientStep(c)
    PROVE  \/ \E k \in ClientAt : ClientMove(c, k)
           \/ \E w \in Workers, k \in ClientAt, l \in WorkerAt : BuildMove(c, w, k, l)
<1> USE DEF At, Goto, slotVars, lockVars, resultVars, clientVars
<1>1. /\ from \in [Clients -> {"none", "start", "addJob", "stop", "destructor"}]
      /\ newWorker \in [Clients -> Workers \cup {NULL}] /\ iter \in [Clients -> Nat]
      /\ m_isWorking \in [Workers -> {"TO_START", "RUNNING", "TO_STOP"}]
      /\ m_slot \in [Workers -> Int] /\ CrewSize \in Nat
      /\ m_emptySlots \subseteq DOMAIN m_crew /\ DOMAIN m_crew = 0 .. CrewSize - 1
  BY DEF CrewInv, TypeOK
<1>2. CASE GetSlot(c)
  <2>1. CASE m_iRunningWorkers < m_maxWorkers /\ pc' # [pc EXCEPT ![c] = "added"]
    <3>1. PICK w \in Workers, s \in SlotChoices :
                /\ pc[w] = "none"
                /\ m_slot' = [m_slot EXCEPT ![w] = s]
                /\ m_isWorking' = [m_isWorking EXCEPT ![w] = "TO_START"]
                /\ newWorker' = [newWorker EXCEPT ![c] = w]
                /\ pc' = [pc EXCEPT ![c] = "publish", ![w] = "built"]
      BY <1>2, <2>1 DEF GetSlot
    <3>2. s # -1
      BY <1>1 DEF SlotChoices
    <3>3. BuildMove(c, w, "publish", "built")
      BY <1>1, <1>2, <2>1, <3>1, <3>2 DEF GetSlot, BuildMove
    <3> QED
      BY <3>3 DEF ClientAt, WorkerAt
  <2>2. CASE m_iRunningWorkers >= m_maxWorkers /\ pc' = [pc EXCEPT ![c] = "added"]
    <3>1. UNCHANGED <<m_crew, m_emptySlots, m_slot, m_isWorking, newWorker, newSlot>>
      BY <1>2, <2>2 DEF GetSlot, CrewInv, TypeOK, PcTypeOK
    <3>2. ClientMove(c, "added")
      BY <1>2, <2>2, <3>1 DEF GetSlot, ClientMove
    <3> QED
      BY <3>2 DEF ClientAt
  <2> QED
    BY <1>2, <2>1, <2>2 DEF GetSlot, CrewInv, TypeOK, PcTypeOK
<1>3. CASE PublishWorker(c)
  BY <1>3 DEF PublishWorker, ClientMove, ClientAt
<1>4. CASE CountWorker(c)
  BY <1>4 DEF CountWorker, ClientMove, ClientAt
<1>5. CASE LaunchWorker(c)
  <2>1. newWorker[c] \in Workers /\ pc[newWorker[c]] = "built" /\ m_slot[newWorker[c]] # -1
    BY <1>5, BuiltFacts DEF LaunchWorker
  <2>2. CASE pc' = [pc EXCEPT ![c] = "added", ![newWorker[c]] = "loop"]
    <3>1. BuildMove(c, newWorker[c], "added", "loop")
      BY <1>1, <1>5, <2>1, <2>2 DEF LaunchWorker, BuildMove
    <3> QED
      BY <2>1, <3>1 DEF ClientAt, WorkerAt
  <2>3. CASE CreateMayFail /\ pc' = [pc EXCEPT ![c] = "undo"]
    <3>1. ClientMove(c, "undo")
      BY <1>1, <1>5, <2>1, <2>3 DEF LaunchWorker, ClientMove
    <3> QED
      BY <3>1 DEF ClientAt
  <2> QED
    BY <1>5, <2>2, <2>3 DEF LaunchWorker
<1>6. CASE UndoWorker(c)
  <2>1. newWorker[c] \in Workers /\ pc[newWorker[c]] = "built" /\ m_slot[newWorker[c]] # -1
    BY <1>6, BuiltFacts DEF UndoWorker
  <2>2. BuildMove(c, newWorker[c], "releaseSlot", "none")
    BY <1>1, <1>6, <2>1 DEF UndoWorker, Uncount, BuildMove
  <2> QED
    BY <2>1, <2>2 DEF ClientAt, WorkerAt
<1>7. CASE ReleaseSlot(c)
  BY <1>7 DEF ReleaseSlot, ClientMove, ClientAt
<1>8. CASE WorkerAdded(c)
  BY <1>1, <1>8 DEF WorkerAdded, ClientMove, ClientAt
<1>9. CASE AppendJob(c)
  BY <1>9 DEF AppendJob, ClientMove, ClientAt
<1>10. CASE NeedGrow(c)
  BY <1>1, <1>10 DEF NeedGrow, ClientMove, ClientAt
<1>11. CASE Grow(c)
  BY <1>1, <1>11 DEF Grow, ClientMove, ClientAt
<1> QED
  BY <1>2, <1>3, <1>4, <1>5, <1>6, <1>7, <1>8, <1>9, <1>10, <1>11
     DEF ClientStep, addWorker, addJob

\* addJob() is called, and goes to k.
EnterMove(c, k) ==
    /\ pc[c] = "idle" /\ pc' = [pc EXCEPT ![c] = k] /\ from[Owner] # "destructor"
    /\ UNCHANGED <<m_stateFutex, m_slot, m_isWorking, limitVars, m_pFinishedQueue,
                   m_iRunningWorkers, m_idleWorkers, newWorker, iter>>
    /\ \/ k = "idle" /\ from' = from
       \/ /\ k = "append" /\ m_stateFutex \notin {"STOPPING", "STOPPED"}
          /\ from' = [from EXCEPT ![c] = "addJob"]

LEMMA EnterSteps ==
    ASSUME CrewInv, NEW c \in Clients, NEW j \in Jobs, EnterAddJob(c, j)
    PROVE  \E k \in ClientAt : EnterMove(c, k)
<1>1. pc \in [Clients \cup Workers -> WorkerAt \cup ClientAt]
  BY DEF CrewInv, TypeOK, PcTypeOK
<1>2. CASE m_stateFutex \in {"STOPPING", "STOPPED"}
  <2>1. pc[c] = "idle" /\ pc' = [pc EXCEPT ![c] = "idle"] /\ from' = from
    BY <1>1, <1>2 DEF EnterAddJob, At
  <2>2. EnterMove(c, "idle")
    BY <2>1 DEF EnterAddJob, EnterMove, slotVars, resultVars, At
  <2> QED
    BY <2>2 DEF ClientAt
<1>3. CASE m_stateFutex \notin {"STOPPING", "STOPPED"}
  <2>1. EnterMove(c, "append")
    BY <1>3 DEF EnterAddJob, EnterMove, slotVars, resultVars, At, Goto
  <2> QED
    BY <2>1 DEF ClientAt
<1> QED
  BY <1>2, <1>3

\* A step of the owner in startProcessing(), stopProcessing() or the destructor, or a
\* call of one of its functions, that goes to k.
OwnerMove(k) ==
    /\ pc' = [pc EXCEPT ![Owner] = k]
    /\ UNCHANGED <<m_iRunningWorkers, m_idleWorkers, newWorker>>
    /\ \A d \in Clients : d # Owner => from'[d] = from[d] /\ iter'[d] = iter[d]
    /\ \/ /\ UNCHANGED <<m_stateFutex, m_slot, m_isWorking, limitVars, m_pFinishedQueue, from, iter>>
          /\ \/ pc[Owner] = "queueStart" /\ k = "startLock"
             \/ pc[Owner] = "shutdown" /\ k = "drain"
             \/ pc[Owner] = "drain" /\ k = "waitDead"
             \/ pc[Owner] = "waitDead" /\ k = "reset" /\ (discard \/ isAllWorkerDead)
             \/ pc[Owner] = "waitDead" /\ k = "futex"
             \/ pc[Owner] = "futex" /\ k = "woken"
             \/ pc[Owner] = "woken" /\ k = "reset" /\ m_stateFutex = "STOPPED"
             \/ pc[Owner] = "woken" /\ k = "stopAgain"
             \/ pc[Owner] = "deleteQueue" /\ k = "free"
             \/ pc[Owner] = "free" /\ k = "deleted"
       \/ /\ pc[Owner] = "startLock"
          /\ UNCHANGED <<m_stateFutex, m_slot, m_isWorking, limitVars, m_pFinishedQueue>>
          /\ \/ m_minIdle > 0 /\ k = "getSlot" /\ iter'[Owner] = 0 /\ from' = from
             \/ ~(m_minIdle > 0) /\ k = "idle" /\ from'[Owner] = "none"
       \/ /\ UNCHANGED <<m_stateFutex, m_maxWorkers, m_pFinishedQueue, from, iter>>
          /\ \/ pc[Owner] = "stopAll" /\ k = "shutdown" /\ (discard \/ m_slot' = m_slot)
             \/ pc[Owner] = "stopAgain" /\ k = "waitDead" /\ m_slot' = m_slot
       \/ /\ pc[Owner] = "woken" /\ k = "reset" /\ isAllWorkerDead /\ m_stateFutex' = "STOPPED"
          /\ UNCHANGED <<m_slot, m_isWorking, limitVars, m_pFinishedQueue, from, iter>>
       \/ /\ pc[Owner] = "reset" /\ m_pFinishedQueue' = FALSE
          /\ UNCHANGED <<m_stateFutex, m_slot, m_isWorking, limitVars, iter>>
          /\ \/ discard /\ k = "deleteQueue" /\ from' = from
             \/ ~discard /\ k = "idle" /\ from'[Owner] = "none"
       \/ /\ pc[Owner] = "idle" /\ UNCHANGED <<m_slot, m_isWorking, iter>>
          /\ \/ /\ k = "queueStart" /\ m_stateFutex = "TO_START" /\ m_stateFutex' = "RUNNING"
                /\ from'[Owner] = "start" /\ UNCHANGED <<m_minIdle, m_maxIdle>>
                /\ m_maxWorkers' \in MaxChoices \cup {m_maxWorkers}
                /\ m_pFinishedQueue => m_pFinishedQueue'
             \/ /\ k = "idle" /\ UNCHANGED <<m_stateFutex, from>>
                /\ m_maxWorkers' \in MaxChoices \cup {m_maxWorkers}
                /\ m_pFinishedQueue => m_pFinishedQueue'
                /\ \/ UNCHANGED <<m_minIdle, m_maxIdle>>
                   \/ \E p \in IdleChoices : m_minIdle' = p[1] /\ m_maxIdle' = p[2] /\ p[1] <= p[2]
             \/ /\ k = "stopAll" /\ m_stateFutex = "RUNNING" /\ m_stateFutex' = "STOPPING"
                /\ from'[Owner] = "stop" \/ (from'[Owner] = "destructor" /\ DeleteRunning)
                /\ UNCHANGED <<limitVars, m_pFinishedQueue>>
             \/ /\ k = "deleteQueue" /\ m_stateFutex # "RUNNING" /\ from'[Owner] = "destructor"
                /\ UNCHANGED <<m_stateFutex, limitVars, m_pFinishedQueue>>

LEMMA OwnerStepMoves ==
    ASSUME CrewInv, OwnerStep
    PROVE  \E k \in ClientAt : OwnerMove(k)
<1> USE DEF At, Goto, slotVars, limitVars, resultVars, clientVars, ClientAt
<1>1. from \in [Clients -> {"none", "start", "addJob", "stop", "destructor"}]
      /\ iter \in [Clients -> Nat]
  BY DEF CrewInv, TypeOK
<1>2. CASE QueueStart
  BY <1>2 DEF QueueStart, OwnerMove
<1>3. CASE StartLock
  BY <1>1, <1>3 DEF StartLock, OwnerMove
<1>4. CASE StopAll \/ StopAgain
  <2>1. ~discard \/ pc[Owner] = "stopAgain" => m_slot' = m_slot
    <3>1. m_slot = [w \in Workers |-> m_slot[w]]
      BY DEF CrewInv, TypeOK
    <3> QED
      BY <1>4, <3>1 DEF StopAll, StopAgain, stopAllWorkers
  <2>2. StopAll => OwnerMove("shutdown")
    BY <2>1 DEF StopAll, stopAllWorkers, OwnerMove
  <2>3. StopAgain => OwnerMove("waitDead")
    BY <2>1 DEF StopAgain, stopAllWorkers, OwnerMove
  <2> QED
    BY <1>4, <2>2, <2>3
<1>5. CASE ShutdownQueue
  BY <1>5 DEF ShutdownQueue, OwnerMove
<1>6. CASE waitTillNoWaiting
  BY <1>6 DEF waitTillNoWaiting, OwnerMove
<1>7. CASE WaitAllDead
  BY <1>7 DEF WaitAllDead, OwnerMove
<1>8. CASE LookAfterWait
  BY <1>8 DEF LookAfterWait, OwnerMove
<1>9. CASE ResetFinishedQueue
  BY <1>1, <1>9 DEF ResetFinishedQueue, OwnerMove
<1>10. CASE DeleteQueue \/ FreeCrew
  BY <1>10 DEF DeleteQueue, FreeCrew, OwnerMove
<1> QED
  BY <1>2, <1>3, <1>4, <1>5, <1>6, <1>7, <1>8, <1>9, <1>10 DEF OwnerStep

LEMMA OwnerCallMoves ==
    ASSUME CrewInv, OwnerCall
    PROVE  \E k \in ClientAt : OwnerMove(k)
<1> USE DEF At, Goto, slotVars, limitVars, resultVars, clientVars, ClientAt
<1>1. /\ from \in [Clients -> {"none", "start", "addJob", "stop", "destructor"}]
      /\ pc = [pc EXCEPT ![Owner] = pc[Owner]]
  BY DEF CrewInv, TypeOK, PcTypeOK
<1>2. CASE startProcessing
  <2>1. CASE m_stateFutex = "TO_START"
    <3>1. OwnerMove("queueStart")
      BY <1>1, <1>2, <2>1 DEF startProcessing, StartCas, OwnerMove
    <3> QED
      BY <3>1
  <2>2. CASE m_stateFutex # "TO_START"
    <3>1. OwnerMove("idle")
      BY <1>1, <1>2, <2>2 DEF startProcessing, StartCas, OwnerMove
    <3> QED
      BY <3>1
  <2> QED
    BY <2>1, <2>2
<1>3. ASSUME NEW n \in MaxChoices, startJobProcessor(n) PROVE \E k \in ClientAt : OwnerMove(k)
  <2>1. CASE m_stateFutex = "TO_START"
    <3>1. OwnerMove("queueStart")
      BY <1>1, <1>3, <2>1 DEF startJobProcessor, StartCas, OwnerMove
    <3> QED
      BY <3>1
  <2>2. CASE m_stateFutex # "TO_START"
    <3>1. OwnerMove("idle")
      BY <1>1, <1>3, <2>2 DEF startJobProcessor, StartCas, OwnerMove
    <3> QED
      BY <3>1
  <2> QED
    BY <2>1, <2>2
<1>4. ASSUME NEW n \in MaxChoices, maxWorkers(n) PROVE \E k \in ClientAt : OwnerMove(k)
  <2>1. OwnerMove("idle")
    BY <1>1, <1>4 DEF maxWorkers, OwnerMove
  <2> QED
    BY <2>1
<1>5. ASSUME NEW p \in IdleChoices, adjustIdle(p[1], p[2]) PROVE \E k \in ClientAt : OwnerMove(k)
  <2>1. OwnerMove("idle")
    BY <1>1, <1>5 DEF adjustIdle, OwnerMove
  <2> QED
    BY <2>1
<1>6. CASE stopProcessing
  <2>1. OwnerMove("stopAll")
    BY <1>1, <1>6 DEF stopProcessing, OwnerMove
  <2> QED
    BY <2>1
<1>7. CASE Destructor
  <2>1. CASE m_stateFutex = "RUNNING"
    <3>1. OwnerMove("stopAll")
      BY <1>1, <1>7, <2>1 DEF Destructor, OwnerMove
    <3> QED
      BY <3>1
  <2>2. CASE m_stateFutex # "RUNNING"
    <3>1. OwnerMove("deleteQueue")
      BY <1>1, <1>7, <2>2 DEF Destructor, OwnerMove
    <3> QED
      BY <3>1
  <2> QED
    BY <2>1, <2>2
<1> QED
  BY <1>2, <1>3, <1>4, <1>5, <1>6, <1>7 DEF OwnerCall

\* Every step is one of these.
LEMMA CrewMoves ==
    ASSUME CrewInv, Next
    PROVE  \/ UNCHANGED vars
           \/ \E w \in Workers, l \in WorkerAt : WorkerMove(w, l)
           \/ \E c \in Clients, k \in ClientAt : ClientMove(c, k)
           \/ \E c \in Clients, w \in Workers, k \in ClientAt, l \in WorkerAt : BuildMove(c, w, k, l)
           \/ \E c \in Clients, k \in ClientAt : EnterMove(c, k)
           \/ \E k \in ClientAt : OwnerMove(k)
<1>1. ASSUME NEW w \in Workers, WorkerStep(w) PROVE \E l \in WorkerAt : WorkerMove(w, l)
  BY <1>1, WorkerSteps
<1>2. ASSUME NEW c \in Clients, ClientStep(c)
      PROVE  \/ \E k \in ClientAt : ClientMove(c, k)
             \/ \E w \in Workers, k \in ClientAt, l \in WorkerAt : BuildMove(c, w, k, l)
  BY <1>2, ClientSteps
<1>3. ASSUME NEW c \in Clients, NEW j \in Jobs, EnterAddJob(c, j)
      PROVE  \E k \in ClientAt : EnterMove(c, k)
  BY <1>3, EnterSteps
<1>4. CASE OwnerStep \/ OwnerCall
  BY <1>4, OwnerStepMoves, OwnerCallMoves
<1>5. CASE Ended
  BY <1>5 DEF Ended
<1> QED
  BY <1>1, <1>2, <1>3, <1>4, <1>5 DEF Next

-----------------------------------------------------------------------------
(***************************************************************************)
(* size() and m_idleWorkers are exact.  A destructor that discards workers *)
(* makes them leave without being counted out: until then a worker that is *)
(* there has a slot, so that it passes workerDied().                       *)
(***************************************************************************)

Discards == from[Owner] = "destructor" /\ DeleteRunning

CountInv ==
    /\ from[Owner] = "destructor" /\ ~DeleteRunning
          => pc[Owner] \in {"deleteQueue", "free", "deleted"}
    /\ ~Discards => \A w \in Workers : pc[w] # "none" => m_slot[w] # -1
    /\ ~Discards => m_iRunningWorkers = NRun + NBegun
    /\ m_idleWorkers = NIdle

LEMMA NumberTypes ==
    ASSUME CrewInv
    PROVE  /\ NRun \in Nat /\ NIdle \in Nat /\ NBegun \in Nat
           /\ m_iRunningWorkers \in Int /\ m_idleWorkers \in Int
           /\ pc \in [Clients \cup Workers -> WorkerAt \cup ClientAt]
           /\ Owner \in Clients /\ Clients \cap Workers = {}
  BY CountersAre, ThreadsAssumption DEF CrewInv, TypeOK, PcTypeOK

LEMMA CountWorkerMove ==
    ASSUME CrewInv, CountInv, NEW w \in Workers, NEW l \in WorkerAt, WorkerMove(w, l)
    PROVE  CountInv'
<1>1. /\ pc' = [pc EXCEPT ![w] = l] /\ m_slot' = m_slot /\ from' = from
  BY DEF WorkerMove, clientVars
<1>2. /\ pc'[Owner] = pc[Owner] /\ pc'[w] = l
      /\ \A v \in Workers : v # w => pc'[v] = pc[v]
  BY <1>1, NumberTypes
<1>3. pc[w] # "none"
  BY DEF WorkerMove
<1>4. ~Discards' <=> ~Discards
  BY <1>1 DEF Discards
<1>5. ~Discards => \A v \in Workers : pc'[v] # "none" => m_slot'[v] # -1
  BY <1>1, <1>2, <1>3 DEF CountInv
<1>6. /\ l \in IdleAt /\ pc[w] \notin IdleAt => m_idleWorkers' = m_idleWorkers + 1
      /\ l \notin IdleAt /\ pc[w] \in IdleAt => m_idleWorkers' = m_idleWorkers - 1
      /\ (l \in IdleAt <=> pc[w] \in IdleAt) => m_idleWorkers' = m_idleWorkers
  BY DEF WorkerMove, IdleAt
<1>7. ~Discards =>
      /\ ~(l \in CountedAt /\ pc[w] \notin CountedAt)
      /\ l \notin CountedAt /\ pc[w] \in CountedAt => m_iRunningWorkers' = m_iRunningWorkers - 1
      /\ (l \in CountedAt <=> pc[w] \in CountedAt) => m_iRunningWorkers' = m_iRunningWorkers
  <2> SUFFICES ASSUME ~Discards
               PROVE  /\ ~(l \in CountedAt /\ pc[w] \notin CountedAt)
                      /\ l \notin CountedAt /\ pc[w] \in CountedAt
                            => m_iRunningWorkers' = m_iRunningWorkers - 1
                      /\ (l \in CountedAt <=> pc[w] \in CountedAt)
                            => m_iRunningWorkers' = m_iRunningWorkers
    OBVIOUS
  <2>1. m_slot[w] # -1
    BY <1>3 DEF CountInv
  <2> QED
    BY <2>1 DEF WorkerMove, CountedAt, WorkerAt
<1>8. /\ NBegun' = NBegun
      /\ (l \in CountedAt <=> pc[w] \in CountedAt) => NRun' = NRun
      /\ l \notin CountedAt /\ pc[w] \in CountedAt => NRun' = NRun - 1
      /\ (l \in IdleAt <=> pc[w] \in IdleAt) => NIdle' = NIdle
      /\ l \in IdleAt /\ pc[w] \notin IdleAt => NIdle' = NIdle + 1
      /\ l \notin IdleAt /\ pc[w] \in IdleAt => NIdle' = NIdle - 1
  BY <1>1, WorkerNumbers
<1>9. m_idleWorkers' = NIdle'
  BY <1>6, <1>8 DEF CountInv
<1>10. ~Discards => m_iRunningWorkers' = NRun' + NBegun'
  <2>1. /\ ~Discards => m_iRunningWorkers = NRun + NBegun
        /\ NRun \in Nat /\ NBegun \in Nat
    BY NumberTypes DEF CountInv
  <2> QED
    BY <1>7, <1>8, <2>1
<1> QED
  BY <1>1, <1>2, <1>4, <1>5, <1>9, <1>10 DEF CountInv

\* A client that is not stopping is not the owner in the destructor.
LEMMA NotDestroying ==
    ASSUME CrewInv, NEW c \in Clients, pc[c] \in ClientAt \ (StopStages \cup {"idle"})
    PROVE  from[Owner] # "destructor"
  BY ThreadsAssumption DEF CrewInv, ClientPhases, StopStages, AddStages, ClientAt

\* A client that goes to k, not into or out of the destructor.
LEMMA CountClient ==
    ASSUME CrewInv, CountInv, NEW c \in Clients, NEW k,
           pc' = [pc EXCEPT ![c] = k], m_idleWorkers' = m_idleWorkers,
           from[Owner] # "destructor", from'[Owner] # "destructor",
           \A w \in Workers : m_slot'[w] = m_slot[w],
           k \in BegunAt /\ pc[c] \notin BegunAt => m_iRunningWorkers' = m_iRunningWorkers + 1,
           ~(k \notin BegunAt /\ pc[c] \in BegunAt),
           (k \in BegunAt <=> pc[c] \in BegunAt) => m_iRunningWorkers' = m_iRunningWorkers
    PROVE  CountInv'
<1>1. ~Discards /\ ~Discards'
  BY DEF Discards
<1>2. \A w \in Workers : pc'[w] = pc[w]
  BY NumberTypes
<1>3. /\ NRun' = NRun /\ NIdle' = NIdle
      /\ (k \in BegunAt <=> pc[c] \in BegunAt) => NBegun' = NBegun
      /\ k \in BegunAt /\ pc[c] \notin BegunAt => NBegun' = NBegun + 1
  BY ClientNumbers
<1>4. m_iRunningWorkers' = NRun' + NBegun'
  <2>1. m_iRunningWorkers = NRun + NBegun /\ NRun \in Nat /\ NBegun \in Nat
    BY <1>1, NumberTypes DEF CountInv
  <2> QED
    BY <1>3, <2>1
<1> QED
  BY <1>1, <1>2, <1>3, <1>4 DEF CountInv

LEMMA CountClientMove ==
    ASSUME CrewInv, CountInv, NEW c \in Clients, NEW k \in ClientAt, ClientMove(c, k)
    PROVE  CountInv'
<1>1. pc[c] \in ClientAt \ (StopStages \cup {"idle"})
  BY DEF ClientMove, ClientAt, StopStages
<1>2. from[Owner] # "destructor"
  BY <1>1, NotDestroying
<1>3. from'[Owner] # "destructor"
  BY <1>2, NumberTypes DEF ClientMove
<1>4. /\ pc' = [pc EXCEPT ![c] = k] /\ m_idleWorkers' = m_idleWorkers
      /\ \A w \in Workers : m_slot'[w] = m_slot[w]
  BY DEF ClientMove
<1>5. /\ k \in BegunAt /\ pc[c] \notin BegunAt => m_iRunningWorkers' = m_iRunningWorkers + 1
      /\ ~(k \notin BegunAt /\ pc[c] \in BegunAt)
      /\ (k \in BegunAt <=> pc[c] \in BegunAt) => m_iRunningWorkers' = m_iRunningWorkers
  BY DEF ClientMove, BegunAt
<1> QED
  BY <1>2, <1>3, <1>4, <1>5, CountClient

LEMMA CountEnterMove ==
    ASSUME CrewInv, CountInv, NEW c \in Clients, NEW k \in ClientAt, EnterMove(c, k)
    PROVE  CountInv'
<1>1. from[Owner] # "destructor" /\ from'[Owner] # "destructor"
  BY NumberTypes DEF EnterMove, CrewInv, TypeOK
<1>2. /\ pc' = [pc EXCEPT ![c] = k] /\ m_idleWorkers' = m_idleWorkers
      /\ \A w \in Workers : m_slot'[w] = m_slot[w]
      /\ m_iRunningWorkers' = m_iRunningWorkers
      /\ k \notin BegunAt /\ pc[c] \notin BegunAt
  BY DEF EnterMove, BegunAt
<1> QED
  BY <1>1, <1>2, CountClient

LEMMA CountBuildMove ==
    ASSUME CrewInv, CountInv, NEW c \in Clients, NEW w \in Workers,
           NEW k \in ClientAt, NEW l \in WorkerAt, BuildMove(c, w, k, l)
    PROVE  CountInv'
<1>1. /\ pc[c] \in ClientAt \ (StopStages \cup {"idle"}) /\ k \notin BegunAt
      /\ pc[w] \notin CountedAt /\ pc[w] \notin IdleAt /\ l \notin IdleAt
  BY DEF BuildMove, ClientAt, StopStages, CountedAt, IdleAt, BegunAt
<1>2. from[Owner] # "destructor" /\ from' = from
  BY <1>1, NotDestroying DEF BuildMove
<1>3. ~Discards /\ ~Discards'
  BY <1>2 DEF Discards
<1>4. pc' = [pc EXCEPT ![c] = k, ![w] = l]
  BY DEF BuildMove
<1>5. /\ NIdle' = NIdle
      /\ l \notin CountedAt => NRun' = NRun
      /\ l \in CountedAt => NRun' = NRun + 1
      /\ pc[c] \notin BegunAt => NBegun' = NBegun
      /\ pc[c] \in BegunAt => NBegun' = NBegun - 1
  BY <1>1, <1>4, BothNumbers
<1>6. m_iRunningWorkers' = NRun' + NBegun'
  <2>1. m_iRunningWorkers = NRun + NBegun /\ NRun \in Nat /\ NBegun \in Nat
    BY <1>3, NumberTypes DEF CountInv
  <2> QED
    BY <1>5, <2>1 DEF BuildMove, CountedAt, BegunAt, WorkerAt
<1>7. \A v \in Workers : pc'[v] # "none" => m_slot'[v] # -1
  <2>1. \A v \in Workers : v # w => pc'[v] = pc[v]
    BY <1>4, NumberTypes
  <2> QED
    BY <1>3, <2>1 DEF CountInv, BuildMove
<1> QED
  BY <1>2, <1>3, <1>5, <1>6, <1>7 DEF CountInv, BuildMove

LEMMA CountOwnerMove ==
    ASSUME CrewInv, CountInv, NEW k \in ClientAt, OwnerMove(k)
    PROVE  CountInv'
<1>1. /\ Owner \in Clients /\ pc' = [pc EXCEPT ![Owner] = k]
      /\ k \notin BegunAt /\ pc[Owner] \notin BegunAt
      /\ m_iRunningWorkers' = m_iRunningWorkers /\ m_idleWorkers' = m_idleWorkers
  BY NumberTypes DEF OwnerMove, BegunAt
<1>2. NRun' = NRun /\ NIdle' = NIdle /\ NBegun' = NBegun
  BY <1>1, ClientNumbers
<1>3. pc'[Owner] = k /\ \A w \in Workers : pc'[w] = pc[w]
  BY <1>1, NumberTypes
<1>4. /\ from[Owner] = "destructor" => pc[Owner] \in StopStages
      /\ pc[Owner] \in StopStages => from[Owner] \in {"stop", "destructor"}
  BY NumberTypes DEF CrewInv, ClientPhases, StopStages, AddStages
<1>5. Discards => Discards'
  BY <1>4 DEF Discards, OwnerMove, StopStages, discard
<1>6. from'[Owner] = "destructor" /\ ~DeleteRunning => k \in {"deleteQueue", "free", "deleted"}
  BY <1>4 DEF OwnerMove, StopStages, discard, CountInv
<1>7. ~Discards' => m_slot' = m_slot
  <2>1. pc[Owner] = "stopAll" /\ ~Discards => ~discard
    BY DEF Discards, discard, CountInv
  <2> QED
    BY <1>5, <2>1 DEF OwnerMove
<1> QED
  BY <1>1, <1>2, <1>3, <1>5, <1>6, <1>7 DEF CountInv

LEMMA CountInit == Init => CountInv
<1> SUFFICES ASSUME Init PROVE CountInv
  OBVIOUS
<1>1. from[Owner] = "none"
  BY ThreadsAssumption DEF Init
<1>2. \A w \in Workers : pc[w] = "none"
  BY ThreadsAssumption DEF Init
<1>3. \A c \in Clients : pc[c] = "idle"
  BY ThreadsAssumption DEF Init
<1>4. /\ {w \in Workers : pc[w] \in CountedAt} = {}
      /\ {w \in Workers : pc[w] \in IdleAt} = {}
      /\ {c \in Clients : pc[c] \in BegunAt} = {}
  BY <1>2, <1>3 DEF CountedAt, IdleAt, BegunAt
<1>5. NRun = 0 /\ NIdle = 0 /\ NBegun = 0
  BY <1>4, FS_EmptySet DEF NRun, NIdle, NBegun, Number
<1>6. m_iRunningWorkers = 0 /\ m_idleWorkers = 0
  BY DEF Init
<1> QED
  BY <1>1, <1>2, <1>5, <1>6 DEF CountInv

LEMMA CountStays == CrewInv /\ CountInv /\ UNCHANGED vars => CountInv'
<1> SUFFICES ASSUME CrewInv, CountInv, UNCHANGED vars PROVE CountInv'
  OBVIOUS
<1>1. /\ pc' = pc /\ from' = from /\ m_slot' = m_slot
      /\ m_iRunningWorkers' = m_iRunningWorkers /\ m_idleWorkers' = m_idleWorkers
  BY DEF vars, slotVars, clientVars
<1> QED
  BY <1>1 DEF CountInv, Discards, NRun, NIdle, NBegun, Number

LEMMA CountNext == CrewInv /\ CountInv /\ [Next]_vars => CountInv'
<1> SUFFICES ASSUME CrewInv, CountInv, [Next]_vars PROVE CountInv'
  OBVIOUS
<1>1. CASE UNCHANGED vars
  BY <1>1, CountStays
<1>2. CASE Next
  BY <1>2, CrewMoves, CountStays, CountWorkerMove, CountClientMove, CountBuildMove,
     CountEnterMove, CountOwnerMove
<1> QED
  BY <1>1, <1>2

THEOREM CountInvHolds == Spec => []CountInv
<1>1. CrewInv /\ CountInv /\ [Next]_vars => CountInv'
  BY CountNext
<1> QED
  BY <1>1, CountInit, CrewInvariance, PTL DEF Spec

\* Until the destructor discards workers, size() is the number of workers that were
\* started and did not pass workerDied(), plus the one addWorker() is starting, and
\* m_idleWorkers is always the number of workers in getJob(), whatever the number of
\* threads: the atomic additions of addWorker(), workerRoutine() and workerDied()
\* neither miss a worker nor count one twice, with pthread_create() failing as well.
THEOREM CountersHold == Spec => []CountersExact
<1>1. CrewInv /\ CountInv => CountersExact
  BY CountersAre DEF CountInv, CountersExact, Discards
<1> QED
  BY <1>1, CrewInvariance, CountInvHolds, PTL

-----------------------------------------------------------------------------
(***************************************************************************)
(* size() and its limit.  addWorker() compares them in one step and counts *)
(* two steps later; only the client that holds m_addWorker does so, and a  *)
(* worker that dies meanwhile makes room.                                  *)
(***************************************************************************)

BoundInv ==
    /\ SizeBounded
    /\ \A c \in Clients : pc[c] \in {"publish", "count"} => m_iRunningWorkers < m_maxWorkers

NotLowered == m_maxWorkers' >= m_maxWorkers

LEMMA BoundTypes ==
    ASSUME CrewInv
    PROVE  /\ m_iRunningWorkers \in Int /\ m_maxWorkers \in Nat
           /\ \A c, d \in Clients : pc[c] \in AddStages /\ pc[d] \in AddStages => c = d
  BY DEF CrewInv, TypeOK, OneAdds

LEMMA BoundNext == CrewInv /\ CrewInv' /\ BoundInv /\ [Next]_vars /\ [NotLowered]_vars => BoundInv'
<1> SUFFICES ASSUME CrewInv, CrewInv', BoundInv, [Next]_vars, [NotLowered]_vars
             PROVE  BoundInv'
  OBVIOUS
<1>t. /\ m_iRunningWorkers \in Int /\ m_maxWorkers \in Nat
      /\ m_iRunningWorkers' \in Int /\ m_maxWorkers' \in Nat
      /\ m_maxWorkers' >= m_maxWorkers
      /\ pc \in [Clients \cup Workers -> WorkerAt \cup ClientAt]
      /\ Owner \in Clients /\ Clients \cap Workers = {}
  <2>1. UNCHANGED vars => m_maxWorkers' = m_maxWorkers
    BY DEF vars, limitVars
  <2>2. m_iRunningWorkers \in Int /\ m_maxWorkers \in Nat
    BY DEF CrewInv, TypeOK
  <2>3. m_iRunningWorkers' \in Int /\ m_maxWorkers' \in Nat
    BY DEF CrewInv, TypeOK
  <2>4. m_maxWorkers' >= m_maxWorkers
    BY <2>1, <2>2 DEF NotLowered
  <2> QED
    BY <2>2, <2>3, <2>4, NumberTypes
<1>1. CASE UNCHANGED vars
  BY <1>1 DEF vars, limitVars, BoundInv, SizeBounded
<1>2. ASSUME NEW w \in Workers, NEW l \in WorkerAt, WorkerMove(w, l) PROVE BoundInv'
  <2>1. \A c \in Clients : pc'[c] = pc[c]
    BY <1>t, <1>2 DEF WorkerMove
  <2>2. m_iRunningWorkers' <= m_iRunningWorkers
    BY <1>t, <1>2 DEF WorkerMove
  <2> QED
    BY <1>t, <2>1, <2>2 DEF BoundInv, SizeBounded
<1>3. ASSUME NEW c \in Clients, NEW k \in ClientAt, ClientMove(c, k) PROVE BoundInv'
  <2>1. pc'[c] = k /\ \A d \in Clients : d # c => pc'[d] = pc[d]
    BY <1>t, <1>3 DEF ClientMove
  <2>2. CASE pc[c] = "count" /\ k = "launch" /\ m_iRunningWorkers' = m_iRunningWorkers + 1
    <3>1. \A d \in Clients : pc'[d] \notin {"publish", "count"}
      BY <2>1, <2>2, BoundTypes DEF AddStages
    <3>2. m_iRunningWorkers < m_maxWorkers
      BY <2>2 DEF BoundInv
    <3> QED
      BY <1>t, <2>2, <3>1, <3>2 DEF BoundInv, SizeBounded
  <2>3. CASE m_iRunningWorkers' = m_iRunningWorkers
    <3>1. k \in {"publish", "count"} => pc[c] \in {"publish", "count"}
      BY <1>t, <1>3, <2>3 DEF ClientMove
    <3> QED
      BY <1>t, <2>1, <2>3, <3>1 DEF BoundInv, SizeBounded
  <2> QED
    BY <1>3, <2>2, <2>3 DEF ClientMove
<1>4. ASSUME NEW c \in Clients, NEW w \in Workers, NEW k \in ClientAt, NEW l \in WorkerAt,
             BuildMove(c, w, k, l)
      PROVE  BoundInv'
  <2>1. pc'[c] = k /\ \A d \in Clients : d # c => pc'[d] = pc[d]
    BY <1>t, <1>4 DEF BuildMove
  <2>2. m_iRunningWorkers' <= m_iRunningWorkers
    BY <1>t, <1>4 DEF BuildMove
  <2>3. k \in {"publish", "count"} => m_iRunningWorkers < m_maxWorkers
    BY <1>4 DEF BuildMove
  <2> QED
    BY <1>t, <2>1, <2>2, <2>3 DEF BoundInv, SizeBounded
<1>5. ASSUME NEW c \in Clients, NEW k \in ClientAt, EnterMove(c, k) PROVE BoundInv'
  <2>1. pc'[c] = k /\ \A d \in Clients : d # c => pc'[d] = pc[d]
    BY <1>t, <1>5 DEF EnterMove
  <2>2. m_iRunningWorkers' = m_iRunningWorkers /\ k \notin {"publish", "count"}
    BY <1>5 DEF EnterMove
  <2> QED
    BY <1>t, <2>1, <2>2 DEF BoundInv, SizeBounded
<1>6. ASSUME NEW k \in ClientAt, OwnerMove(k) PROVE BoundInv'
  <2>1. pc'[Owner] = k /\ \A d \in Clients : d # Owner => pc'[d] = pc[d]
    BY <1>t, <1>6 DEF OwnerMove
  <2>2. m_iRunningWorkers' = m_iRunningWorkers /\ k \notin {"publish", "count"}
    BY <1>6 DEF OwnerMove
  <2> QED
    BY <1>t, <2>1, <2>2 DEF BoundInv, SizeBounded
<1> QED
  BY <1>1, <1>2, <1>3, <1>4, <1>5, <1>6, CrewMoves

\* A crew whose limit is not lowered while it runs never has more workers than
\* maxWorkers(), however many clients grow it in addJob() while others die.
THEOREM SizeIsBounded == Spec /\ [][NotLowered]_vars => []SizeBounded
<1>1. Init => BoundInv
  BY ThreadsAssumption, SizesAssumption DEF Init, BoundInv, SizeBounded
<1>2. CrewInv /\ CrewInv' /\ BoundInv /\ [Next]_vars /\ [NotLowered]_vars => BoundInv'
  BY BoundNext
<1>3. BoundInv => SizeBounded
  BY DEF BoundInv
<1> QED
  BY <1>1, <1>2, <1>3, CrewInvariance, PTL DEF Spec

-----------------------------------------------------------------------------
(***************************************************************************)
(* Stopping.  With the owner as the only client, and a destructor that is  *)
(* only called on a crew that does not run, nobody adds a worker while     *)
(* stopProcessing() waits: once size() was 0 it stays 0.                   *)
(***************************************************************************)

Alone == Clients = {Owner} /\ ~DeleteRunning

Stopped == m_stateFutex \in {"STOPPING", "STOPPED"}

\* the places where stopProcessing() has seen that all workers are dead
SeenDead ==
    \/ m_stateFutex = "STOPPED"
    \/ pc[Owner] = "reset"
    \/ Stopped /\ pc[Owner] \in {"idle", "deleteQueue", "free", "deleted"}

StopInv ==
    /\ Stopped => pc[Owner] \in StopStages \cup {"idle"}
    /\ pc[Owner] \in StopStages \ {"deleteQueue", "free", "deleted"} => Stopped
    /\ SeenDead => isAllWorkerDead
    /\ \A w \in Workers :
          /\ pc[w] = "put" => m_pFinishedQueue
          /\ pc[w] # "segv"
          /\ pc[w] = "built" => newWorker[Owner] = w /\ pc[Owner] \in {"publish", "count", "launch", "undo"}

LEMMA NoneCounted ==
    ASSUME CrewInv, CountInv, ~DeleteRunning, isAllWorkerDead
    PROVE  \A w \in Workers : pc[w] \notin CountedAt
<1>1. NRun = 0
  BY NumberTypes DEF CountInv, Discards, isAllWorkerDead
<1> DEFINE S == {w \in Workers : pc[w] \in CountedAt}
<1>2. IsFiniteSet(S)
  BY FewThreads DEF Few
<1>3. Cardinality(S) = 0
  BY <1>1 DEF NRun, Number
<1>4. S = {}
  BY <1>2, <1>3, FS_EmptySet
<1> QED
  BY <1>4

LEMMA StopWorkerMove ==
    ASSUME Alone, CrewInv, CountInv, StopInv, NEW w \in Workers, NEW l \in WorkerAt, WorkerMove(w, l)
    PROVE  StopInv'
<1>1. /\ pc'[Owner] = pc[Owner] /\ pc'[w] = l
      /\ \A v \in Workers : v # w => pc'[v] = pc[v]
      /\ newWorker' = newWorker /\ m_pFinishedQueue' = m_pFinishedQueue
  BY NumberTypes DEF WorkerMove, clientVars
<1>2. Stopped' <=> Stopped
  BY DEF WorkerMove, Stopped
<1>3. SeenDead' => isAllWorkerDead
  BY <1>1, <1>2 DEF WorkerMove, SeenDead, StopInv
<1>4. isAllWorkerDead => m_iRunningWorkers' = m_iRunningWorkers
  <2>1. isAllWorkerDead => pc[w] # "died"
    BY NoneCounted DEF CountedAt, WorkerAt, Alone
  <2> QED
    BY <2>1 DEF WorkerMove
<1>5. SeenDead' => isAllWorkerDead'
  BY <1>3, <1>4 DEF isAllWorkerDead
<1>6. l # "built" /\ (pc[w] = "put" => l # "segv") /\ (l = "segv" => pc[w] = "put")
      /\ (l = "put" => m_pFinishedQueue)
  BY DEF WorkerMove, StopInv
<1> QED
  BY <1>1, <1>2, <1>5, <1>6 DEF StopInv

LEMMA StopClientMove ==
    ASSUME Alone, CrewInv, CountInv, StopInv, NEW c \in Clients, NEW k \in ClientAt, ClientMove(c, k)
    PROVE  StopInv'
<1>1. /\ c = Owner /\ pc'[Owner] = k /\ \A v \in Workers : pc'[v] = pc[v]
      /\ m_stateFutex' = m_stateFutex /\ m_pFinishedQueue' = m_pFinishedQueue
  BY NumberTypes DEF ClientMove, Alone
<1>2. pc[Owner] \notin StopStages \cup {"idle"} /\ k \notin StopStages
  BY <1>1 DEF ClientMove, StopStages
<1>3. ~Stopped /\ ~Stopped'
  BY <1>1, <1>2 DEF StopInv, Stopped
<1>4. ~SeenDead'
  BY <1>1, <1>2, <1>3 DEF SeenDead, Stopped, StopStages
<1>5. pc[Owner] \in {"publish", "count", "launch", "undo"}
        => newWorker'[Owner] = newWorker[Owner] /\ k \in {"publish", "count", "launch", "undo"}
  BY <1>1 DEF ClientMove
<1> QED
  BY <1>1, <1>2, <1>3, <1>4, <1>5 DEF StopInv

LEMMA StopBuildMove ==
    ASSUME Alone, CrewInv, CountInv, StopInv, NEW c \in Clients, NEW w \in Workers,
           NEW k \in ClientAt, NEW l \in WorkerAt, BuildMove(c, w, k, l)
    PROVE  StopInv'
<1>1. /\ c = Owner /\ pc'[Owner] = k /\ pc'[w] = l
      /\ \A v \in Workers : v # w => pc'[v] = pc[v]
      /\ m_stateFutex' = m_stateFutex /\ m_pFinishedQueue' = m_pFinishedQueue
  BY NumberTypes DEF BuildMove, Alone
<1>2. /\ pc[Owner] \notin StopStages \cup {"idle"} /\ k \notin StopStages
      /\ l \notin {"put", "segv"} /\ newWorker'[Owner] = w
      /\ l = "built" => k = "publish"
  BY <1>1 DEF BuildMove, StopStages
<1>3. ~Stopped /\ ~Stopped'
  BY <1>1, <1>2 DEF StopInv, Stopped
<1>4. ~SeenDead'
  BY <1>1, <1>2, <1>3 DEF SeenDead, Stopped, StopStages
<1>5. \A v \in Workers : v # w => pc[v] # "built"
  <2>1. pc[Owner] \in {"launch", "undo"} => pc[w] = "built" /\ pc[Owner] # "getSlot"
    BY <1>1 DEF BuildMove
  <2>2. pc[Owner] \notin {"publish", "count"}
    BY <1>1 DEF BuildMove
  <2> QED
    BY <2>1, <2>2 DEF StopInv
<1> QED
  BY <1>1, <1>2, <1>3, <1>4, <1>5 DEF StopInv

LEMMA StopEnterMove ==
    ASSUME Alone, CrewInv, CountInv, StopInv, NEW c \in Clients, NEW k \in ClientAt, EnterMove(c, k)
    PROVE  StopInv'
<1>1. /\ c = Owner /\ pc'[Owner] = k /\ \A v \in Workers : pc'[v] = pc[v]
      /\ m_stateFutex' = m_stateFutex /\ m_pFinishedQueue' = m_pFinishedQueue
      /\ m_iRunningWorkers' = m_iRunningWorkers
      /\ pc[Owner] = "idle" /\ (k = "idle" \/ (k = "append" /\ ~Stopped))
  BY NumberTypes DEF EnterMove, Alone, Stopped
<1>2. Stopped' <=> Stopped
  BY <1>1 DEF Stopped
<1>3. SeenDead' => SeenDead
  BY <1>1, <1>2 DEF SeenDead, Stopped
<1> QED
  BY <1>1, <1>2, <1>3 DEF StopInv, isAllWorkerDead, StopStages

LEMMA StopOwnerMove ==
    ASSUME Alone, CrewInv, CountInv, StopInv, NEW k \in ClientAt, OwnerMove(k)
    PROVE  StopInv'
<1>1. /\ pc'[Owner] = k /\ \A v \in Workers : pc'[v] = pc[v]
      /\ m_iRunningWorkers' = m_iRunningWorkers
  BY NumberTypes DEF OwnerMove
<1>2. pc[Owner] \in {"waitDead", "reset"} => ~discard
  BY DEF CountInv, discard, Alone
<1>3. pc[Owner] \notin StopStages \cup {"idle"} => ~Stopped
  BY DEF StopInv
<1>4. Stopped' => k \in StopStages \cup {"idle"}
  BY <1>3 DEF OwnerMove, Stopped, StopStages
<1>5. k \in StopStages \ {"deleteQueue", "free", "deleted"} => Stopped'
  BY <1>2 DEF OwnerMove, Stopped, StopStages, StopInv
<1>6. SeenDead' => isAllWorkerDead
  BY <1>1, <1>2, <1>3 DEF OwnerMove, Stopped, SeenDead, StopInv, StopStages
<1>7. isAllWorkerDead' <=> isAllWorkerDead
  BY <1>1 DEF isAllWorkerDead
<1>8. \A w \in Workers : pc[w] = "put" => m_pFinishedQueue'
  <2>1. pc[Owner] = "reset" => \A w \in Workers : pc[w] # "put"
    BY NoneCounted DEF StopInv, SeenDead, Alone, CountedAt, WorkerAt
  <2>2. pc[Owner] # "reset" /\ m_pFinishedQueue => m_pFinishedQueue'
    BY DEF OwnerMove, limitVars
  <2> QED
    BY <2>1, <2>2 DEF StopInv
<1>9. pc[Owner] \notin {"publish", "count", "launch", "undo"}
  BY DEF OwnerMove
<1> QED
  BY <1>1, <1>4, <1>5, <1>6, <1>7, <1>8, <1>9 DEF StopInv

LEMMA StopNext == Alone /\ CrewInv /\ CountInv /\ StopInv /\ [Next]_vars => StopInv'
<1> SUFFICES ASSUME Alone, CrewInv, CountInv, StopInv, [Next]_vars PROVE StopInv'
  OBVIOUS
<1>1. CASE UNCHANGED vars
  BY <1>1 DEF vars, resultVars, clientVars, StopInv, Stopped, SeenDead, isAllWorkerDead
<1>2. CASE Next
  BY <1>1, <1>2, CrewMoves, StopWorkerMove, StopClientMove, StopBuildMove, StopEnterMove,
     StopOwnerMove
<1> QED
  BY <1>1, <1>2

LEMMA StopInit == Alone /\ Init => StopInv
<1> SUFFICES ASSUME Init PROVE StopInv
  OBVIOUS
<1>1. pc[Owner] = "idle" /\ m_stateFutex = "TO_START"
  BY ThreadsAssumption DEF Init
<1>2. \A w \in Workers : pc[w] = "none"
  BY ThreadsAssumption DEF Init
<1> QED
  BY <1>1, <1>2 DEF StopInv, Stopped, SeenDead, StopStages

THEOREM StopInvHolds == Alone /\ Spec => []StopInv
<1> SUFFICES ASSUME Alone PROVE Spec => []StopInv
  OBVIOUS
<1>1. Init => StopInv
  BY StopInit
<1>2. CrewInv /\ CountInv /\ StopInv /\ [Next]_vars => StopInv'
  BY StopNext
<1> QED
  BY <1>1, <1>2, CrewInvariance, CountInvHolds, PTL DEF Spec

\* The assertion in stopProcessing() holds: a worker that stores STOPPED in the futex,
\* or the owner that does so after a timeout, has seen size() at 0, and it stays 0.
THEOREM StoppedMeansDead == Alone /\ Spec => []StoppedAllDead
<1> SUFFICES ASSUME Alone PROVE Spec => []StoppedAllDead
  OBVIOUS
<1>1. StopInv => StoppedAllDead
  BY DEF StopInv, SeenDead, StoppedAllDead
<1> QED
  BY <1>1, StopInvHolds, PTL

\* When stopProcessing() has returned, every worker has left workerRoutine() or does
\* not exist, and putFinishedItem() never finds the finished queue's pointer NULL:
\* m_pFinishedQueue is cleared only when size() is 0, and size() is exact.
THEOREM StopIsQuiet == Alone /\ Spec => []StoppedIsQuiet
<1> SUFFICES ASSUME Alone PROVE Spec => []StoppedIsQuiet
  OBVIOUS
<1>1. CrewInv /\ CountInv /\ StopInv => StoppedIsQuiet
  <2> SUFFICES ASSUME CrewInv, CountInv, StopInv PROVE StoppedIsQuiet
    OBVIOUS
  <2>1. ASSUME pc[Owner] = "idle", Stopped, NEW w \in Workers
        PROVE  pc[w] \in {"none", "lockCrew", "unlockCrew"}
    <3>1. isAllWorkerDead /\ pc[w] # "built"
      BY <2>1 DEF StopInv, SeenDead
    <3>2. pc[w] \in WorkerAt \ CountedAt
      BY <3>1, NoneCounted DEF Alone, CrewInv, TypeOK, PcTypeOK
    <3> QED
      BY <3>1, <3>2 DEF CountedAt
  <2> QED
    BY <2>1 DEF StoppedIsQuiet, Stopped, At, StopInv
<1> QED
  BY <1>1, CrewInvariance, CountInvHolds, StopInvHolds, PTL

-----------------------------------------------------------------------------
(***************************************************************************)
(* A running crew keeps a worker.  A worker leaves its loop because it was *)
(* told to stop, or because enough others are idle, or because the crew is *)
(* over its limit: the first is not so while the crew runs, the second     *)
(* means another worker in the loop, and the third does not happen.        *)
(***************************************************************************)

\* The crew was set up to have workers: the limits are positive, in the constructor's
\* arguments and in what the owner passes later, and threads can be created.
Staffed ==
    /\ ~CreateMayFail
    /\ MinIdle > 0 /\ MaxWorkers > 0
    /\ \A p \in IdleChoices : p[1] > 0
    /\ \A n \in MaxChoices : n > 0

SomeInRoutine == \E w \in Workers : InRoutine(w)

\* startProcessing() has been through its loop once, or is over
Begun ==
    \/ from[Owner] # "start"
    \/ pc[Owner] = "added"
    \/ pc[Owner] \in AddStages /\ iter[Owner] > 0

WorkInv ==
    /\ ~Stopped => m_minIdle > 0 /\ m_maxIdle > 0 /\ m_maxWorkers > 0
    /\ \A w \in Workers : ~Stopped /\ InRoutine(w) => m_isWorking[w] = "RUNNING"
    /\ \A w \in Workers : ~Stopped /\ pc[w] = "put" => m_pFinishedQueue
    /\ ~Stopped /\ (\E w \in Workers : pc[w] \in CountedAt) => SomeInRoutine
    /\ m_stateFutex = "RUNNING" /\ Begun => SomeInRoutine
    /\ from[Owner] = "start" => m_stateFutex = "RUNNING" /\ pc[Owner] # "grow"
    /\ pc[Owner] \in StopStages \ {"deleteQueue", "free", "deleted"} => Stopped
    /\ \A c \in Clients : pc[c] \notin {"undo", "releaseSlot"}

\* m_idleWorkers, when it is not 0, stands for a worker in getJob().
LEMMA SomeIdle ==
    ASSUME CrewInv, CountInv, m_idleWorkers > 0
    PROVE  \E w \in Workers : pc[w] \in IdleAt
<1>1. NIdle > 0
  BY DEF CountInv
<1> DEFINE S == {w \in Workers : pc[w] \in IdleAt}
<1>2. Cardinality(S) # 0
  BY <1>1 DEF NIdle, Number
<1>3. S # {}
  BY <1>2, FS_EmptySet
<1> QED
  BY <1>3

LEMMA SomeCounted ==
    ASSUME CrewInv, CountInv, from[Owner] # "destructor", m_iRunningWorkers > 0,
           \A c \in Clients : pc[c] \notin BegunAt
    PROVE  \E w \in Workers : pc[w] \in CountedAt
<1>1. {c \in Clients : pc[c] \in BegunAt} = {}
  OBVIOUS
<1>2. NBegun = 0
  BY <1>1, FS_EmptySet DEF NBegun, Number
<1>3. NRun > 0
  BY <1>2, NumberTypes DEF CountInv, Discards
<1> DEFINE S == {w \in Workers : pc[w] \in CountedAt}
<1>4. Cardinality(S) # 0
  BY <1>3 DEF NRun, Number
<1>5. S # {}
  BY <1>4, FS_EmptySet
<1> QED
  BY <1>5

LEMMA WorkWorkerMove ==
    ASSUME CrewInv, CountInv, BoundInv, WorkInv,
           NEW w \in Workers, NEW l \in WorkerAt, WorkerMove(w, l)
    PROVE  WorkInv'
<1>1. /\ \A c \in Clients : pc'[c] = pc[c]
      /\ pc'[w] = l /\ \A v \in Workers : v # w => pc'[v] = pc[v]
      /\ Owner \in Clients
  BY NumberTypes DEF WorkerMove
<1>2. /\ m_pFinishedQueue' = m_pFinishedQueue /\ from' = from /\ iter' = iter
      /\ m_minIdle' = m_minIdle /\ m_maxIdle' = m_maxIdle /\ m_maxWorkers' = m_maxWorkers
  BY DEF WorkerMove, clientVars, limitVars
<1>3. (Stopped' <=> Stopped) /\ (m_stateFutex' = "RUNNING" <=> m_stateFutex = "RUNNING")
  BY DEF WorkerMove, Stopped
<1>4. (Begun' <=> Begun)
  BY <1>1, <1>2 DEF Begun
<1>5. ~Stopped /\ SomeInRoutine => SomeInRoutine'
  <2> SUFFICES ASSUME ~Stopped, SomeInRoutine PROVE \E v \in Workers : InRoutine(v)'
    BY DEF SomeInRoutine
  <2>1. PICK v \in Workers : InRoutine(v)
    BY DEF SomeInRoutine
  <2>2. CASE v # w
    BY <1>1, <2>1, <2>2 DEF InRoutine
  <2>3. CASE v = w /\ InRoutine(w)'
    BY <2>3
  <2>4. CASE v = w /\ ~InRoutine(w)'
    <3>1. m_isWorking[w] = "RUNNING" /\ (pc[w] = "put" => m_pFinishedQueue)
      BY <2>1, <2>4 DEF WorkInv
    <3>2. pc[w] = "shrink" /\ TooMany
      BY <1>1, <2>1, <2>4, <3>1 DEF WorkerMove, InRoutine
    <3>3. m_idleWorkers > 0
      <4>1. m_maxIdle > 0 /\ m_iRunningWorkers <= m_maxWorkers
        BY DEF WorkInv, BoundInv, SizeBounded
      <4>2. /\ m_maxIdle \in Int /\ m_maxWorkers \in Int
            /\ m_iRunningWorkers \in Int /\ m_idleWorkers \in Int
        BY DEF CrewInv, TypeOK
      <4> QED
        BY <3>2, <4>1, <4>2 DEF TooMany
    <3>4. PICK u \in Workers : pc[u] \in IdleAt
      BY <3>3, SomeIdle
    <3>5. u # w
      BY <3>2, <3>4 DEF IdleAt
    <3> QED
      BY <1>1, <3>4, <3>5 DEF InRoutine, IdleAt
  <2> QED
    BY <2>2, <2>3, <2>4
<1>6. (\E v \in Workers : pc'[v] \in CountedAt) => \E v \in Workers : pc[v] \in CountedAt
  <2>1. l \in CountedAt => pc[w] \in CountedAt
    BY DEF WorkerMove, CountedAt, WorkerAt
  <2> QED
    BY <1>1, <2>1
<1>7. ASSUME NEW v \in Workers, ~Stopped, InRoutine(v)' PROVE m_isWorking'[v] = "RUNNING"
  <2>1. v # w \/ l # "none"
    BY <1>1, <1>7 DEF InRoutine
  <2>2. InRoutine(v)
    BY <1>1, <1>7 DEF WorkerMove, InRoutine
  <2> QED
    BY <1>7, <2>1, <2>2 DEF WorkerMove, WorkInv
<1>8. ASSUME NEW v \in Workers, ~Stopped, pc'[v] = "put" PROVE m_pFinishedQueue'
  BY <1>1, <1>2, <1>8 DEF WorkerMove, WorkInv
<1>9. ~Stopped' /\ (\E v \in Workers : pc'[v] \in CountedAt) => SomeInRoutine'
  BY <1>3, <1>5, <1>6 DEF WorkInv
<1>10. m_stateFutex' = "RUNNING" /\ Begun' => SomeInRoutine'
  <2>1. m_stateFutex = "RUNNING" => ~Stopped
    BY DEF Stopped
  <2> QED
    BY <1>3, <1>4, <1>5, <2>1 DEF WorkInv
<1>11. /\ ~Stopped' => m_minIdle' > 0 /\ m_maxIdle' > 0 /\ m_maxWorkers' > 0
       /\ from'[Owner] = "start" => m_stateFutex' = "RUNNING" /\ pc'[Owner] # "grow"
       /\ pc'[Owner] \in StopStages \ {"deleteQueue", "free", "deleted"} => Stopped'
       /\ \A c \in Clients : pc'[c] \notin {"undo", "releaseSlot"}
  BY <1>1, <1>2, <1>3 DEF WorkInv
<1> QED
  BY <1>3, <1>7, <1>8, <1>9, <1>10, <1>11 DEF WorkInv

LEMMA WorkClientMove ==
    ASSUME Staffed, CrewInv, CountInv, BoundInv, WorkInv,
           NEW c \in Clients, NEW k \in ClientAt, ClientMove(c, k)
    PROVE  WorkInv'
<1>1. /\ pc'[c] = k /\ \A d \in Clients : d # c => pc'[d] = pc[d]
      /\ \A v \in Workers : pc'[v] = pc[v]
      /\ Owner \in Clients
  BY NumberTypes DEF ClientMove
<1>2. /\ m_pFinishedQueue' = m_pFinishedQueue /\ m_stateFutex' = m_stateFutex
      /\ m_minIdle' = m_minIdle /\ m_maxIdle' = m_maxIdle /\ m_maxWorkers' = m_maxWorkers
  BY DEF ClientMove, limitVars
<1>3. Stopped' <=> Stopped
  BY <1>2 DEF Stopped
<1>4. SomeInRoutine' <=> SomeInRoutine
  BY <1>1 DEF SomeInRoutine, InRoutine
<1>5. /\ pc[c] \notin StopStages \cup {"idle", "undo", "releaseSlot"}
      /\ k \notin StopStages \cup {"undo", "releaseSlot"}
  BY DEF ClientMove, StopStages, WorkInv, Staffed
<1>6. \A v \in Workers : m_isWorking'[v] = m_isWorking[v]
  BY <1>5 DEF ClientMove
<1>7. from'[Owner] = "start" => from[Owner] = "start" /\ pc'[Owner] # "grow"
  <2>1. from'[Owner] = "start" => from[Owner] = "start"
    BY <1>1 DEF ClientMove
  <2>2. CASE c = Owner
    <3>1. from[Owner] = "start" => pc[Owner] \notin {"append", "needGrow"}
      BY <1>1 DEF CrewInv, ClientPhases, AddStages
    <3> QED
      BY <1>1, <2>1, <2>2, <3>1 DEF ClientMove
  <2>3. CASE c # Owner
    BY <1>1, <2>1, <2>3 DEF WorkInv
  <2> QED
    BY <2>2, <2>3
<1>8. m_stateFutex = "RUNNING" /\ Begun' => SomeInRoutine
  <2> SUFFICES ASSUME m_stateFutex = "RUNNING", Begun', ~Begun PROVE SomeInRoutine
    BY DEF WorkInv
  <2>1. c = Owner /\ from[Owner] = "start" /\ pc[Owner] # "added"
    BY <1>1 DEF Begun, ClientMove
  <2>2. CASE pc[Owner] = "getSlot" /\ k = "added"
    <3>1. m_iRunningWorkers >= m_maxWorkers
      BY <2>1, <2>2 DEF ClientMove
    <3>2. m_iRunningWorkers > 0
      <4>1. m_maxWorkers > 0
        BY DEF WorkInv, Stopped
      <4> QED
        BY <3>1, <4>1, BoundTypes
    <3>3. \A d \in Clients : pc[d] \notin BegunAt
      BY <1>1, <2>2, BoundTypes DEF AddStages, BegunAt
    <3>4. \E w \in Workers : pc[w] \in CountedAt
      BY <2>1, <3>2, <3>3, SomeCounted
    <3> QED
      BY <3>4 DEF WorkInv, Stopped
  <2>3. CASE ~(pc[Owner] = "getSlot" /\ k = "added")
    <3>1. pc[Owner] \in AddStages \cup {"queueStart", "startLock"}
      BY <1>1, <2>1 DEF CrewInv, ClientPhases
    <3>2. /\ pc[Owner] \in AddStages /\ k # "added" /\ from' = from
          /\ iter' = iter
      <4>1. pc[Owner] # "grow"
        BY <2>1 DEF WorkInv
      <4> QED
        BY <1>5, <2>1, <2>3, <3>1, <4>1 DEF ClientMove, AddStages
    <3> QED
      BY <1>1, <2>1, <3>2 DEF Begun
  <2> QED
    BY <2>2, <2>3
<1> QED
  BY <1>1, <1>2, <1>3, <1>4, <1>5, <1>6, <1>7, <1>8 DEF WorkInv, InRoutine

LEMMA WorkBuildMove ==
    ASSUME CrewInv, CountInv, BoundInv, WorkInv, NEW c \in Clients, NEW w \in Workers,
           NEW k \in ClientAt, NEW l \in WorkerAt, BuildMove(c, w, k, l)
    PROVE  WorkInv'
<1>1. /\ pc'[c] = k /\ \A d \in Clients : d # c => pc'[d] = pc[d]
      /\ pc'[w] = l /\ \A v \in Workers : v # w => pc'[v] = pc[v]
      /\ Owner \in Clients
  BY NumberTypes DEF BuildMove
<1>2. /\ m_pFinishedQueue' = m_pFinishedQueue /\ m_stateFutex' = m_stateFutex
      /\ from' = from /\ iter' = iter
      /\ m_minIdle' = m_minIdle /\ m_maxIdle' = m_maxIdle /\ m_maxWorkers' = m_maxWorkers
  BY DEF BuildMove, limitVars
<1>3. Stopped' <=> Stopped
  BY <1>2 DEF Stopped
<1>4. \/ pc[c] = "getSlot" /\ k = "publish" /\ pc[w] = "none" /\ l = "built"
      \/ pc[c] = "launch" /\ k = "added" /\ l = "loop" /\ pc[w] = "built"
         /\ m_isWorking'[w] = "RUNNING"
  BY DEF BuildMove, WorkInv
<1>5. ~InRoutine(w) /\ pc[w] \notin CountedAt
  BY <1>4 DEF InRoutine, CountedAt
<1>6. SomeInRoutine => SomeInRoutine'
  BY <1>1, <1>5 DEF SomeInRoutine, InRoutine
<1>7. k = "added" => SomeInRoutine'
  BY <1>1, <1>4 DEF SomeInRoutine, InRoutine
<1>8. k # "added" => l \notin CountedAt /\ (Begun' => Begun)
  BY <1>1, <1>2, <1>4 DEF CountedAt, Begun, AddStages
<1>9. ASSUME NEW v \in Workers, ~Stopped, InRoutine(v)' PROVE m_isWorking'[v] = "RUNNING"
  <2>1. CASE v = w
    BY <1>1, <1>4, <1>9, <2>1 DEF InRoutine
  <2>2. CASE v # w
    BY <1>1, <1>9, <2>2 DEF InRoutine, BuildMove, WorkInv
  <2> QED
    BY <2>1, <2>2
<1>10. ~Stopped /\ (\E v \in Workers : pc'[v] \in CountedAt) => SomeInRoutine'
  BY <1>1, <1>6, <1>7, <1>8 DEF WorkInv
<1>11. m_stateFutex = "RUNNING" /\ Begun' => SomeInRoutine'
  BY <1>6, <1>7, <1>8 DEF WorkInv
<1>12. \A v \in Workers : ~Stopped /\ pc'[v] = "put" => m_pFinishedQueue'
  BY <1>1, <1>2, <1>4 DEF WorkInv
<1>13. k \notin StopStages \cup {"undo", "releaseSlot", "grow"}
  BY <1>4 DEF StopStages
<1> QED
  BY <1>1, <1>2, <1>3, <1>9, <1>10, <1>11, <1>12, <1>13 DEF WorkInv

LEMMA WorkEnterMove ==
    ASSUME CrewInv, CountInv, BoundInv, WorkInv,
           NEW c \in Clients, NEW k \in ClientAt, EnterMove(c, k)
    PROVE  WorkInv'
<1>1. /\ pc'[c] = k /\ \A d \in Clients : d # c => pc'[d] = pc[d]
      /\ \A v \in Workers : pc'[v] = pc[v]
      /\ Owner \in Clients
  BY NumberTypes DEF EnterMove
<1>2. /\ m_pFinishedQueue' = m_pFinishedQueue /\ m_stateFutex' = m_stateFutex
      /\ m_isWorking' = m_isWorking /\ iter' = iter
      /\ m_minIdle' = m_minIdle /\ m_maxIdle' = m_maxIdle /\ m_maxWorkers' = m_maxWorkers
      /\ pc[c] = "idle" /\ k \in {"idle", "append"}
  BY DEF EnterMove, limitVars
<1>3. Stopped' <=> Stopped
  BY <1>2 DEF Stopped
<1>4. SomeInRoutine' <=> SomeInRoutine
  BY <1>1 DEF SomeInRoutine, InRoutine
<1>5. from[c] = "none"
  BY <1>2 DEF CrewInv, ClientPhases, AddStages, StopStages
<1>6. from \in [Clients -> {"none", "start", "addJob", "stop", "destructor"}]
  BY DEF CrewInv, TypeOK
<1>7. from'[Owner] = "start" => from[Owner] = "start" /\ pc'[Owner] # "grow"
  BY <1>1, <1>2, <1>5, <1>6 DEF EnterMove, WorkInv
<1>8. Begun' => Begun
  BY <1>1, <1>2, <1>5, <1>6 DEF Begun, EnterMove, AddStages
<1> QED
  BY <1>1, <1>2, <1>3, <1>4, <1>7, <1>8 DEF WorkInv, InRoutine, StopStages

LEMMA WorkOwnerMove ==
    ASSUME Staffed, CrewInv, CountInv, BoundInv, WorkInv, NEW k \in ClientAt, OwnerMove(k)
    PROVE  WorkInv'
<1>1. /\ pc'[Owner] = k /\ \A d \in Clients : d # Owner => pc'[d] = pc[d]
      /\ \A v \in Workers : pc'[v] = pc[v]
      /\ Owner \in Clients
  BY NumberTypes DEF OwnerMove
<1>2. SomeInRoutine' <=> SomeInRoutine
  BY <1>1 DEF SomeInRoutine, InRoutine
<1>3. /\ pc[Owner] = "idle" => from[Owner] = "none"
      /\ pc[Owner] \in {"queueStart", "startLock"} => from[Owner] = "start"
      /\ pc[Owner] \in StopStages => from[Owner] \in {"stop", "destructor"}
  BY <1>1 DEF CrewInv, ClientPhases, AddStages, StopStages
<1>4. Stopped => Stopped'
  BY DEF OwnerMove, Stopped
<1>5. pc[Owner] \in {"stopAll", "stopAgain", "reset"} => Stopped
  BY DEF WorkInv, StopStages
<1>6. ~Stopped' => /\ \A w \in Workers : m_isWorking'[w] = m_isWorking[w]
                   /\ m_pFinishedQueue => m_pFinishedQueue'
  BY <1>4, <1>5 DEF OwnerMove
<1>7. ~Stopped' => m_minIdle' > 0 /\ m_maxIdle' > 0 /\ m_maxWorkers' > 0
  <2> SUFFICES ASSUME ~Stopped' PROVE m_minIdle' > 0 /\ m_maxIdle' > 0 /\ m_maxWorkers' > 0
    OBVIOUS
  <2>1. m_minIdle > 0 /\ m_maxIdle > 0 /\ m_maxWorkers > 0
    BY <1>4 DEF WorkInv
  <2>2. CASE UNCHANGED limitVars
    BY <2>1, <2>2 DEF limitVars
  <2>3. CASE /\ m_maxWorkers' \in MaxChoices \cup {m_maxWorkers}
             /\ UNCHANGED <<m_minIdle, m_maxIdle>>
    BY <2>1, <2>3 DEF Staffed
  <2>4. CASE /\ m_maxWorkers' \in MaxChoices \cup {m_maxWorkers}
             /\ \E p \in IdleChoices : m_minIdle' = p[1] /\ m_maxIdle' = p[2] /\ p[1] <= p[2]
    <3>1. PICK p \in IdleChoices : m_minIdle' = p[1] /\ m_maxIdle' = p[2] /\ p[1] <= p[2]
      BY <2>4
    <3>2. p[1] \in Nat /\ p[2] \in Nat /\ p[1] > 0
      BY SizesAssumption DEF Staffed
    <3>3. m_maxWorkers' > 0
      BY <2>1, <2>4 DEF Staffed
    <3> QED
      BY <3>1, <3>2, <3>3
  <2> QED
    BY <1>4, <1>5, <2>2, <2>3, <2>4 DEF OwnerMove
<1>8. from'[Owner] = "start" => m_stateFutex' = "RUNNING" /\ k # "grow"
  BY <1>3 DEF OwnerMove, WorkInv, StopStages, discard
<1>9. k \in StopStages \ {"deleteQueue", "free", "deleted"} => Stopped'
  BY <1>4 DEF OwnerMove, WorkInv, StopStages, discard, Stopped
<1>10. k \notin {"undo", "releaseSlot"}
  BY DEF OwnerMove
<1>11. m_stateFutex' = "RUNNING" /\ Begun' => SomeInRoutine
  <2> SUFFICES ASSUME m_stateFutex' = "RUNNING", Begun' PROVE SomeInRoutine
    OBVIOUS
  <2>1. ~Stopped'
    BY DEF Stopped
  <2>2. m_minIdle > 0
    BY <1>4, <2>1 DEF WorkInv
  <2>3. m_stateFutex = "RUNNING" /\ Begun
    <3>1. ~(k = "queueStart" /\ from'[Owner] = "start")
      BY <1>1 DEF Begun, AddStages
    <3>2. pc[Owner] # "startLock"
      <4>1. pc[Owner] = "startLock" => k = "getSlot" /\ iter'[Owner] = 0 /\ from'[Owner] = "start"
        BY <1>3, <2>2 DEF OwnerMove
      <4> QED
        BY <1>1, <4>1 DEF Begun
    <3>3. pc[Owner] # "queueStart"
      <4>1. pc[Owner] = "queueStart" => k = "startLock" /\ from'[Owner] = "start"
        BY <1>3 DEF OwnerMove
      <4> QED
        BY <1>1, <4>1 DEF Begun, AddStages
    <3>4. m_stateFutex = "RUNNING"
      BY <2>1, <3>1, <3>2, <3>3 DEF OwnerMove, Stopped
    <3>5. from[Owner] # "start"
      BY <1>3, <3>2, <3>3 DEF OwnerMove, StopStages
    <3> QED
      BY <3>4, <3>5 DEF Begun
  <2> QED
    BY <2>3 DEF WorkInv
<1>12. /\ \A v \in Workers : ~Stopped' /\ InRoutine(v)' => m_isWorking'[v] = "RUNNING"
       /\ \A v \in Workers : ~Stopped' /\ pc'[v] = "put" => m_pFinishedQueue'
  BY <1>1, <1>4, <1>6 DEF WorkInv, InRoutine
<1>13. ~Stopped' /\ (\E v \in Workers : pc'[v] \in CountedAt) => SomeInRoutine'
  BY <1>1, <1>2, <1>4 DEF WorkInv
<1> QED
  BY <1>1, <1>2, <1>7, <1>8, <1>9, <1>10, <1>11, <1>12, <1>13 DEF WorkInv

LEMMA WorkNext ==
    Staffed /\ CrewInv /\ CountInv /\ BoundInv /\ WorkInv /\ [Next]_vars => WorkInv'
<1> SUFFICES ASSUME Staffed, CrewInv, CountInv, BoundInv, WorkInv, [Next]_vars PROVE WorkInv'
  OBVIOUS
<1>1. CASE UNCHANGED vars
  BY <1>1 DEF vars, resultVars, clientVars, limitVars, WorkInv, Stopped, SomeInRoutine,
     InRoutine, Begun
<1>2. CASE Next
  BY <1>1, <1>2, CrewMoves, WorkWorkerMove, WorkClientMove, WorkBuildMove, WorkEnterMove,
     WorkOwnerMove
<1> QED
  BY <1>1, <1>2

LEMMA WorkInit == Staffed /\ Init => WorkInv
<1> SUFFICES ASSUME Staffed, Init PROVE WorkInv
  OBVIOUS
<1>1. m_stateFutex = "TO_START" /\ from[Owner] = "none" /\ pc[Owner] = "idle"
  BY ThreadsAssumption DEF Init
<1>2. \A w \in Workers : pc[w] = "none"
  BY ThreadsAssumption DEF Init
<1>3. \A c \in Clients : pc[c] = "idle"
  BY ThreadsAssumption DEF Init
<1>4. m_minIdle > 0 /\ m_maxIdle > 0 /\ m_maxWorkers > 0
  BY SizesAssumption DEF Init, Staffed
<1> QED
  BY <1>1, <1>2, <1>3, <1>4 DEF WorkInv, InRoutine, CountedAt, StopStages

\* A crew that was given positive limits, and whose limit is not lowered meanwhile, has
\* a worker in its loop from the end of startProcessing() until it is stopped: workers
\* that leave because others are idle never all leave, for any number of workers and of
\* clients that grow the crew.
THEOREM CrewKeepsWorking == Staffed /\ Spec /\ [][NotLowered]_vars => []SomeoneWorks
<1> SUFFICES ASSUME Staffed PROVE Spec /\ [][NotLowered]_vars => []SomeoneWorks
  OBVIOUS
<1>1. Init => BoundInv /\ WorkInv
  BY WorkInit, ThreadsAssumption, SizesAssumption DEF Init, BoundInv, SizeBounded
<1>2. CrewInv /\ CrewInv' /\ BoundInv /\ [Next]_vars /\ [NotLowered]_vars => BoundInv'
  BY BoundNext
<1>3. CrewInv /\ CountInv /\ BoundInv /\ WorkInv /\ [Next]_vars => WorkInv'
  BY WorkNext
<1>4. WorkInv => SomeoneWorks
  BY DEF WorkInv, SomeoneWorks, Begun, SomeInRoutine
<1> QED
  BY <1>1, <1>2, <1>3, <1>4, CrewInvariance, CountInvHolds, PTL DEF Spec
=============================================================================
