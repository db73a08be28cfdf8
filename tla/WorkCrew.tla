------------------------------ MODULE WorkCrew ------------------------------
(***************************************************************************)
(* The thread pool of src/src/thread: WorkCrew, its CrewWorker threads and *)
(* the PThreadWorkQueue they share (LS_WORKCREW_LF is not defined, so the  *)
(* mutex-and-condition queue is the one that is built).                    *)
(*                                                                         *)
(* A step is what one thread does between two accesses that another thread *)
(* can interleave with: one atomic operation, or one critical section of   *)
(* m_crewLock or of the queue's mutex.  A client thread is in `pc' at      *)
(* "idle" when it is in none of the crew's functions; a worker identity is *)
(* at "none" when no thread has it.                                        *)
(*                                                                         *)
(* Signals and broadcasts of the queue's condition are left out: every     *)
(* wait in getJob() is timed, so a waiter may return at any moment anyway. *)
(***************************************************************************)
EXTENDS Integers, Sequences, FiniteSets

CONSTANTS Clients,        \* threads that call addJob()
          Owner,          \* the one of them that starts, stops and deletes
          Workers,        \* identities of CrewWorker objects
          Jobs,           \* one per call of addJob()
          NULL,
          MinIdle, MaxIdle, MaxWorkers,  \* the constructor's arguments
          HasFinishedQueue,  \* a finished queue was given to the constructor
          IdleChoices,    \* <<min, max>> pairs the owner passes to adjustIdle
          MaxChoices,     \* arguments of maxWorkers() and startJobProcessor()
          CreateMayFail,  \* pthread_create() can fail
          DeleteRunning   \* the owner may delete the crew without stopping it

ASSUME ThreadsAssumption ==
    /\ Owner \in Clients
    /\ Clients \cap Workers = {}
    /\ IsFiniteSet(Workers)
    /\ NULL \notin Clients \cup Workers \cup Jobs

ASSUME SizesAssumption ==
    /\ MinIdle \in Nat /\ MaxIdle \in Nat /\ MaxWorkers \in Nat
    /\ MinIdle <= MaxIdle      \* init() raises m_maxIdle to m_minIdle
    /\ MaxChoices \subseteq Nat
    /\ IdleChoices \subseteq Nat \X Nat
    /\ HasFinishedQueue \in BOOLEAN
    /\ CreateMayFail \in BOOLEAN
    /\ DeleteRunning \in BOOLEAN

VARIABLES
    m_stateFutex,       \* TO_START, RUNNING, STOPPING or STOPPED
    m_crew,             \* slot -> CrewWorker or NULL, slots 0 .. size - 1
    m_emptySlots,       \* slots to use again (a stack in the code: any here)
    m_iRunningWorkers,  \* what size() returns
    m_idleWorkers,
    m_minIdle, m_maxIdle, m_maxWorkers,
    m_crewLock, m_addWorker,   \* mutexes: the thread that holds it, or NULL
    m_pFinishedQueue,   \* the pointer is not NULL
    jobQueue,           \* PThreadWorkQueue::m_queue
    m_bShutdown,        \* PThreadWorkQueue::m_bShutdown
    finished,           \* jobs put into the finished queue
    unreported,         \* jobs processed without a finished queue to put them in
    m_slot,             \* CrewWorker::m_slot
    m_isWorking,        \* Worker::m_isWorking
    held,               \* the job a worker has in its hands, or NULL
    pc,                 \* where each thread is
    from,               \* client: the public function it is inside of
    newWorker, newSlot, \* client: addWorker's CrewWorker and its slot
    iter,               \* client: the loop counter of its growth loop
    jobArg,             \* client: addJob's argument
    jobRet,             \* job -> what addJob returned for it
    freed               \* the crew's memory was given back

slotVars   == <<m_crew, m_emptySlots, m_slot>>
limitVars  == <<m_minIdle, m_maxIdle, m_maxWorkers>>
lockVars   == <<m_crewLock, m_addWorker>>
queueVars  == <<jobQueue, m_bShutdown>>
resultVars == <<m_pFinishedQueue, finished, unreported>>
clientVars == <<from, newWorker, newSlot, iter, jobArg, jobRet, freed>>
vars == <<m_stateFutex, slotVars, m_iRunningWorkers, m_idleWorkers, limitVars,
          lockVars, resultVars, queueVars, m_isWorking, held, pc, clientVars>>

WorkerAt == {"none", "built", "loop", "poll", "toIdle", "get", "wait", "unIdle",
             "process", "report", "put", "shrink", "cleanup", "died",
             "lockCrew", "unlockCrew", "segv"}
ClientAt == {"idle", "append", "needGrow", "grow", "getSlot", "publish", "count",
             "launch", "undo", "releaseSlot", "added", "queueStart", "startLock",
             "stopAll", "shutdown", "drain", "waitDead", "futex", "woken",
             "stopAgain", "reset", "deleteQueue", "free", "deleted"}

CrewSize == Cardinality(DOMAIN m_crew)   \* m_crew.size()

PcTypeOK ==
    /\ pc \in [Clients \cup Workers -> WorkerAt \cup ClientAt]
    /\ \A w \in Workers : pc[w] \in WorkerAt
    /\ \A c \in Clients : pc[c] \in ClientAt

TypeOK ==
    /\ m_stateFutex \in {"TO_START", "RUNNING", "STOPPING", "STOPPED"}
    /\ CrewSize \in Nat
    /\ m_crew \in [0 .. CrewSize - 1 -> Workers \cup {NULL}]
    /\ m_emptySlots \subseteq DOMAIN m_crew
    /\ m_iRunningWorkers \in Int
    /\ m_idleWorkers \in Int
    /\ m_minIdle \in Nat /\ m_maxIdle \in Nat /\ m_maxWorkers \in Nat
    /\ m_crewLock \in Clients \cup Workers \cup {NULL}
    /\ m_addWorker \in Clients \cup {NULL}
    /\ m_pFinishedQueue \in BOOLEAN
    /\ jobQueue \in Seq(Jobs)
    /\ m_bShutdown \in BOOLEAN
    /\ finished \subseteq Jobs
    /\ unreported \subseteq Jobs
    /\ m_slot \in [Workers -> Int]
    /\ m_isWorking \in [Workers -> {"TO_START", "RUNNING", "TO_STOP"}]
    /\ held \in [Workers -> Jobs \cup {NULL}]
    /\ PcTypeOK
    /\ from \in [Clients -> {"none", "start", "addJob", "stop", "destructor"}]
    /\ newWorker \in [Clients -> Workers \cup {NULL}]
    /\ newSlot \in [Clients -> Nat]
    /\ iter \in [Clients -> Nat]
    /\ jobArg \in [Clients -> Jobs \cup {NULL}]
    /\ jobRet \in [Jobs -> {"none", "OK", "LS_FAIL", "EACCES"}]
    /\ freed \in BOOLEAN

Init ==
    /\ m_stateFutex = "TO_START"
    /\ m_crew = [s \in {} |-> NULL]
    /\ m_emptySlots = {}
    /\ m_iRunningWorkers = 0
    /\ m_idleWorkers = 0
    /\ m_minIdle = MinIdle /\ m_maxIdle = MaxIdle /\ m_maxWorkers = MaxWorkers
    /\ m_crewLock = NULL /\ m_addWorker = NULL
    /\ m_pFinishedQueue = HasFinishedQueue
    /\ jobQueue = <<>>
    /\ m_bShutdown = FALSE
    /\ finished = {} /\ unreported = {}
    /\ m_slot = [w \in Workers |-> -1]
    /\ m_isWorking = [w \in Workers |-> "TO_START"]
    /\ held = [w \in Workers |-> NULL]
    /\ pc = [t \in Clients \cup Workers |->
                IF t \in Clients THEN "idle" ELSE "none"]
    /\ from = [c \in Clients |-> "none"]
    /\ newWorker = [c \in Clients |-> NULL]
    /\ newSlot = [c \in Clients |-> 0]
    /\ iter = [c \in Clients |-> 0]
    /\ jobArg = [c \in Clients |-> NULL]
    /\ jobRet = [j \in Jobs |-> "none"]
    /\ freed = FALSE

At(t, label) == pc[t] = label
Goto(t, label) == pc' = [pc EXCEPT ![t] = label]

-----------------------------------------------------------------------------
(***************************************************************************)
(* The conditions and small steps that the threads' code is made of.  An   *)
(* operator whose name ends in _Bug is a slip one could make in the one    *)
(* that follows it; it is used in no specification, only to see that the   *)
(* properties notice it.                                                   *)
(***************************************************************************)
isAllWorkerDead_Bug == m_iRunningWorkers <= 1
isAllWorkerDead == m_iRunningWorkers = 0

\* the last worker of a crew that is being stopped
LastDied_Bug == m_stateFutex = "STOPPING"
LastDied == m_stateFutex = "STOPPING" /\ isAllWorkerDead

\* workerRoutine(): the worker is one too many
TooMany_Bug == m_idleWorkers + 1 >= m_maxIdle \/ m_iRunningWorkers > m_maxWorkers
TooMany == m_idleWorkers >= m_maxIdle \/ m_iRunningWorkers > m_maxWorkers

\* addJob(): ls_mutex_trylock(&m_addWorker) != 0
AddWorkerBusy_Bug == FALSE
AddWorkerBusy == m_addWorker # NULL

\* append(): the queue was shut down
QueueClosed_Bug == FALSE
QueueClosed == m_bShutdown

\* getSlot(): an empty slot if there is one, else a new entry of m_crew
SlotChoices_Bug == IF m_emptySlots # {} THEN m_emptySlots ELSE {CrewSize + 1}
SlotChoices == IF m_emptySlots # {} THEN m_emptySlots ELSE {CrewSize}

PopSlot_Bug(s) == UNCHANGED m_emptySlots
PopSlot(s) == m_emptySlots' = m_emptySlots \ {s}

ClearSlot_Bug(s) == UNCHANGED m_crew
ClearSlot(s) == m_crew' = [m_crew EXCEPT ![s] = NULL]

Uncount_Bug == UNCHANGED m_iRunningWorkers
Uncount == m_iRunningWorkers' = m_iRunningWorkers - 1

UnlockCrew_Bug == UNCHANGED m_crewLock
UnlockCrew == m_crewLock' = NULL

UnlockAddWorker == m_addWorker' = NULL

\* doGet(): the head of the queue, if there is one
TakeHead_Bug(w) ==
    /\ held' = [held EXCEPT ![w] = IF jobQueue = <<>> THEN NULL ELSE Head(jobQueue)]
    /\ UNCHANGED jobQueue
TakeHead(w) ==
    IF jobQueue = <<>>
    THEN UNCHANGED <<jobQueue, held>>
    ELSE /\ held' = [held EXCEPT ![w] = Head(jobQueue)]
         /\ jobQueue' = Tail(jobQueue)

\* workers in m_ready.wait()
m_iWaiting == Cardinality({w \in Workers : pc[w] = "wait"})

-----------------------------------------------------------------------------
(***************************************************************************)
(* The worker thread: workerRoutine(), then thr_cleanup() and workerDied().*)
(***************************************************************************)

\* while (pWorker->isWorking())
CheckWorking(w) ==
    /\ At(w, "loop")
    /\ Goto(w, IF m_isWorking[w] = "RUNNING" THEN "poll" ELSE "cleanup")
    /\ UNCHANGED <<m_stateFutex, slotVars, m_iRunningWorkers, m_idleWorkers,
                   limitVars, lockVars, resultVars, queueVars, m_isWorking,
                   held, clientVars>>

\* getJob(true), tryget(): the mutex is only tried, so a poll can come back
\* with nothing (EBUSY) although there is a job
PollJob(w) ==
    /\ At(w, "poll")
    /\ \/ /\ ~m_bShutdown
          /\ jobQueue # <<>>
          /\ TakeHead(w)
          /\ Goto(w, "process")
       \/ /\ UNCHANGED <<jobQueue, held>>
          /\ Goto(w, "toIdle")
    /\ UNCHANGED <<m_stateFutex, slotVars, m_iRunningWorkers, m_idleWorkers,
                   limitVars, lockVars, resultVars, m_bShutdown, m_isWorking,
                   clientVars>>

BecomeIdle(w) ==
    /\ At(w, "toIdle")
    /\ m_idleWorkers' = m_idleWorkers + 1
    /\ Goto(w, "get")
    /\ UNCHANGED <<m_stateFutex, slotVars, m_iRunningWorkers, limitVars,
                   lockVars, resultVars, queueVars, m_isWorking, held,
                   clientVars>>

\* getJob(), get() up to m_ready.wait()
TimedGet(w) ==
    /\ At(w, "get")
    /\ \/ /\ m_bShutdown
          /\ Goto(w, "unIdle")
          /\ UNCHANGED <<jobQueue, held>>
       \/ /\ ~m_bShutdown
          /\ jobQueue = <<>>
          /\ Goto(w, "wait")
          /\ UNCHANGED <<jobQueue, held>>
       \/ /\ ~m_bShutdown
          /\ jobQueue # <<>>
          /\ TakeHead(w)
          /\ Goto(w, "unIdle")
    /\ UNCHANGED <<m_stateFutex, slotVars, m_iRunningWorkers, m_idleWorkers,
                   limitVars, lockVars, resultVars, m_bShutdown, m_isWorking,
                   clientVars>>

\* get() after m_ready.wait(): signalled, broadcast to or timed out.  The
\* queue is read without another look at m_bShutdown.
WakeFromWait(w) ==
    /\ At(w, "wait")
    /\ TakeHead(w)
    /\ Goto(w, "unIdle")
    /\ UNCHANGED <<m_stateFutex, slotVars, m_iRunningWorkers, m_idleWorkers,
                   limitVars, lockVars, resultVars, m_bShutdown, m_isWorking,
                   clientVars>>

LeaveIdle(w) ==
    /\ At(w, "unIdle")
    /\ m_idleWorkers' = m_idleWorkers - 1
    /\ Goto(w, IF held[w] # NULL THEN "process" ELSE "shrink")
    /\ UNCHANGED <<m_stateFutex, slotVars, m_iRunningWorkers, limitVars,
                   lockVars, resultVars, queueVars, m_isWorking, held,
                   clientVars>>

\* m_pProcess(job); its result is not looked at
ProcessJob(w) ==
    /\ At(w, "process")
    /\ Goto(w, "report")
    /\ UNCHANGED <<m_stateFutex, slotVars, m_iRunningWorkers, m_idleWorkers,
                   limitVars, lockVars, resultVars, queueVars, m_isWorking,
                   held, clientVars>>

\* if (ls_atomic_value(&m_pFinishedQueue))
CheckFinishedQueue(w) ==
    /\ At(w, "report")
    /\ \/ /\ m_pFinishedQueue
          /\ Goto(w, "put")
          /\ UNCHANGED <<unreported, held>>
       \/ /\ ~m_pFinishedQueue
          /\ unreported' = unreported \cup {held[w]}
          /\ held' = [held EXCEPT ![w] = NULL]
          /\ Goto(w, "shrink")
    /\ UNCHANGED <<m_stateFutex, slotVars, m_iRunningWorkers, m_idleWorkers,
                   limitVars, lockVars, m_pFinishedQueue, finished, queueVars,
                   m_isWorking, clientVars>>

\* putFinishedItem() reads the pointer again: a stop in between makes it NULL
putFinishedItem(w) ==
    /\ At(w, "put")
    /\ \/ /\ m_pFinishedQueue
          /\ finished' = finished \cup {held[w]}
          /\ held' = [held EXCEPT ![w] = NULL]
          /\ Goto(w, "shrink")
       \/ /\ ~m_pFinishedQueue
          /\ Goto(w, "segv")
          /\ UNCHANGED <<finished, held>>
    /\ UNCHANGED <<m_stateFutex, slotVars, m_iRunningWorkers, m_idleWorkers,
                   limitVars, lockVars, m_pFinishedQueue, unreported,
                   queueVars, m_isWorking, clientVars>>

\* if (tidles >= tmaxIdle || size() > tmaxWorkers) break;
Shrink(w) ==
    /\ At(w, "shrink")
    /\ Goto(w, IF TooMany THEN "cleanup" ELSE "loop")
    /\ UNCHANGED <<m_stateFutex, slotVars, m_iRunningWorkers, m_idleWorkers,
                   limitVars, lockVars, resultVars, queueVars, m_isWorking,
                   held, clientVars>>

\* The CrewWorker object is deleted; requestStop() ran just before
DeleteWorker(w) ==
    /\ m_isWorking' = [m_isWorking EXCEPT ![w] = "TO_STOP"]
    /\ Goto(w, "none")

\* thr_cleanup(): m_slot is read without m_crewLock
ThrCleanup(w) ==
    /\ At(w, "cleanup")
    /\ IF m_slot[w] # -1
       THEN /\ Goto(w, "died")
            /\ UNCHANGED m_isWorking
       ELSE DeleteWorker(w)
    /\ UNCHANGED <<m_stateFutex, slotVars, m_iRunningWorkers, m_idleWorkers,
                   limitVars, lockVars, resultVars, queueVars, held,
                   clientVars>>

\* workerDied(): the decrement comes before m_crewLock is taken
UncountDied(w) ==
    /\ At(w, "died")
    /\ Uncount
    /\ Goto(w, "lockCrew")
    /\ UNCHANGED <<m_stateFutex, slotVars, m_idleWorkers, limitVars, lockVars,
                   resultVars, queueVars, m_isWorking, held, clientVars>>

\* workerDied() from ls_mutex_lock() on.  When stopAllWorkers(1) has taken the
\* slot away meanwhile the function returns without unlocking.
LockDied(w) ==
    /\ At(w, "lockCrew")
    /\ m_crewLock = NULL
    /\ m_crewLock' = w
    /\ IF m_slot[w] = -1
       THEN /\ DeleteWorker(w)
            /\ UNCHANGED <<m_crew, m_emptySlots>>
       ELSE /\ m_emptySlots' = m_emptySlots \cup {m_slot[w]}
            /\ ClearSlot(m_slot[w])
            /\ Goto(w, "unlockCrew")
            /\ UNCHANGED m_isWorking
    /\ UNCHANGED <<m_stateFutex, m_slot, m_iRunningWorkers, m_idleWorkers,
                   limitVars, m_addWorker, resultVars, queueVars, held,
                   clientVars>>

\* workerDied(): the last worker of a stopping crew reports STOPPED
UnlockDied(w) ==
    /\ At(w, "unlockCrew")
    /\ m_stateFutex' = IF LastDied THEN "STOPPED" ELSE m_stateFutex
    /\ UnlockCrew
    /\ DeleteWorker(w)
    /\ UNCHANGED <<slotVars, m_iRunningWorkers, m_idleWorkers, limitVars,
                   m_addWorker, resultVars, queueVars, held, clientVars>>

WorkerStep(w) ==
    \/ CheckWorking(w) \/ PollJob(w) \/ BecomeIdle(w) \/ TimedGet(w)
    \/ WakeFromWait(w) \/ LeaveIdle(w) \/ ProcessJob(w)
    \/ CheckFinishedQueue(w) \/ putFinishedItem(w) \/ Shrink(w)
    \/ ThrCleanup(w) \/ UncountDied(w) \/ LockDied(w) \/ UnlockDied(w)

-----------------------------------------------------------------------------
(***************************************************************************)
(* addWorker(), called with m_addWorker held by startProcessing() and by   *)
(* addJob().                                                               *)
(***************************************************************************)

\* getSlot(), one critical section, and new CrewWorker(this, slot).  The
\* number of Workers bounds how many objects can exist at a time.
GetSlot(c) ==
    /\ At(c, "getSlot")
    /\ m_crewLock = NULL
    /\ \/ /\ m_iRunningWorkers < m_maxWorkers
          /\ \E w \in Workers, s \in SlotChoices :
                /\ pc[w] = "none"
                /\ m_crew' = [i \in DOMAIN m_crew \cup {s} |->
                                 IF i = s THEN NULL ELSE m_crew[i]]
                /\ PopSlot(s)
                /\ m_slot' = [m_slot EXCEPT ![w] = s]
                /\ m_isWorking' = [m_isWorking EXCEPT ![w] = "TO_START"]
                /\ newWorker' = [newWorker EXCEPT ![c] = w]
                /\ newSlot' = [newSlot EXCEPT ![c] = s]
                /\ pc' = [pc EXCEPT ![c] = "publish", ![w] = "built"]
       \/ /\ m_iRunningWorkers >= m_maxWorkers
          /\ Goto(c, "added")
          /\ UNCHANGED <<slotVars, m_isWorking, newWorker, newSlot>>
    /\ UNCHANGED <<m_stateFutex, m_iRunningWorkers, m_idleWorkers, limitVars,
                   lockVars, resultVars, queueVars, held, from, iter, jobArg,
                   jobRet, freed>>

\* m_crew[slot] = worker, without m_crewLock
PublishWorker(c) ==
    /\ At(c, "publish")
    /\ m_crew' = [m_crew EXCEPT ![newSlot[c]] = newWorker[c]]
    /\ Goto(c, "count")
    /\ UNCHANGED <<m_stateFutex, m_emptySlots, m_slot, m_iRunningWorkers,
                   m_idleWorkers, limitVars, lockVars, resultVars, queueVars,
                   m_isWorking, held, clientVars>>

CountWorker(c) ==
    /\ At(c, "count")
    /\ m_iRunningWorkers' = m_iRunningWorkers + 1
    /\ Goto(c, "launch")
    /\ UNCHANGED <<m_stateFutex, slotVars, m_idleWorkers, limitVars, lockVars,
                   resultVars, queueVars, m_isWorking, held, clientVars>>

\* worker->start(): m_isWorking becomes RUNNING before pthread_create()
LaunchWorker(c) ==
    /\ At(c, "launch")
    /\ m_isWorking' = [m_isWorking EXCEPT ![newWorker[c]] = "RUNNING"]
    /\ \/ pc' = [pc EXCEPT ![c] = "added", ![newWorker[c]] = "loop"]
       \/ /\ CreateMayFail
          /\ Goto(c, "undo")
    /\ UNCHANGED <<m_stateFutex, slotVars, m_iRunningWorkers, m_idleWorkers,
                   limitVars, lockVars, resultVars, queueVars, held,
                   clientVars>>

\* start() failed: m_iRunningWorkers, m_crew[slot] and the object are undone
UndoWorker(c) ==
    /\ At(c, "undo")
    /\ Uncount
    /\ ClearSlot(newSlot[c])
    /\ pc' = [pc EXCEPT ![c] = "releaseSlot", ![newWorker[c]] = "none"]
    /\ UNCHANGED <<m_stateFutex, m_emptySlots, m_slot, m_idleWorkers,
                   limitVars, lockVars, resultVars, queueVars, m_isWorking,
                   held, clientVars>>
\* releaseSlot(slot)
ReleaseSlot(c) ==
    /\ At(c, "releaseSlot")
    /\ m_crewLock = NULL
    /\ m_emptySlots' = m_emptySlots \cup {newSlot[c]}
    /\ Goto(c, "added")
    /\ UNCHANGED <<m_stateFutex, m_crew, m_slot, m_iRunningWorkers,
                   m_idleWorkers, limitVars, lockVars, resultVars, queueVars,
                   m_isWorking, held, clientVars>>

\* Back in the loop of the caller, which ends or goes round again.
\* startProcessing(): for (i = 0; i < m_minIdle; i++) addWorker();
\* addJob(): if (i++ > m_maxIdle) break;
WorkerAdded(c) ==
    /\ At(c, "added")
    /\ iter' = [iter EXCEPT ![c] = @ + 1]
    /\ newWorker' = [newWorker EXCEPT ![c] = NULL]
    /\ LET leave == IF from[c] = "start" THEN iter[c] + 1 >= m_minIdle
                                         ELSE iter[c] > m_maxIdle
       IN  IF leave
           THEN /\ UnlockAddWorker
                /\ from' = [from EXCEPT ![c] = "none"]
                /\ Goto(c, "idle")
           ELSE /\ Goto(c, IF from[c] = "start" THEN "getSlot" ELSE "grow")
                /\ UNCHANGED <<m_addWorker, from>>
    /\ UNCHANGED <<m_stateFutex, slotVars, m_iRunningWorkers, m_idleWorkers,
                   limitVars, m_crewLock, resultVars, queueVars, m_isWorking,
                   held, newSlot, jobArg, jobRet, freed>>

addWorker(c) ==
    \/ GetSlot(c) \/ PublishWorker(c) \/ CountWorker(c) \/ LaunchWorker(c)
    \/ UndoWorker(c) \/ ReleaseSlot(c) \/ WorkerAdded(c)

-----------------------------------------------------------------------------
(***************************************************************************)
(* addJob(), by any client at any time before the crew is deleted.         *)
(***************************************************************************)

EnterAddJob(c, j) ==
    /\ At(c, "idle")
    /\ from[Owner] # "destructor"
    /\ jobRet[j] = "none"
    /\ \A d \in Clients : jobArg[d] # j
    /\ IF m_stateFutex \in {"STOPPING", "STOPPED"}
       THEN /\ jobRet' = [jobRet EXCEPT ![j] = "LS_FAIL"]
            /\ UNCHANGED <<pc, from, jobArg>>
       ELSE /\ Goto(c, "append")
            /\ from' = [from EXCEPT ![c] = "addJob"]
            /\ jobArg' = [jobArg EXCEPT ![c] = j]
            /\ UNCHANGED jobRet
    /\ UNCHANGED <<m_stateFutex, slotVars, m_iRunningWorkers, m_idleWorkers,
                   limitVars, lockVars, resultVars, queueVars, m_isWorking,
                   held, newWorker, newSlot, iter, freed>>

\* m_pJobQueue->append(&item, 1); addJob returns what it returned
AppendJob(c) ==
    /\ At(c, "append")
    /\ IF QueueClosed
       THEN /\ jobRet' = [jobRet EXCEPT ![jobArg[c]] = "EACCES"]
            /\ UNCHANGED jobQueue
       ELSE /\ jobRet' = [jobRet EXCEPT ![jobArg[c]] = "OK"]
            /\ jobQueue' = Append(jobQueue, jobArg[c])
    /\ jobArg' = [jobArg EXCEPT ![c] = NULL]
    /\ Goto(c, "needGrow")
    /\ UNCHANGED <<m_stateFutex, slotVars, m_iRunningWorkers, m_idleWorkers,
                   limitVars, lockVars, resultVars, m_bShutdown, m_isWorking,
                   held, from, newWorker, newSlot, iter, freed>>

\* enough idle workers, or another thread is adding workers: return
NeedGrow(c) ==
    /\ At(c, "needGrow")
    /\ IF m_idleWorkers >= m_minIdle \/ AddWorkerBusy
       THEN /\ Goto(c, "idle")
            /\ from' = [from EXCEPT ![c] = "none"]
            /\ UNCHANGED <<m_addWorker, iter>>
       ELSE /\ m_addWorker' = c
            /\ iter' = [iter EXCEPT ![c] = 0]
            /\ Goto(c, "grow")
            /\ UNCHANGED from
    /\ UNCHANGED <<m_stateFutex, slotVars, m_iRunningWorkers, m_idleWorkers,
                   limitVars, m_crewLock, resultVars, queueVars, m_isWorking,
                   held, newWorker, newSlot, jobArg, jobRet, freed>>

\* the head of the growth loop of addJob()
Grow(c) ==
    /\ At(c, "grow")
    /\ IF /\ m_stateFutex = "RUNNING"
          /\ m_iRunningWorkers < m_maxWorkers
          /\ m_idleWorkers < m_minIdle
       THEN /\ Goto(c, "getSlot")
            /\ UNCHANGED <<m_addWorker, from>>
       ELSE /\ UnlockAddWorker
            /\ from' = [from EXCEPT ![c] = "none"]
            /\ Goto(c, "idle")
    /\ UNCHANGED <<m_stateFutex, slotVars, m_iRunningWorkers, m_idleWorkers,
                   limitVars, m_crewLock, resultVars, queueVars, m_isWorking,
                   held, newWorker, newSlot, iter, jobArg, jobRet, freed>>

addJob(c) == AppendJob(c) \/ NeedGrow(c) \/ Grow(c)

-----------------------------------------------------------------------------
(***************************************************************************)
(* startProcessing() and startJobProcessor(), by the owner.                *)
(***************************************************************************)

\* the compare-and-swap of startProcessing(); a failure changes nothing
StartCas ==
    IF m_stateFutex = "TO_START"
    THEN /\ m_stateFutex' = "RUNNING"
         /\ from' = [from EXCEPT ![Owner] = "start"]
         /\ Goto(Owner, "queueStart")
    ELSE UNCHANGED <<m_stateFutex, from, pc>>

startProcessing ==
    /\ At(Owner, "idle")
    /\ StartCas
    /\ UNCHANGED <<slotVars, m_iRunningWorkers, m_idleWorkers, limitVars,
                   lockVars, resultVars, queueVars, m_isWorking, held,
                   newWorker, newSlot, iter, jobArg, jobRet, freed>>

\* sets the finished queue and m_maxWorkers before startProcessing() looks at
\* the state
startJobProcessor(n) ==
    /\ At(Owner, "idle")
    /\ m_pFinishedQueue' = TRUE
    /\ m_maxWorkers' = n
    /\ StartCas
    /\ UNCHANGED <<slotVars, m_iRunningWorkers, m_idleWorkers, m_minIdle,
                   m_maxIdle, lockVars, finished, unreported, queueVars,
                   m_isWorking, held, newWorker, newSlot, iter, jobArg,
                   jobRet, freed>>

QueueStart ==
    /\ At(Owner, "queueStart")
    /\ m_bShutdown' = FALSE
    /\ Goto(Owner, "startLock")
    /\ UNCHANGED <<m_stateFutex, slotVars, m_iRunningWorkers, m_idleWorkers,
                   limitVars, lockVars, resultVars, jobQueue, m_isWorking,
                   held, clientVars>>

StartLock ==
    /\ At(Owner, "startLock")
    /\ m_addWorker = NULL
    /\ IF m_minIdle > 0
       THEN /\ m_addWorker' = Owner
            /\ iter' = [iter EXCEPT ![Owner] = 0]
            /\ Goto(Owner, "getSlot")
            /\ UNCHANGED from
       ELSE /\ from' = [from EXCEPT ![Owner] = "none"]
            /\ Goto(Owner, "idle")
            /\ UNCHANGED <<m_addWorker, iter>>
    /\ UNCHANGED <<m_stateFutex, slotVars, m_iRunningWorkers, m_idleWorkers,
                   limitVars, m_crewLock, resultVars, queueVars, m_isWorking,
                   held, newWorker, newSlot, jobArg, jobRet, freed>>

\* adjustIdle(min, max) and maxWorkers(num); a refused call changes nothing
adjustIdle(min, max) ==
    /\ At(Owner, "idle")
    /\ max <= m_maxWorkers /\ min <= max
    /\ m_minIdle' = min
    /\ m_maxIdle' = max
    /\ UNCHANGED <<m_stateFutex, slotVars, m_iRunningWorkers, m_idleWorkers,
                   m_maxWorkers, lockVars, resultVars, queueVars, m_isWorking,
                   held, pc, clientVars>>

maxWorkers(num) ==
    /\ At(Owner, "idle")
    /\ num > 0 => num >= m_minIdle
    /\ m_maxWorkers' = num
    /\ UNCHANGED <<m_stateFutex, slotVars, m_iRunningWorkers, m_idleWorkers,
                   m_minIdle, m_maxIdle, lockVars, resultVars, queueVars,
                   m_isWorking, held, pc, clientVars>>
-----------------------------------------------------------------------------
(***************************************************************************)
(* stopProcessing(discard) and ~WorkCrew(), by the owner.  Only the        *)
(* destructor discards.                                                    *)
(***************************************************************************)

discard == from[Owner] = "destructor"

stopProcessing ==
    /\ At(Owner, "idle")
    /\ m_stateFutex = "RUNNING"
    /\ m_stateFutex' = "STOPPING"
    /\ from' = [from EXCEPT ![Owner] = "stop"]
    /\ Goto(Owner, "stopAll")
    /\ UNCHANGED <<slotVars, m_iRunningWorkers, m_idleWorkers, limitVars,
                   lockVars, resultVars, queueVars, m_isWorking, held,
                   newWorker, newSlot, iter, jobArg, jobRet, freed>>

InCrew == {m_crew[s] : s \in DOMAIN m_crew} \ {NULL}

\* stopAllWorkers(): requestStop() only moves a worker that is RUNNING
stopAllWorkers(drop) ==
    /\ m_crewLock = NULL
    /\ m_isWorking' = [w \in Workers |->
            IF w \in InCrew /\ m_isWorking[w] = "RUNNING"
            THEN "TO_STOP" ELSE m_isWorking[w]]
    /\ m_slot' = [w \in Workers |->
            IF drop /\ w \in InCrew THEN -1 ELSE m_slot[w]]
    /\ m_minIdle' = 0
    /\ m_maxIdle' = 0
    /\ UNCHANGED <<m_stateFutex, m_crew, m_emptySlots, m_iRunningWorkers,
                   m_idleWorkers, m_maxWorkers, lockVars, resultVars,
                   queueVars, held, clientVars>>

StopAll ==
    /\ At(Owner, "stopAll")
    /\ stopAllWorkers(discard)
    /\ Goto(Owner, "shutdown")

\* PThreadWorkQueue::shutdown(): the flag, then waitTillNoWaiting()
ShutdownQueue ==
    /\ At(Owner, "shutdown")
    /\ m_bShutdown' = TRUE
    /\ Goto(Owner, "drain")
    /\ UNCHANGED <<m_stateFutex, slotVars, m_iRunningWorkers, m_idleWorkers,
                   limitVars, lockVars, resultVars, jobQueue, m_isWorking,
                   held, clientVars>>

waitTillNoWaiting ==
    /\ At(Owner, "drain")
    /\ m_iWaiting = 0
    /\ Goto(Owner, "waitDead")
    /\ UNCHANGED <<m_stateFutex, slotVars, m_iRunningWorkers, m_idleWorkers,
                   limitVars, lockVars, resultVars, queueVars, m_isWorking,
                   held, clientVars>>

\* while (!discard && !isAllWorkerDead()) ls_futex_wait_priv(...)
WaitAllDead ==
    /\ \/ /\ At(Owner, "waitDead")
          /\ Goto(Owner, IF discard \/ isAllWorkerDead THEN "reset" ELSE "futex")
       \/ /\ At(Owner, "futex")      \* woken up, or the half second is over
          /\ Goto(Owner, "woken")
    /\ UNCHANGED <<m_stateFutex, slotVars, m_iRunningWorkers, m_idleWorkers,
                   limitVars, lockVars, resultVars, queueVars, m_isWorking,
                   held, clientVars>>

\* the three ways out of one round of the loop
LookAfterWait ==
    /\ At(Owner, "woken")
    /\ \/ /\ m_stateFutex = "STOPPED"
          /\ Goto(Owner, "reset")
          /\ UNCHANGED m_stateFutex
       \/ /\ m_stateFutex # "STOPPED" /\ ~isAllWorkerDead
          /\ Goto(Owner, "stopAgain")
          /\ UNCHANGED m_stateFutex
       \/ /\ m_stateFutex # "STOPPED" /\ isAllWorkerDead
          /\ m_stateFutex' = "STOPPED"
          /\ Goto(Owner, "reset")
    /\ UNCHANGED <<slotVars, m_iRunningWorkers, m_idleWorkers, limitVars,
                   lockVars, resultVars, queueVars, m_isWorking, held,
                   clientVars>>

StopAgain ==
    /\ At(Owner, "stopAgain")
    /\ stopAllWorkers(FALSE)
    /\ Goto(Owner, "waitDead")

\* ls_atomic_setptr(&m_pFinishedQueue, NULL), and return
ResetFinishedQueue ==
    /\ At(Owner, "reset")
    /\ m_pFinishedQueue' = FALSE
    /\ IF discard
       THEN /\ Goto(Owner, "deleteQueue")
            /\ UNCHANGED from
       ELSE /\ Goto(Owner, "idle")
            /\ from' = [from EXCEPT ![Owner] = "none"]
    /\ UNCHANGED <<m_stateFutex, slotVars, m_iRunningWorkers, m_idleWorkers,
                   limitVars, lockVars, finished, unreported, queueVars,
                   m_isWorking, held, newWorker, newSlot, iter, jobArg,
                   jobRet, freed>>

\* ~WorkCrew(): the owner has made sure that no other client is in the crew
Destructor ==
    /\ At(Owner, "idle")
    /\ \A c \in Clients \ {Owner} : At(c, "idle")
    /\ m_stateFutex = "RUNNING" => DeleteRunning
    /\ from' = [from EXCEPT ![Owner] = "destructor"]
    /\ IF m_stateFutex = "RUNNING"
       THEN /\ m_stateFutex' = "STOPPING"
            /\ Goto(Owner, "stopAll")
       ELSE /\ Goto(Owner, "deleteQueue")
            /\ UNCHANGED m_stateFutex
    /\ UNCHANGED <<slotVars, m_iRunningWorkers, m_idleWorkers, limitVars,
                   lockVars, resultVars, queueVars, m_isWorking, held,
                   newWorker, newSlot, iter, jobArg, jobRet, freed>>

\* lock, delete m_pJobQueue, unlock
DeleteQueue ==
    /\ At(Owner, "deleteQueue")
    /\ m_crewLock = NULL
    /\ Goto(Owner, "free")
    /\ UNCHANGED <<m_stateFutex, slotVars, m_iRunningWorkers, m_idleWorkers,
                   limitVars, lockVars, resultVars, queueVars, m_isWorking,
                   held, clientVars>>

\* at most a few yields and a millisecond later the memory is given back
FreeCrew ==
    /\ At(Owner, "free")
    /\ freed' = TRUE
    /\ Goto(Owner, "deleted")
    /\ UNCHANGED <<m_stateFutex, slotVars, m_iRunningWorkers, m_idleWorkers,
                   limitVars, lockVars, resultVars, queueVars, m_isWorking,
                   held, from, newWorker, newSlot, iter, jobArg, jobRet>>

OwnerStep ==
    \/ QueueStart \/ StartLock \/ StopAll \/ ShutdownQueue
    \/ waitTillNoWaiting \/ WaitAllDead \/ LookAfterWait \/ StopAgain
    \/ ResetFinishedQueue \/ DeleteQueue \/ FreeCrew

ClientStep(c) == addWorker(c) \/ addJob(c)

\* what the owner decides to call
OwnerCall ==
    \/ startProcessing
    \/ \E n \in MaxChoices : startJobProcessor(n) \/ maxWorkers(n)
    \/ \E p \in IdleChoices : adjustIdle(p[1], p[2])
    \/ stopProcessing
    \/ Destructor

\* nothing is left to do once the crew is deleted and its threads are gone, or
\* have crashed
Ended ==
    /\ freed
    /\ \A w \in Workers : pc[w] \in {"none", "segv"}
    /\ UNCHANGED vars

Next ==
    \/ \E w \in Workers : WorkerStep(w)
    \/ \E c \in Clients : ClientStep(c)
    \/ \E c \in Clients, j \in Jobs : EnterAddJob(c, j)
    \/ OwnerStep
    \/ OwnerCall
    \/ Ended

Spec == Init /\ [][Next]_vars

\* Threads that are runnable are scheduled: every started worker, and every
\* client inside one of the crew's functions, keeps taking steps.  Nobody is
\* obliged to call anything.
Fairness ==
    /\ \A w \in Workers : WF_vars(WorkerStep(w))
    /\ \A c \in Clients : WF_vars(ClientStep(c))
    /\ WF_vars(OwnerStep)

FairSpec == Spec /\ Fairness
-----------------------------------------------------------------------------
(***************************************************************************)
(* Properties.                                                             *)
(***************************************************************************)

Queued == {jobQueue[i] : i \in DOMAIN jobQueue}
HeldJobs == {held[w] : w \in Workers} \ {NULL}

\* No job is lost, doubled or taken by two workers: the jobs for which
\* addJob() returned 0 are exactly those that are in the job queue (once), in
\* the hands of one worker, in the finished queue, or processed with no
\* finished queue to report to, and no job is in two of these places.
JobsInOnePlace ==
    /\ \A i, k \in DOMAIN jobQueue : jobQueue[i] = jobQueue[k] => i = k
    /\ \A v, w \in Workers : held[v] = held[w] /\ held[v] # NULL => v = w
    /\ Queued \cap HeldJobs = {}
    /\ (Queued \cup HeldJobs) \cap (finished \cup unreported) = {}
    /\ finished \cap unreported = {}
    /\ Queued \cup HeldJobs \cup finished \cup unreported
          = {j \in Jobs : jobRet[j] = "OK"}

\* a worker that has its slot and did not give it back yet
HasSlot(w) == pc[w] \notin {"none", "unlockCrew"} /\ m_slot[w] # -1

\* The slot table is right although addWorker() writes m_crew without
\* m_crewLock and workerDied() lowers size() before it takes the lock: a slot
\* belongs to at most one worker, an empty slot to none and its entry is NULL
\* (the assertions in getSlot() and workerDied()), and a worker that was
\* published is found in its slot.
SlotOwnership ==
    /\ \A w \in Workers : HasSlot(w) =>
          /\ m_slot[w] \in DOMAIN m_crew \ m_emptySlots
          /\ m_crew[m_slot[w]] \in {w, NULL}
          /\ pc[w] # "built" => m_crew[m_slot[w]] = w
    /\ \A v, w \in Workers :
          HasSlot(v) /\ HasSlot(w) /\ m_slot[v] = m_slot[w] => v = w
    /\ \A s \in m_emptySlots : m_crew[s] = NULL

Counted(w) == pc[w] \notin {"none", "built", "lockCrew", "unlockCrew"}
Starting(c) == pc[c] \in {"launch", "undo"}

\* size() counts the workers that were started and did not reach workerDied(),
\* plus the one that addWorker() is about to start, until the destructor
\* discards workers; m_idleWorkers counts the workers in getJob(), so that
\* assert(idle >= 0) in workerRoutine() holds.
CountersExact ==
    /\ from[Owner] # "destructor" =>
          m_iRunningWorkers = Cardinality({w \in Workers : Counted(w)})
                              + Cardinality({c \in Clients : Starting(c)})
    /\ m_idleWorkers
          = Cardinality({w \in Workers : pc[w] \in {"get", "wait", "unIdle"}})

\* size() never passes maxWorkers(), however starting, growing and dying
\* workers interleave (for a crew whose limits are not lowered meanwhile).
SizeBounded == m_iRunningWorkers <= m_maxWorkers

\* When stopProcessing() has returned, no worker is in workerRoutine() any more:
\* none holds a job, none will touch the job queue or the finished queue; and
\* putFinishedItem() never passes a NULL queue to ls_lfqueue_put().
StoppedIsQuiet ==
    /\ At(Owner, "idle") /\ m_stateFutex \in {"STOPPING", "STOPPED"}
          => \A w \in Workers : pc[w] \in {"none", "lockCrew", "unlockCrew"}
    /\ \A w \in Workers : pc[w] # "segv"

InRoutine(w) == pc[w] \in {"loop", "poll", "toIdle", "get", "wait", "unIdle",
                           "process", "report", "put", "shrink"}

\* Workers that leave because enough others are idle never all leave: a running
\* crew, once startProcessing() is done with it, has a worker in its loop.
SomeoneWorks ==
    m_stateFutex = "RUNNING" /\ from[Owner] # "start"
        => \E w \in Workers : InRoutine(w)

\* The assertion in stopProcessing(): when the futex says STOPPED, all workers
\* are dead.
StoppedAllDead == m_stateFutex = "STOPPED" => isAllWorkerDead

\* A job in the queue of a running crew is processed, unless the crew stops.
JobsGetProcessed ==
    \A j \in Jobs : (j \in Queued /\ m_stateFutex = "RUNNING")
        ~> (j \in finished \cup unreported \/ m_stateFutex # "RUNNING")

\* stopProcessing() returns: its rounds of waiting come to an end.
StopReturns == from[Owner] = "stop" ~> from[Owner] = "none"

\* ~WorkCrew() returns: it gets m_crewLock and gives the memory back.
DestructorReturns == from[Owner] = "destructor" ~> freed

\* WorkCrew implements JobPool: every accepted job is taken once and processed
\* once, and stopProcessing() closes the pool for good.
Pool == INSTANCE JobPool WITH
            pending <- Queued,
            processing <- HeldJobs,
            done <- finished \cup unreported,
            open <- ~m_bShutdown
ImplementsJobPool == Pool!PoolSpec
-----------------------------------------------------------------------------
(***************************************************************************)
(* The inductive invariant behind the theorems of WorkCrewProofs.          *)
(***************************************************************************)
AddStages == {"grow", "getSlot", "publish", "count", "launch", "undo",
              "releaseSlot", "added"}
StopStages == {"stopAll", "shutdown", "drain", "waitDead", "futex", "woken",
               "stopAgain", "reset", "deleteQueue", "free", "deleted"}

\* where a client can be, given the public function it is in
ClientPhases ==
    /\ \A c \in Clients :
          \/ from[c] = "none" /\ pc[c] = "idle"
          \/ from[c] = "start" /\ c = Owner
             /\ pc[c] \in AddStages \cup {"queueStart", "startLock"}
          \/ from[c] = "addJob" /\ pc[c] \in AddStages \cup {"append", "needGrow"}
          \/ from[c] \in {"stop", "destructor"} /\ c = Owner /\ pc[c] \in StopStages
    /\ from[Owner] = "destructor" => \A c \in Clients \ {Owner} : pc[c] = "idle"

\* one client at a time is adding workers
OneAdds == \A c \in Clients : pc[c] \in AddStages => m_addWorker = c

\* what addWorker() has in its hands between its steps
Building ==
    \A c \in Clients :
        /\ pc[c] \in {"publish", "count", "launch", "undo"} =>
              /\ newWorker[c] \in Workers
              /\ pc[newWorker[c]] = "built"
              /\ m_slot[newWorker[c]] = newSlot[c]
              /\ pc[c] # "publish" => m_crew[newSlot[c]] = newWorker[c]
        /\ pc[c] = "releaseSlot" =>
              /\ newSlot[c] \in DOMAIN m_crew \ m_emptySlots
              /\ m_crew[newSlot[c]] = NULL
              /\ \A w \in Workers : HasSlot(w) => m_slot[w] # newSlot[c]

\* a worker has a job exactly between getJob() and putFinishedItem()
HeldWhere ==
    \A w \in Workers :
        /\ pc[w] \in {"process", "report", "put", "segv"} => held[w] # NULL
        /\ held[w] # NULL => pc[w] \in {"unIdle", "process", "report", "put", "segv"}

\* addJob() has its argument until append(), and no two calls have the same
ArgWhere ==
    /\ \A c \in Clients : jobArg[c] # NULL <=> pc[c] = "append"
    /\ \A c, d \in Clients : jobArg[c] # NULL /\ jobArg[c] = jobArg[d] => c = d
    /\ \A c \in Clients : jobArg[c] # NULL => jobRet[jobArg[c]] = "none"

\* The crew's bookkeeping as a whole, between any two steps of its threads: one
\* client adds workers at a time, addWorker() still owns what it is building,
\* the slot table is right, and every job is where its thread's code expects it.
CrewInv ==
    /\ TypeOK
    /\ ClientPhases
    /\ OneAdds
    /\ Building
    /\ SlotOwnership
    /\ HeldWhere
    /\ ArgWhere
=============================================================================
