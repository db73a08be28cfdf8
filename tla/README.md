# A TLA+ development for OpenLiteSpeed

This directory holds TLA+ models of parts of the web server in `src/`, TLC
configurations that model-check them on small instances, and TLAPS proofs of
the results that hold for every instance. `PROJECT.json` lists the components,
the runs, the source lines every definition models, the hazards and the
theorems.

## The system and its parts

OpenLiteSpeed is a web server of one watchdog process and a few worker
processes. A worker process runs one event loop: a multiplexer (epoll) calls
the handlers of sockets, timers and queued callbacks, one at a time. Around the
loop there are threads (thread pools for modules, for file I/O and for TLS
handshakes) and memory shared between processes. Most state is therefore
changed by one thread, in handlers that call each other back; where it is not,
the code relies on atomic operations and on small locks.

| Part | State | Operations | Interacts with | What is hard |
|---|---|---|---|---|
| `thread/` WorkCrew, PThreadWorkQueue | state futex, table of worker slots, counters, job queue, finished queue | addJob, startProcessing, stopProcessing, adjustIdle, maxWorkers, the worker routine, the destructor | module handlers, the offloader, TLS handshakes | workers starting, dying and being stopped at once; unlocked reads; a stop that waits for threads |
| `thread/` Offloader | tasks with a state and a reference count | addJob, perform, onNotified | WorkCrew, EventNotifier | a task cancelled while a thread has it |
| `sslpp/`, `http/ntwkiolink` TLS accept | status, wanted events, multiplexer mask, handshake jobs | setLink, SSLAgain, acceptSSL, timers, close, the handshake worker | event loop, WorkCrew, BoringSSL | two threads at one SSL object; links recycled under a job; wake-ups |
| `extensions/` ExtWorker, ExtConn, `util/` ConnPool | free, used and bad connections, waiting requests, effective maximum | processRequest, recycleConn, connectionError, timers, restart | HttpExtConnector, application servers | re-entrant error handling, retries, a maximum that shrinks and grows |
| `http/` HttpSession | request state, handler, flags | read, process, write, suspend, resume, recycle | nearly everything | a session recycled while something still refers to it |
| `h2/` | streams, windows, priority queues | frames in and out, GOAWAY | sessions as streams | flow control arithmetic, frames for closed streams |
| `edio/` EvtcbQue, notifiers | list of queued callbacks | schedule, run, remove | sessions, modules | callbacks that remove callbacks |
| `shm/`, `lsr/` | locks, pools, hashes in shared memory; lock-free queues | lock, allocate, insert, expire | all worker processes | a process that dies inside a critical section |
| `modules/cache` | cache entries in files and in a hash | lookup, build, publish, purge | sessions, other processes | stale and half-built entries |
| `main/` | child processes, configuration | start, graceful restart, watchdog | all | signals, restarts |
| `modules/wpprotect`, `http/clientinfo`, throttling | counters per client | count, expire, block | listeners | limits and expiry |
| `adns`, `quic`, `log4cxx`, `dist`, `docs` | drivers of libraries, I/O, scripts, text | | | |

What makes each correct: a pool hands every accepted job to one thread once and
stops cleanly; a TLS connection is used by one thread, and its handshake ends;
a request to an application server is answered, retried a bounded number of
times or failed, and its connection is in exactly one list; a stream's window
is never overdrawn; a lock in shared memory is recovered; a cache entry is
served only when it is complete.

## Plan

The thread pool comes first: it is where the server is truly concurrent, other
components stand on it, and none of its interleavings is within reach of a unit
test. Then the parts where one thread meets failure, re-entrance or a peer that
answers late, and the structures shared by processes.

1. `JobPool`, `WorkCrew` with its proofs, and `SslAsyncHandshake` on top of
   `JobPool` (done).
2. `ExtWorker`: ExtWorker, ExtConn, ConnPool and HttpExtConnector's retry as one
   module with an explicit stack of pending calls (done).
3. `ShmHash`: a table in shared memory, its lock and its resumable rehash, with
   processes that die (done).
4. `H2Flow`: windows, queues and write events of an HTTP/2 connection (done).
5. `Fifo` and `LfQueue`: the lock-free queue between threads (done).
6. Theorems: the safety invariants of `WorkCrew`, `SslAsyncHandshake`, `ShmHash`,
   `H2Flow`, `LfQueue` and `ExtWorker`, and that `WorkCrew` implements `JobPool` and
   `LfQueue` implements `Fifo` (done).
7. `Offloader` on top of `JobPool` (reference counts and cancellation), the
   pool's free lists under `ShmHash`, `EvtcbQue`, the entry states of the cache
   store, the process watchdog.

## Modules

* `JobPool` is what a pool of threads promises: a job that was accepted is
  taken once and completed once, and a closed pool accepts nothing.
* `WorkCrew` models `thread/workcrew.cpp`, `crewworker.cpp`, `worker.h` and
  `pthreadworkqueue.h`. Variables have the names of the members. A thread's
  place in the code is in `pc`; a step is one atomic operation or one critical
  section. `Clients` are threads that call `addJob`, one of which, the `Owner`,
  also starts, tunes, stops and deletes the crew. `Workers` are identities of
  `CrewWorker` objects: an object that was deleted can come back as a new one.
  The queue's condition variable has no signals in the model because every wait
  on it is timed, so a waiter may wake at any time. The finished queue is a set:
  what matters is which jobs are in it. The limits that one pass of the worker
  routine reads one after the other are read in one step; the decision depends
  on one value of `m_idleWorkers`, and a step placed at that read has the same
  outcome. When a thread cannot be started, `UndoWorker` takes lines 241-243 of
  `addWorker()` in one step (nobody looks at that slot before it is given back)
  and leaves out the assertion of `~Worker()` that the thread has ended.
* `MCWorkCrew` and the `WorkCrew*.cfg` files instantiate it.
* `WorkCrewProofs` and `WorkCrewRefinement` hold its theorems; `SslAsyncProofs`,
  `ExtWorkerProofs`, `ShmHashProofs`, `H2FlowProofs` and `LfQueueProofs` those of the
  modules below.
  `Iteration` has lemmas they share: that a recursive function over `0 .. n`
  exists, what induction over the natural numbers gives, facts about remainders and about
  lists in which nothing is twice.
* `SslAsyncHandshake` models the accepting side of `NtwkIOLink` and
  `SslConnection` and the handshake jobs of `sslasynchandshake.cpp`, with
  `JobPool` in place of the crew. `SSL_do_handshake` (external) is entered and
  left in two steps; it consumes the flights the peer has sent. The peer and the
  level-triggered epoll are external too. `conn` counts the connections a
  recycled link has carried, `jobConn` remembers which of them a job was queued
  for. Whether SSL output is still in the link's buffer (`wpending()`), which asks
  for POLLOUT and is flushed by it, is chosen freely. `MCSslAsyncHandshake` and the `Ssl*.cfg` files instantiate it.
* `ExtWorker` models `extensions/extworker.cpp`, `extconn.cpp`,
  `util/connpool.cpp`, `proxy/proxyconn.cpp` and the retry of
  `http/httpextconnector.cpp`: a worker for a remote application, without a
  command of its own and without a load balancer. The event loop is one thread,
  but handlers re-enter the worker (a failed `assignReq` reaches `assignReq`
  again through `connError`, `connectionError`, `tryRecover` and
  `processRequest`), so the call stack is a variable. A frame is a function about
  to run or the rest of one that waits for its callee; `ret` is what the callee
  returned; a step runs the frame on top; an event is accepted when the stack is
  empty. Errno values are the classes the code tells apart, times are recent or
  not, and the per-connection timer may find its time passed at any moment. A
  request is written at once or in two parts; a response is a header and a body,
  a response without a body is one whose header ends it; `abort()` for bytes behind
  such a header (`proxyconn.cpp:682`) is left out, and a body that cannot be
  processed is a body that is reset.
  `MCExtWorker` and `ExtWorker*.cfg` instantiate it.
* `ShmHash` models `shm/lsshmhash.cpp` and the process-id spin lock of
  `lsr/ls_lock.c`: `find2`, `insert2`, `eraseIterator`, `rehash` and the locking
  around them. A step is one store to shared memory; a process may die between
  any two. The sequence of capacities stands for the table of primes with the
  growth factor, `SizeBits` for the 32 bits of `x_iSize`. The allocator is
  atomic, the table has no bitmap (as small tables do) and no LRU list, the
  number of spins before a look at the owner is left out. A process that takes the
  lock over works on a table that may be half moved, as in the code; `split` is
  history and says that it has added or removed an entry there. Left out: the
  `abort()`s of `rehash()` for a corrupted iterator and for too long a walk
  (lines 830-835, 851-856), and the repairs of an element that links to itself in
  `next()` (1591-1595, 1622-1626), which nothing in the model makes. Line 845
  stores to the old bucket unconditionally behind an assertion that the element is
  first in it; `TakeOff` stores when it is. The model stops (`Locked`)
  when a process has died between lines 862 and 864, since the index is then in
  released memory. `MCShmHash` and `ShmHash*.cfg` instantiate it.
* `H2Flow` models the response side of `h2/h2connbase.cpp`, `h2connection.cpp`,
  `h2streambase.cpp` and `h2stream.cpp`. An action is an event of the loop (a
  writable socket, data from the application, a timer) or a step of a read event,
  which starts, handles any number of frames of the client and ends with what
  waits (`ReadStart`, the frames, `ReadEnd`). The handlers call each other on one
  record, the connection, so they are operators from records to records. Sizes are
  counted in units of payload; a DATA frame is as large as the response, both
  windows and the largest frame allow. `Int32` keeps the wrap of the 32 bit windows
  of streams. A SETTINGS frame has several values of INITIAL_WINDOW_SIZE, of which the
  streams get the last difference only; `c.over` is history and says that one was lost.
  In each step the socket takes `room` units and, once it was full, `late` units more,
  both chosen freely: the client may read while the event is handled. Two of the
  eight priorities are there. The session above is reduced to what it writes, from
  `HttpSession::onWriteEx()`, `doWrite()`, `flush()` and `sendDynBody()`: it writes what it has and
  suspends writing when it has no more; its states and its closing of a stream
  after an error are not there. The backend delivers one unit at a time. The client
  is external; what it allows is in the history fields (`total`, `sent`, `granted`).
* `Fifo` is what `ls_lfqueue.h` promises: first in, first out, for any number of
  threads. `LfQueue` models `lsr/ls_lfqueue.c` access by access, in sequentially
  consistent memory. `items`, the queue a bystander would see, is history: a node
  enters with the exchange of `phead` and leaves with the double compare and swap of
  `tail`. `reused` is history too: a node was put again while another thread's `get`
  still looked at it. The code does nothing against that and the queue does not
  survive it; the properties speak of the time before. A queue with one consumer,
  which all queues of finished jobs are, never gets there. The two reads of the link
  in lines 230-232 are one, since the node belongs to its reader; the futex compares
  32 bits of `tail.m_ptr`, and no node's address looks like NULL to it.

An operator whose name ends in `_Bug` is a plausible slip in the operator that
follows it. It is in no specification; `PROJECT.json` pairs it with the
property that notices it.

## Runs

Passing runs:

* `crew_life` (`WorkCrewLife.cfg`): one client, at most two workers, two jobs,
  the whole life of a crew. The `STOPPED` state means that every worker is dead
  (the assertion in `stopProcessing`), a stopped crew has no thread in its
  routine and none meets a NULL finished queue, a running crew keeps a worker,
  every queued job is processed, and stopping and deleting return.
* `crew_clients` (`WorkCrewClients.cfg`): two clients, at most two workers and
  three worker identities, so that `size()` could pass the limit; one client adds
  a job and grows the crew while the other starts, tunes and stops it and thread
  creation may fail. Jobs have one fate, slots and counters are right, the
  inductive invariant `CrewInv` and the bound on `size()` hold, and `WorkCrew`
  implements `JobPool`.
* `ssl_async` (`SslAsync.cfg`): handshakes of two flights offloaded to two
  threads, a link that carries three connections in turn, three jobs, after
  which allocation fails and the loop does the handshake itself. A link in its
  handshake that no worker has or will have, and that the loop is not in, is polled
  for reading, although nobody resumes the events that `queueHandshake()` suspended;
  handlers are attached only after the handshake; every handshake ends. 217 thousand
  states.
* `ext_pool` (`ExtWorkerPool.cfg`): two connections, two requests, two failures
  (refused or reset connections, time-outs, bad headers, departing clients), with
  every nesting of the error path. The lists of the pool agree with each other
  and with their capacity, a request is in one place, no path of errors and
  retries drops a request, and the assertions of `assignReq` and `removeRequest`
  hold. 653 thousand states.
* `ext_retry` (`ExtWorkerRetry.cfg`): one connection for two requests, one
  failure. Every request is answered, or its client leaves, also while the
  effective maximum of connections is 0.
* `shm_hash` (`ShmHash.cfg`): three processes, three keys, two elements, a table
  that grows from two buckets to three, and a death at any store. Two waiters may find
  the owner dead at once; one process at a time has the lock and a dead owner does not
  keep it. As long as no half-moved table was changed: the chains, read as the
  next owner will read them, hold every element once; a key that is in the table
  is found by the holder of the lock; `x_iSize` is off by at most the deaths. 1.05
  million states.
* `h2_flow` (`H2Flow.cfg`): two streams of three units, four frames of the client in
  any number of read events, DATA frames of up to two units, windows of up to five,
  SETTINGS frames of one or two values (one above the maximum among them), updates,
  resets, priorities, a socket with room for up to two units and three more once it
  was full, a buffer of five. The server's windows are what the client computes and no
  frame passes either window (the streams' until SETTINGS lost a difference), the
  queues hold live streams once, a stream that could write is queued, the socket is
  polled for it and it is served, unless the link is stranded (see the observations).
  542 thousand states.
* `lf_queue` (`LfQueue.cfg`): two threads put, two get, two nodes are put three
  times; behaviours are followed until a node is put again under another get. Until
  then every step is one of `Fifo`; when no call is under way the links hold
  exactly the queue; `tail.m_ptr` is NULL only in an empty queue or while some
  call is about to set it; what is put is taken, though no sleep runs out. 470
  thousand states.

Runs that TLC must refute, each with a finding in `PROJECT.json`:

* `crew_discard`: `~WorkCrew()` of a running crew blocks for ever when a worker
  is between `thr_cleanup()`'s look at its slot and `workerDied()`'s, since
  `workerDied()` then returns with `m_crewLock` held.
* `ssl_race`: a worker in `SSL_do_handshake()` does not have the connection for
  itself. The event loop is in the same SSL object, because `setSSLAgain()`
  undoes the suspension of the events; and a connection is closed and its link
  used again while a worker runs its handshake (either half of the property fails
  alone).
* `shm_dup`: the survivor that takes the lock of a dead process over does not
  resume its rehash, misses entries that were moved, and adds a key again.
* `h2_reset`: a stream whose window SETTINGS has made negative is reset by an
  update that leaves it negative.

The bounds are the smallest in which the interesting cases meet: a worker that
dies while another starts (two workers, three identities), two clients at the
limit of the crew, a job still referring to a recycled link (two connections,
two jobs), a handshake that needs a second event (two flights), an error inside
the handling of an error (two failures), two waiters for a dead
process's lock, two elements in one chain that part in the larger table, a window
that turns negative and one that is closed while the other is open, a frame cut by a
window, a buffer that empties after the socket was full, a node that
is put again. Each property has a slip in the code that the run notices within
these bounds. Larger instances were checked once: `ExtWorker` with two
connections, two requests and three failures (4.6 million states) and with two
connections, three requests and two failures (8.4 million); `ShmHash` with three
elements, safety only (3.2 million); `H2Flow` with a backend that delivers
several units at once and other initial windows (1.95 million);
`LfQueue` with three nodes, safety only (5.4 million). The safety properties of all
modules are proved for every size, under the conditions that their theorems name, so the
bounds matter to the slips and to liveness.

`CHECK_DEADLOCK FALSE` is used where the system may stop: a link has carried its
last connection, all processes are dead or an instance's allowance of frames is
used up, and in `crew_discard`, whose subject is a thread that is blocked.

Fairness. `WorkCrew`, `LfQueue`: a thread that is inside the code and not blocked
goes on (weak fairness per thread; they are kernel threads); nobody has to call
anything, except that the getters of a lock-free queue go on getting, as the event
loop does, and no time-out has to come. `SslAsyncHandshake`: the event loop serves
ready events and worker threads run (weak fairness); a timer that is due again and
again is run (strong fairness), because `EventDispatcher` runs the timers between
two rounds of events, driven by SIGALRM, however busy the loop is. The peer owes
nothing. `ExtWorker`: the handler that is running goes on (weak); an event that is
ready again and again, on a connection or in the session, is handled, and the
timers run. These are strong because the stack disables all events while one is
handled, so that nothing but a handler's own steps is ever continuously enabled;
epoll reports a ready descriptor in every round. The backend answers, or fails,
what it was sent; failures are bounded. `ShmHash`: a live process goes on (weak).
`H2Flow`: a read event ends, because `onReadEx2()` stops after MAX_INPUT_BATCH_SIZE,
and a socket that is polled for writing becomes writable, which says that
the client goes on reading; `turn` flips with each write event only to state that
one took place.

## What is proved

Every theorem is about `Spec` with any values of the constants that satisfy the
assumptions named in its module: any number of threads, jobs, links, processes,
elements, streams, nodes, any windows and limits. A theorem that needs more says
so in its statement.

`WorkCrew` (`WorkCrewProofs`, `WorkCrewRefinement`), with failing thread creation
and with the discarding destructor included:

* `TypeCorrect`, `SlotsOwned`, `CrewInvariance`, `JobsKept`: `Spec => []TypeOK`,
  `[]SlotOwnership`, `[]CrewInv`, `[]JobsInOnePlace`. The slot table is right
  although `addWorker()` writes it without the lock.
* `CrewImplementsPool`: `Spec => ImplementsJobPool`, so that what is shown of a
  client of `JobPool` holds of a client of the crew.
* `CountersHold`: `Spec => []CountersExact`.
* `SizeIsBounded`: `Spec /\ [][NotLowered]_vars => []SizeBounded`. `NotLowered`
  says that `m_maxWorkers` does not shrink; a crew whose limit is lowered below
  its size is over it until workers leave.
* `StoppedMeansDead`, `StopIsQuiet`: `Alone /\ Spec => []StoppedAllDead`,
  `[]StoppedIsQuiet`. `Alone` says that the owner is the only client and that a
  running crew is not deleted, which is how the server uses its crews. With a
  second client in `addWorker()` the assertion is false.
* `CrewKeepsWorking`: `Staffed /\ Spec /\ [][NotLowered]_vars => []SomeoneWorks`.
  `Staffed` says that the limits are positive and thread creation succeeds.

Neither slot ownership nor the fate of jobs is inductive as it stands.
`SlotOwnership` says nothing of a slot that `addWorker()` has popped but not
yet published, or has cleared but not yet given back; `Building` says that such
a slot is in no worker's hands and in no free list, and `OneAdds` that only one
client is in that state, which is what makes the unlocked write safe.
`ClientPhases` ties a client's place to the function it is in, and excludes
clients inside the crew during the destructor. For the jobs, `HeldWhere` ties a
worker's place to whether it has a job, and `ArgWhere` says that the argument of
an `addJob()` that has not appended yet is nowhere else. `CrewInv` is the
conjunction; `WorkCrewProofs` has one lemma per action that disturbs a part of
it. `WorkCrewRefinement` then shows that each step is `Accept`, `Take`,
`Complete`, `Close` or a stutter of `JobPool`; that the queue is not opened
again after a stop needs one more invariant, `OpenUntilStopped`. The counters are
cardinalities of sets of threads at certain places (`CountInv`). The bound on
`size()` needs that the client between the test of the limit and the count is
alone there (`BoundInv`). `StopInv` lists the places where `stopProcessing()`
knows that all are dead. `WorkInv` has the reason why not all workers leave: the
one that leaves because others are idle has counted one of them, and that one is
in its loop.

`SslAsyncHandshake` (`SslAsyncProofs`): `HandshakeTypes`, `WakeupKept` and
`HandlerLast`, for `TypeOK`, `NoLostWakeup` and `HandlerAfterHandshake`. The
inductive invariant adds that a link in its handshake wants to read, that the
loop is in `accept()` of an ACCEPTING link only, and that SSL has read no more
than was sent.

`ExtWorker` (`ExtWorkerProofs`): `TypeCorrect`, `ListsAgree` and `OnePlace`, for
`TypeOK`, `ListsConsistent` and `RequestInOnePlace`. Neither of the last two is
inductive: a step that puts a connection into the free list, or hands a request to
a connection, relies on what the functions that led there have done. `BaseInv` says
which connections are busy (live and not free), that a request is in the queue, on
one busy connection or nowhere (`Placed`), and what the function on top of the stack
has in its hands: a busy connection that carries nothing, a request that is nowhere
(`Held`). A frame that waits for its callee holds nothing when it continues, whatever
was re-entered meanwhile; it must look again, as the code does with
`conn[c].req # NoReq` (`Resumes`, `Stacked`). The rest is a lemma for each operation
of the pool (`GetConnOK`, `RemoveConnOK`, `DropFreeOK`...), for each way a request
moves (`PlacedAssign`, `PlacedDetach`...) and for each action.

`NoneForgotten` and `AssignmentsAtRest`, for `NobodyForgotten` and `AssignsAtRest`,
need the second invariant `WholeInv`, `BaseInv` with two more parts. `FlowInv` says
which frame may lie on which (`Ties`, `Chained`, `Floored`) and what the running
function may rely on in its callers (`Claim`): when it returns a failure, none of
those that wait for `assignReq()` has a connection that still carries something.
`KnownInv` says that a connection without a request is at rest (`Settled`, `Sure`),
and that a request that waits for its answer is in the queue, on a connection or in
the hands of the running function (`Known`, `Handles`). There is one lemma per action
(`ProcessRequestStep`, `AssignReqStep`...), and a step changes the stack in one of
few ways, each with a lemma: it returns, goes on in the same function, calls, or
enters from an event (`StepReturns`, `StepGoes`, `StepCalls`, `Enters0`...).
`NothingToTakeBack` is what `Claim` gives for the callers of `assignReq()`: after a
failure their connection carries nothing.

`LfQueue` (`LfQueueProofs`): `LfTypesHold`, `EmptyWhenNull`, `RestsLinked` and
`LfQueueIsFifo` for `TypeOK`, `NullMeansEmpty`, `AtRest` and `IsFifo`; and
`OneConsumerFifo`, `Sole /\ Spec => F!Spec`: with one consumer the queue implements
`Fifo` without any condition. `LfInv` describes the list while it is
cut: the nodes have places; behind each place is the link to the next, or NULL and
one put that is about to store it (`Gap`); at most one get has emptied `tail`, and
the node it took is then the base of the list; what a get has read of the node
it looks at is still so. It is kept by every step that does not put a node again
under a get; what is proved for all steps is `~reused => LfInv` (`Safe`). With one
consumer no node that its `get` looks at is free to be put (`Guarded`), so `reused`
stays FALSE.

`ShmHash` (`ShmHashProofs`): `ShmTypesHold`, `OneOwner`, `NothingLost`, `LookupsWork`
and `SizeDrifts`, for `TypeOK`, `MutualExclusion`, `Intact`, `LookupWorks` and
`SizeDrift`, whose statements except the first two exempt tables that were changed
while half moved. The chains are described by two functions that the
invariant says to exist: the index that an element hangs from, and its rank in
the chain. `Linked` says that every chain is the list of its elements by rank,
`Resumable` what holds between any two stores and so after any death, `Knows` what
the process in the critical section knows besides; together they are `ChainInv`, and
`~split => ChainInv` is inductive. What a walk along a chain
computes (`find2`, the recursive functions in `Intact`) follows from that by
induction on ranks. For `x_iSize`, `Owed` is the step that the owner of the lock is
about to take.

`H2Flow` (`H2FlowProofs`): `H2TypesHold`, `WindowsExact`, `NothingBeyondWindows`,
`QueuesClean` and `WakeupsKept`, for `TypeOK`, `WindowExact`, `WithinWindows`,
`QueueClean` and `NoLostWakeup`, without assumptions on the socket. An action is an
event or a step of one, so the work is
in lemmas about handlers, one for each, that say what a handler does to a good
connection (`Good`) and compose as the handlers do; the loops of `write()`,
`bufferOutput()`, `processQueue()`, `processPendingStreams()` and of SETTINGS are
recursive functions, whose lemmas go by induction on the turns taken. Between actions
the invariant is `Steady`. A window may wrap in 32 bits, and `WithinWindows` needs that
this never turns a negative window positive: a stream has sent no more than
`MaxWindow` and what it was granted (`StreamFits`). For wakeups, `Calm` is `Awaits`
between events (every stream that could send is queued; one of them, or output in the
buffer, or a paused link, means that the link polls for writing, unless it is
stranded), and `ReadOk` inside a read
event, where a flag (`H2_CONN_FLAG_WAIT_PROCESS`, `H2_CONN_FLAG_WANT_FLUSH`) may
stand for polling. The core is the loop of `processQueue()`: when it ends with
nothing counted as wanting to write, the window still open and the link not paused, no
stream is ready (`Idle` and `Rest`).

Induction. The library's induction theorems are not usable here, as they take an
operator as a parameter. `Iteration` derives what is needed from the least member
of a set of numbers: a set of naturals that has 0 and every successor has them
all, and a function that is defined by recursion over `0 .. n` exists and has the
values its definition says.

Only model-checked: liveness (`JobsGetProcessed`, `StopReturns`, `HandshakeEnds`,
`LockNotStuck`, `Served`, `Taken`, `Answered`), since the provers do not reach
fairness.

## Observations

What was met while modelling and is not one of the findings above:

* `ls_lfqueue.c:168`: `get()` reads the pointer and the sequence number of `tail`
  one after the other, and line 232 sets the pointer without a new sequence
  number. With two consumers and two nodes `AtRest` fails, were it claimed beyond
  `reused`: a node taken and put again between the reads makes the double compare
  and swap succeed with a stale successor. `ls_lfqueue.h:121` announces a
  "multi-producer multi-consumer (mpmc) lockless queue object" that manages a fifo
  queue, without a condition on when a node may be put again; the code keeps that
  promise for one consumer. Queues of the default build have one;
  `LS_WORKCREW_LF` and `USE_THRSAFE_POOL` would have several.
* `ls_lfqueue.c:232` and a second put before the first is taken make nodes
  available without a wake-up, so a consumer may sleep beside a node until its
  time runs out, while another consumer is awake.
* `h2connection.cpp:486`: when a flush finds the socket full, the link is paused and
  `processQueue()` stops with streams queued; when the last flush of the same event
  then finds room, the buffer is empty and nothing is counted as wanting to write, so
  polling for writing is suspended. The streams wait for the next frame of the
  client. `Stranded` is that state; `NoLostWakeup` and `Served` name it as their only
  exception.
* `h2connbase.cpp:539`: of two INITIAL_WINDOW_SIZE entries in one SETTINGS frame
  only the last difference reaches the open streams, so that their windows are not the
  client's from then on (`c.over`), and the server may send beyond them. At line 799
  DATA of a stream that is gone is counted against the connection's receive window and
  not given back.
* `lsshmhash.cpp:793-805`: a process that takes the lock over in the middle of a
  rehash may remove and release the element that `x_iWorkIterOff` names; the
  next `rehash()` links it again. `Intact` and `LookupWorks` end where a half-moved
  table is changed (`split`); `shm_dup` shows one of the consequences.
* `lsshmhash.cpp:862-864`: a death between the release of the old index and the
  store of the new one leaves the table pointing into released memory.
  `ls_lock.c:78`: a process whose id is that of a dead owner meets its own id in
  the lock word.
* `proxyconn.cpp:805`: ECONNRESET inside a body leads to a second decrement of
  `m_iLingerConns`, which `localworker.cpp:273` reads. `ConnPool::setMaxConns()`
  never lowers the maximum; a reconnection in place is not counted as an attempt;
  `failOutstandingReqs()` asks for 503 and the client gets 500.
  The branches of `processRequest()`, `recycleConn()` and `processPending()` that take
  a request back after a failed `assignReq()` find none on a proxy connection
  (`NothingToTakeBack`): `connectionError()` has taken it off by then.
* `addJob()` of a crew that is being stopped returns `EACCES`, which its callers
  do not know; nobody resumes a connection whose handshake a worker has completed
  until the peer sends more or the timer closes it.

## What is not modelled

See the components in `PROJECT.json` with their reasons. Most of the repository
is parsing, formatting, configuration, file and socket I/O and administration
scripts, where a state machine has little to say; the models cover the parts
that keep shared state through interleavings, failures and retries.

Within the modelled parts: the clean-up callbacks and priorities of worker threads
and the notification of the event loop (no state of the crew); weak memory orders
(the code uses sequentially consistent atomics for what the models treat as
atomic); TLS data after the handshake, the PROXY protocol, asynchronous
certificates and private keys, throttling; `processCompletedJobs()`,
`asyncHandshakeDoneCb()` and `SslAsyncHandshake::shutdown()`, which nothing calls.
Of the external applications: local processes, load balancers, other protocols
than the proxy's, and the bytes of all of them. Of shared memory: the pool's free
lists, files and their recovery (`mergeDeadPool()` and `recoverOrphanShm()` are
called by nothing), the bitmap and the LRU list. Of HTTP/2: headers and their
compression, the receive side and the pausing of reads while output is stuck
(`H2_CONN_FLAG_PAUSE_READ`), limits on the rate of frames, the bytes of control
frames in the buffer (with the FIN or RST that closing a stream adds, and the flush
it asks for), the cut of the last frame of a batch to H2STREAM_MAX_PKT_SIZE2, the states and
error paths of HttpSession, GOAWAY beyond the end of the connection. No claim is made
about fairness between priorities: streams of a higher priority delay the others, and
`Served` holds because responses are finite.
