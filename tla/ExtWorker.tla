----------------------------- MODULE ExtWorker -----------------------------
(***************************************************************************)
(* The pool of connections and the waiting queue that stand between the    *)
(* HTTP sessions and one external application: ExtWorker and ConnPool, the *)
(* connection life cycle of ExtConn with ProxyConn as its protocol, and    *)
(* the retry logic of HttpExtConnector.                                    *)
(*                                                                         *)
(* One thread runs all of it, but every handler re-enters the worker: a    *)
(* failed assignReq() calls connError(), connectionError(), tryRecover(),  *)
(* processRequest() and assignReq() again, on the same lists, before the   *)
(* first call has returned.  The call stack is therefore part of the state:*)
(* a frame stands for a function that is about to run or that continues    *)
(* when its callee has returned, `ret' is the value the callee returned,   *)
(* and a new event is handled only when the stack is empty.                *)
(*                                                                         *)
(* The worker is a ProxyWorker without a command and without a load        *)
(* balancer.  Times are abstracted to "recent" or not; an errno is one of  *)
(* the classes the code tells apart.                                       *)
(***************************************************************************)
EXTENDS Integers, Sequences, SequencesExt, FiniteSets

CONSTANTS
    Conns,        \* the ExtConn objects newConn() can create
    Reqs,         \* the requests (HttpExtConnector objects)
    CfgMaxConns,  \* ExtWorkerConfig::getMaxConns()
    RetryTimeout, \* TRUE: ExtWorkerConfig::getRetryTimeout() > 0
    MaxFaults,    \* bound: failures of the backend, the network or a client
    NoConn, NoReq \* NULL pointers

ASSUME ConnAssumption == NoConn \notin Conns /\ NoReq \notin Reqs
ASSUME MaxAssumption  == /\ CfgMaxConns \in Nat \ {0}
                         /\ IsFiniteSet(Conns) /\ Cardinality(Conns) >= CfgMaxConns
ASSUME FaultAssumption == MaxFaults \in Nat /\ RetryTimeout \in BOOLEAN

VARIABLES
    conn,    \* the ExtConn/ProxyConn objects
    pool,    \* ConnPool: connList (a set), freeList, badList, m_iMaxConns
    worker,  \* ExtWorker: m_iState, m_iErrors, m_iLingerConns, recent error / restart
    queue,   \* ExtWorker::m_reqQueue
    req,     \* the HttpExtConnector objects
    stack,   \* the calls in progress, innermost first
    ret,     \* the value returned by the last call
    errno,   \* the errno of a failed connect(), "none" once it has been read
    faults   \* failures so far

vars == <<conn, pool, worker, queue, req, stack, ret, errno, faults>>
lists == <<pool, worker, queue>>   \* what ExtWorker and ConnPool keep

-----------------------------------------------------------------------------
\* errno classes.  "reset": ECONNRESET, EPIPE; "refused": ECONNREFUSED, ENOENT;
\* "again": EAGAIN; "timeout": ETIMEDOUT; "intr": EINTR; "other": the rest.
Errnos == {"reset", "refused", "again", "timeout", "intr", "other"}

\* A connect() that fails at once, and one that fails after EINPROGRESS.
ConnectErrnos == {"refused", "again", "other"}
AsyncErrnos   == {"refused", "timeout", "other"}
IoErrnos      == {"reset", "timeout", "other"}

ConnStates == {"DISCONNECTED", "CONNECTING", "PROCESSING", "ABORT", "CLOSING"}

\* What processRequest() and assignReq() return besides 0.
SC_503  == 503
LS_FAIL == -1

MaxAttempts == 3   \* tryRecover(): maxAttempts without a load balancer

FreshConn == [st |-> "DISCONNECTED", req |-> NoReq, toClose |-> FALSE, used |-> FALSE,
              sent |-> FALSE, inProcess |-> FALSE]

FreshReq == [st |-> "idle", proc |-> NoConn, attempts |-> 0, hec |-> "begin", hdr |-> "none",
             err |-> FALSE, abort |-> FALSE, complete |-> FALSE, alive |-> TRUE, out |-> 0]

Frame(fn, c, r, x) == [fn |-> fn, c |-> c, r |-> r, x |-> x]
FrameNames ==
    {"process", "processRequest", "processRequest2", "assignReq", "assignReq2", "connectEx",
     "doWrite", "connError", "connError2", "connectionError", "connectionError2",
     "failOutstandingReqs", "tryRecover", "tryRecover2", "recycleConn", "recycleLoop",
     "recycleLoop2", "processPending", "processPending2", "endResponse", "resetStats2",
     "onEventDone", "return"}

TypeOK ==
    /\ conn \in [Conns -> [st : ConnStates, req : Reqs \cup {NoReq}, toClose : BOOLEAN,
                           used : BOOLEAN, sent : BOOLEAN, inProcess : BOOLEAN]]
    /\ pool.conn \subseteq pool.created /\ pool.created \subseteq Conns
    /\ pool.free \in Seq(Conns) /\ pool.bad \in Seq(Conns)
    /\ pool.max \in Int
    /\ worker \in [st : {"NOTSTARTED", "BAD", "GOOD"}, errors : Nat, linger : Int,
                   errRecent : BOOLEAN, restartRecent : BOOLEAN]
    /\ queue \in Seq(Reqs)
    /\ req \in [Reqs -> [st : {"idle", "active", "over"}, proc : Conns \cup {NoConn},
                         attempts : Nat, hec : {"begin", "fwd", "resp"}, hdr : {"none", "ok", "close"},
                         err : BOOLEAN, abort : BOOLEAN, complete : BOOLEAN, alive : BOOLEAN,
                         out : {0, 200, 500, SC_503}]]
    /\ \A i \in DOMAIN stack : /\ stack[i].fn \in FrameNames
                               /\ stack[i].c \in Conns \cup {NoConn}
                               /\ stack[i].r \in Reqs \cup {NoReq}
    /\ ret \in {0, 1, 500, SC_503, LS_FAIL}
    /\ errno \in Errnos \cup {"none"}
    /\ faults \in 0..MaxFaults

\* A worker starts NOTSTARTED with an empty pool; start() makes room in it.
Init ==
    /\ conn = [c \in Conns |-> FreshConn]
    /\ pool = [created |-> {}, conn |-> {}, free |-> <<>>, bad |-> <<>>, max |-> 0]
    /\ worker = [st |-> "NOTSTARTED", errors |-> 0, linger |-> 0,
                 errRecent |-> FALSE, restartRecent |-> FALSE]
    /\ queue = <<>>
    /\ req = [r \in Reqs |-> FreshReq]
    /\ stack = <<>>
    /\ ret = 0
    /\ errno = "none"
    /\ faults = 0

-----------------------------------------------------------------------------
(* The call stack. *)

Top(fn)      == stack # <<>> /\ Head(stack).fn = fn
top          == Head(stack)
Goto(frames) == stack' = frames \o Tail(stack)
Return(v)    == stack' = Tail(stack) /\ ret' = v
Call(frames) == stack = <<>> /\ stack' = frames
Fault        == faults < MaxFaults /\ faults' = faults + 1

-----------------------------------------------------------------------------
(* ConnPool, and the pieces of ExtWorker and ExtConn that call nothing. *)

\* ExtConn::close()
Closed(c) == IF c.st = "DISCONNECTED" THEN c
             ELSE [c EXCEPT !.st = "DISCONNECTED", !.inProcess = FALSE]

\* ls_ptrlist_erase(): the last member of a list takes the place of the one erased.
Erase(s, c) ==
    IF c \notin ToSet(s) THEN s
    ELSE LET k == CHOOSE i \in 1..Len(s) : s[i] = c /\ \A j \in 1..(i - 1) : s[j] # c
         IN  [i \in 1..(Len(s) - 1) |-> IF i = k THEN s[Len(s)] ELSE s[i]]

\* DLinkQueue::remove(): a request is unlinked if it is in the queue.
Unlink(q, r) ==
    IF r \notin ToSet(q) THEN q ELSE RemoveAt(q, CHOOSE i \in 1..Len(q) : q[i] = r)

\* ConnPool::removeConn(): out of both lists, and into badList if it was in one.
RemoveConn(p, c) ==
    IF c \in p.conn \cup ToSet(p.free)
    THEN [p EXCEPT !.conn = @ \ {c}, !.free = Erase(@, c), !.bad = Append(@, c)]
    ELSE p

CanAddMore(p) == p.max > Cardinality(p.conn)
\* connectionError(): a connection that never worked lowers the maximum.
DecMaxConn(p) == IF CanAddMore(p) THEN [p EXCEPT !.max = @ - 1] ELSE p
\* Mutant: a new connection is registered and not accounted for.
GetConn_Bug(p) ==
    IF p.free # <<>> THEN [c |-> Last(p.free), p |-> [p EXCEPT !.free = Front(@)]]
    ELSE IF ~CanAddMore(p) THEN [c |-> NoConn, p |-> p]
    ELSE LET c == CHOOSE x \in Conns : x \notin p.conn
         IN  [c |-> c, p |-> [p EXCEPT !.conn = @ \cup {c}]]

\* ExtWorker::getConn(): a free connection, a bad one, a new one, or NULL.
GetConn(p) ==
    IF p.free # <<>> THEN [c |-> Last(p.free), p |-> [p EXCEPT !.free = Front(@)]]
    ELSE IF ~CanAddMore(p) THEN [c |-> NoConn, p |-> p]
    ELSE IF p.bad # <<>>
         THEN [c |-> Last(p.bad), p |-> [p EXCEPT !.bad = Front(@), !.conn = @ \cup {Last(p.bad)}]]
         ELSE LET c == CHOOSE x \in Conns : x \notin p.created
              IN  [c |-> c, p |-> [p EXCEPT !.created = @ \cup {c}, !.conn = @ \cup {c}]]

\* ConnPool::setMaxConns() only ever raises the limit.
SetMaxConns(p, max) == IF p.max < max THEN [p EXCEPT !.max = max] ELSE p

\* The free connections are closed and become bad, last one first.
DropFree(p) == [p EXCEPT !.conn = @ \ ToSet(p.free), !.free = <<>>, !.bad = @ \o Reverse(p.free)]
CloseFree(cn, p) == [c \in Conns |-> IF c \in ToSet(p.free) THEN Closed(cn[c]) ELSE cn[c]]

\* ExtWorker::clearCurConnPool(): keepAliveOff() for every connection in use.
ToLinger(cn, p) == {c \in p.conn \ ToSet(p.free) : ~cn[c].toClose}
ClearConns(cn, p) == [c \in Conns |-> IF c \in ToLinger(cn, p) THEN [cn[c] EXCEPT !.toClose = TRUE]
                                      ELSE CloseFree(cn, p)[c]]
ClearLinger(cn, p) == Cardinality(ToLinger(cn, p))

\* ExtWorker::start(); ProxyWorker::startEx() returns 1 without a command.
Starts(w) == w.errors <= 10 /\ w.st = "NOTSTARTED"
StartWorker(w)  == IF Starts(w) THEN [w EXCEPT !.st = "GOOD", !.errors = 0] ELSE w
StartPool(w, p) == IF Starts(w) THEN SetMaxConns(p, CfgMaxConns) ELSE p
\* Mutant: the request keeps its pointer to the connection.
DetachReq_Bug(c) == req

\* ProxyConn::removeRequest() and setConnector(NULL)
Detach(c) == [conn EXCEPT ![c].req = NoReq]
DetachReq(c) == IF conn[c].req = NoReq THEN req ELSE [req EXCEPT ![conn[c].req].proc = NoConn]

\* HttpExtConnector::resetConnector() and errResponse()
ResetConnector(q) == [q EXCEPT !.hec = "begin", !.hdr = "none", !.err = FALSE,
                               !.abort = FALSE, !.complete = FALSE]
ErrResponse(q, code) == [q EXCEPT !.err = TRUE, !.out = code]

\* The connection side of releaseProcessor(): ProxyConn::cleanUp() up to
\* recycleConn(), for the connection that carried a request.
CleanedUp(c) ==
    LET sentAll == IF c.sent THEN c ELSE Closed(c)
        free    == [sentAll EXCEPT !.req = NoReq, !.sent = FALSE]
    IN  IF free.st \in {"ABORT", "CLOSING"} THEN Closed(free) ELSE free

-----------------------------------------------------------------------------
(* ExtWorker: requests, the waiting queue and the pool. *)

\* ExtWorker::processRequest(pReq, retry); x is retry.
ProcessRequest ==
    /\ Top("processRequest")
    /\ LET r == top.r
           w == StartWorker(worker)
           g == GetConn(StartPool(worker, pool))
           pick == top.x \/ queue = <<>>
       IN  /\ worker' = w
           /\ IF w.st = "BAD"
              THEN Return(SC_503) /\ UNCHANGED <<pool, queue>>
              ELSE IF pick /\ g.c # NoConn
              THEN /\ pool' = g.p
                   /\ Goto(<<Frame("assignReq", g.c, r, 0), Frame("processRequest2", g.c, r, 0)>>)
                   /\ UNCHANGED <<queue, ret>>
              ELSE /\ pool' = StartPool(worker, pool)
                   /\ queue' = IF top.x THEN <<r>> \o queue ELSE Append(queue, r)
                   /\ IF ~top.x /\ Cardinality(pool'.conn) - Len(pool'.free) < pool'.max
                      THEN Goto(<<Frame("processPending", NoConn, NoReq, 0),
                                  Frame("return", NoConn, NoReq, 0)>>) /\ ret' = ret
                      ELSE Return(0)
    /\ UNCHANGED <<conn, req, errno, faults>>

\* ... after assignReq(): take the request back and recycle the connection.
ProcessRequest2 ==
    /\ Top("processRequest2")
    /\ LET c == top.c
           v == IF ret > 0 THEN ret ELSE 0
       IN  IF ret # 0 /\ conn[c].req # NoReq
           THEN /\ conn' = Detach(c) /\ req' = DetachReq(c)
                /\ Goto(<<Frame("recycleConn", c, NoReq, 0), Frame("return", NoConn, NoReq, v)>>)
                /\ ret' = ret
           ELSE Return(v) /\ UNCHANGED <<conn, req>>
    /\ UNCHANGED <<lists, errno, faults>>

\* A caller that returns a value of its own whatever its callee returned.
ReturnValue ==
    /\ Top("return")
    /\ Return(top.x)
    /\ UNCHANGED <<conn, req, lists, errno, faults>>

\* ExtWorker::recycleConn(pConn): a connection marked to close leaves the pool,
\* any other one takes the next waiting request or becomes free.
RecycleConn ==
    /\ Top("recycleConn")
    /\ LET c == top.c
       IN  IF conn[c].toClose
           THEN /\ worker' = [worker EXCEPT !.linger = @ - 1]
                /\ conn' = [conn EXCEPT ![c] = Closed(@)]
                /\ pool' = RemoveConn(pool, c)
                /\ IF queue # <<>> THEN Goto(<<Frame("processPending", NoConn, NoReq, 0)>>)
                                   ELSE stack' = Tail(stack)
           ELSE /\ Goto(<<Frame("recycleLoop", c, NoReq, 0)>>)
                /\ UNCHANGED <<conn, pool, worker>>
    /\ UNCHANGED <<queue, req, ret, errno, faults>>

RecycleLoop ==
    /\ Top("recycleLoop")
    /\ IF queue = <<>>
       THEN /\ pool' = [pool EXCEPT !.free = Append(@, top.c)]
            /\ stack' = Tail(stack)
            /\ UNCHANGED queue
       ELSE /\ queue' = Tail(queue)
            /\ IF req[Head(queue)].alive
               THEN Goto(<<Frame("assignReq", top.c, Head(queue), 0),
                           Frame("recycleLoop2", top.c, Head(queue), 0)>>)
               ELSE UNCHANGED stack
            /\ UNCHANGED pool
    /\ UNCHANGED <<conn, worker, req, ret, errno, faults>>
\* Mutant: the loop goes on with a connection that connectionError() released.
RecycleLoop2_Bug ==
    /\ Top("recycleLoop2")
    /\ IF ret # 0
       THEN Goto(<<Frame("recycleLoop", top.c, NoReq, 0)>>)
       ELSE stack' = Tail(stack)
    /\ UNCHANGED <<conn, req, lists, ret, errno, faults>>

RecycleLoop2 ==
    /\ Top("recycleLoop2")
    /\ IF ret # 0 /\ conn[top.c].req # NoReq
       THEN /\ conn' = Detach(top.c) /\ req' = DetachReq(top.c)
            /\ Goto(<<Frame("recycleLoop", top.c, NoReq, 0)>>)
       ELSE stack' = Tail(stack) /\ UNCHANGED <<conn, req>>
    /\ UNCHANGED <<lists, ret, errno, faults>>

\* ExtWorker::processPending(); c is the connection in hand.
ProcessPending ==
    /\ Top("processPending")
    /\ IF queue = <<>>
       THEN /\ pool' = IF top.c = NoConn THEN pool ELSE [pool EXCEPT !.free = Append(@, top.c)]
            /\ stack' = Tail(stack) /\ UNCHANGED queue
       ELSE LET g == IF top.c = NoConn THEN GetConn(pool) ELSE [c |-> top.c, p |-> pool]
                r == Head(queue)
            IN  /\ pool' = g.p
                /\ IF g.c = NoConn THEN stack' = Tail(stack) /\ UNCHANGED queue
                   ELSE /\ queue' = Tail(queue)
                        /\ IF req[r].alive
                           THEN Goto(<<Frame("assignReq", g.c, r, 0), Frame("processPending2", g.c, r, 0)>>)
                           ELSE Goto(<<Frame("processPending", g.c, NoReq, 0)>>)
    /\ UNCHANGED <<conn, worker, req, ret, errno, faults>>

ProcessPending2 ==
    /\ Top("processPending2")
    /\ LET c == top.c
       IN  IF ret = 0
           THEN Goto(<<Frame("processPending", NoConn, NoReq, 0)>>) /\ UNCHANGED <<conn, req>>
           ELSE IF conn[c].req # NoReq
           THEN /\ conn' = Detach(c) /\ req' = DetachReq(c)
                /\ Goto(<<Frame("recycleConn", c, NoReq, 0)>>)
           ELSE stack' = Tail(stack) /\ UNCHANGED <<conn, req>>
    /\ UNCHANGED <<lists, ret, errno, faults>>

-----------------------------------------------------------------------------
(* ExtConn: assigning a request, connecting, writing. *)

\* ExtConn::assignReq() with ProxyConn::addRequest().
AssignReq ==
    /\ Top("assignReq")
    /\ LET c == top.c
           k == IF conn[c].st \in {"ABORT", "CLOSING"} THEN Closed(conn[c]) ELSE conn[c]
       IN  /\ conn' = [conn EXCEPT ![c] = [k EXCEPT !.req = top.r, !.sent = FALSE]]
           /\ req' = [req EXCEPT ![top.r].proc = c]
           /\ CASE k.st = "PROCESSING" ->
                     Goto(<<Frame("doWrite", c, NoReq, 0)>>) /\ ret' = ret
                [] k.st = "CONNECTING" -> Return(0)
                [] OTHER ->
                     Goto(<<Frame("connectEx", c, NoReq, 0), Frame("assignReq2", c, NoReq, 0)>>)
                     /\ ret' = ret
    /\ UNCHANGED <<lists, errno, faults>>

\* ... after reconnect(): a failed connect is a connection error.
AssignReq2 ==
    /\ Top("assignReq2")
    /\ IF ret = LS_FAIL
       THEN Goto(<<Frame("connError", top.c, NoReq, errno)>>) /\ errno' = "none" /\ ret' = ret
       ELSE Return(0) /\ UNCHANGED errno
    /\ UNCHANGED <<conn, req, lists, faults>>

\* ExtConn::connectEx() with ProxyConn::init(), which counts a request so that the
\* pool is not reduced for a connection that was established.
ConnectEx ==
    /\ Top("connectEx")
    /\ LET c == top.c
           fresh == [Closed(conn[c]) EXCEPT !.toClose = FALSE, !.used = FALSE]
           up(st) == [fresh EXCEPT !.st = st, !.used = TRUE, !.sent = FALSE]
       IN  \/ /\ conn' = [conn EXCEPT ![c] = up("PROCESSING")]
              /\ Goto(<<Frame("doWrite", c, NoReq, 0), Frame("return", NoConn, NoReq, 0)>>)
              /\ UNCHANGED <<ret, errno, faults>>
           \/ /\ conn' = [conn EXCEPT ![c] = up("CONNECTING")]
              /\ Return(0)
              /\ UNCHANGED <<errno, faults>>
           \/ /\ Fault
              /\ conn' = [conn EXCEPT ![c] = fresh]
              /\ errno' \in ConnectErrnos
              /\ Return(LS_FAIL)
    /\ UNCHANGED <<req, lists>>

\* ProxyConn::doWrite() and HttpExtConnector::extOutputReady(): the request goes out in
\* one write or in two, or the write fails, which the caller turns into connError().
DoWrite ==
    /\ Top("doWrite")
    /\ LET c == top.c
           r == conn[c].req
           wrote(hec) == /\ req' = [req EXCEPT ![r].hec = hec]
                         /\ conn' = [conn EXCEPT ![c].inProcess = TRUE, ![c].sent = (hec = "resp")]
       IN  IF r = NoReq \/ req[r].hec = "resp"
           THEN Return(0) /\ UNCHANGED <<conn, req, faults>>
           ELSE \/ wrote("resp") /\ Return(0) /\ UNCHANGED faults
                \/ req[r].hec = "begin" /\ wrote("fwd") /\ Return(0) /\ UNCHANGED faults
                \/ \E e \in IoErrnos, hec \in {"fwd", "resp"} :
                     /\ Fault
                     /\ wrote(hec)
                     /\ Goto(<<Frame("connError", c, NoReq, e)>>)
                     /\ ret' = ret
    /\ UNCHANGED <<lists, errno>>

-----------------------------------------------------------------------------
(* Errors and retries. *)

\* ExtConn::connError(): reconnect in place, or give the connection up.
ConnError ==
    /\ Top("connError")
    /\ LET c == top.c
           r == conn[c].req
           inPlace == /\ r # NoReq
                      /\ pool.free = <<>> \/ req[r].attempts % 3 = 0
                      /\ top.x = "reset" /\ conn[c].used
       IN  IF top.x = "intr" THEN Return(0) /\ UNCHANGED <<conn, req>>
           ELSE /\ conn' = [conn EXCEPT ![c] = Closed(@)]
                /\ ret' = ret
                /\ IF inPlace
                   THEN /\ req' = [req EXCEPT ![r] = [ResetConnector(req[r]) EXCEPT !.attempts = @ + 1]]
                        /\ Goto(<<Frame("connectEx", c, NoReq, 0), Frame("connError2", c, NoReq, top.x)>>)
                   ELSE Goto(<<Frame("connectionError", c, NoReq, top.x)>>) /\ UNCHANGED req
    /\ UNCHANGED <<lists, errno, faults>>

ConnError2 ==
    /\ Top("connError2")
    /\ errno' = "none"
    /\ IF ret = 0 THEN Return(0) /\ UNCHANGED conn
       ELSE /\ conn' = [conn EXCEPT ![top.c] = Closed(@)]
            /\ Goto(<<Frame("connectionError", top.c, NoReq, top.x)>>)
            /\ ret' = ret
    /\ UNCHANGED <<req, lists, faults>>

\* ExtWorker::connectionError() before the request is retried.  The effective
\* maximum shrinks when no request ever went through the connection, the worker
\* restarts (LocalWorker::restart() without a command) or is marked bad.
ConnectionError ==
    /\ Top("connectionError")
    /\ LET c == top.c
           e == top.x
           r == conn[c].req
           p1 == RemoveConn(pool, c)
           linger == worker.linger - (IF conn[c].toClose THEN 1 ELSE 0)
           hard == ~conn[c].used /\ e \notin {"reset", "timeout"}
           p2 == IF hard THEN DecMaxConn(p1) ELSE p1
           p3 == IF hard /\ e = "refused" THEN DropFree(p2) ELSE p2
           c3 == IF hard /\ e = "refused" THEN CloseFree(Detach(c), p2) ELSE Detach(c)
           restart == hard /\ \/ e = "refused"
                              \/ p2.max < (CfgMaxConns + 1) \div 2 /\ ~worker.restartRecent
           allBad == ~conn[c].used /\ p2.max = 0
           clear == restart \/ (allBad /\ RetryTimeout)
           state == IF ~allBad THEN worker.st ELSE IF RetryTimeout THEN "BAD" ELSE "NOTSTARTED"
           next(v) == IF r = NoReq THEN Goto(<<Frame("connectionError2", NoConn, NoReq, 0)>>) /\ ret' = 0
                      ELSE /\ Goto(<<Frame("tryRecover", NoConn, r, 0),
                                     Frame("connectionError2", NoConn, NoReq, 0)>>)
                           /\ ret' = ret
       IN  /\ req' = DetachReq(c)
           /\ IF e = "again"
              THEN /\ conn' = Detach(c) /\ pool' = p1
                   /\ worker' = [worker EXCEPT !.linger = linger]
                   /\ queue' = IF r = NoReq THEN queue ELSE <<r>> \o queue
                   /\ Return(1)
              ELSE /\ conn' = IF clear THEN ClearConns(c3, p3) ELSE c3
                   /\ pool' = IF clear THEN DropFree(p3) ELSE p3
                   /\ worker' = [st |-> state,
                                 errors |-> IF ~allBad THEN worker.errors
                                            ELSE IF RetryTimeout THEN worker.errors + 1 ELSE 0,
                                 linger |-> linger + (IF clear THEN ClearLinger(c3, p3) ELSE 0),
                                 errRecent |-> worker.errRecent \/ hard \/ state = "BAD",
                                 restartRecent |-> worker.restartRecent \/ restart]
                   /\ next(0)
                   /\ UNCHANGED queue
    /\ UNCHANGED <<errno, faults>>

\* ... after tryRecover(): a bad worker fails everything that waits.
ConnectionError2 ==
    /\ Top("connectionError2")
    /\ IF worker.st = "BAD"
       THEN Goto(<<Frame("failOutstandingReqs", NoConn, NoReq, 0), Frame("return", NoConn, NoReq, ret)>>)
       ELSE stack' = Tail(stack)
    /\ UNCHANGED <<conn, req, lists, ret, errno, faults>>

FailOutstandingReqs ==
    /\ Top("failOutstandingReqs")
    /\ IF queue = <<>> THEN stack' = Tail(stack) /\ UNCHANGED queue
       ELSE /\ queue' = Tail(queue)
            /\ IF req[Head(queue)].alive
               THEN stack' = <<Frame("endResponse", NoConn, Head(queue), 0)>> \o stack
               ELSE UNCHANGED stack
    /\ UNCHANGED <<conn, req, pool, worker, ret, errno, faults>>

\* HttpExtConnector::tryRecover(): at most MaxAttempts, then 503.
TryRecover ==
    /\ Top("tryRecover")
    /\ LET r == top.r
           n == req[r].attempts + 1
           q == [ResetConnector(req[r]) EXCEPT !.attempts = n]
           start == n < MaxAttempts /\ n % 3 >= 2 /\ worker.st # "GOOD"
       IN  /\ worker' = IF start THEN StartWorker(worker) ELSE worker
           /\ pool' = IF start THEN StartPool(worker, pool) ELSE pool
           /\ IF n < MaxAttempts
              THEN /\ req' = [req EXCEPT ![r] = q]
                   /\ Goto(<<Frame("processRequest", NoConn, r, TRUE), Frame("tryRecover2", NoConn, r, 0)>>)
                   /\ ret' = ret
              ELSE /\ req' = [req EXCEPT ![r] = ErrResponse(q, SC_503)]
                   /\ Return(LS_FAIL)
    /\ UNCHANGED <<conn, queue, errno, faults>>
\* Mutant: a retry that is refused with a status code counts as taken.
TryRecover2_Bug ==
    /\ Top("tryRecover2")
    /\ Return(0)
    /\ UNCHANGED <<conn, req, lists, errno, faults>>

TryRecover2 ==
    /\ Top("tryRecover2")
    /\ IF ret \in {0, 1} THEN Return(0) /\ UNCHANGED req
       ELSE Return(LS_FAIL) /\ req' = [req EXCEPT ![top.r] = ErrResponse(@, SC_503)]
    /\ UNCHANGED <<conn, lists, errno, faults>>

\* HttpExtConnector::endResponse() with releaseProcessor().
EndResponse ==
    /\ Top("endResponse")
    /\ LET r == top.r
           q == req[r]
           c == q.proc
           out == IF q.err THEN q.out ELSE 200
       IN  IF q.complete THEN Return(0) /\ UNCHANGED <<conn, req, queue>>
           ELSE IF q.hdr = "none" /\ ~q.abort
           THEN /\ req' = [req EXCEPT ![r] = [ErrResponse(q, 500) EXCEPT !.hdr = "ok"]]
                /\ Return(LS_FAIL) /\ UNCHANGED <<conn, queue>>
           ELSE /\ req' = [req EXCEPT ![r] = [q EXCEPT !.complete = TRUE, !.proc = NoConn, !.out = out]]
                /\ ret' = 0
                /\ IF c # NoConn
                   THEN /\ conn' = [conn EXCEPT ![c] = CleanedUp(@)]
                        /\ Goto(<<Frame("recycleConn", c, NoReq, 0)>>)
                        /\ UNCHANGED queue
                   ELSE /\ queue' = Unlink(queue, r)
                        /\ stack' = Tail(stack) /\ UNCHANGED conn
    /\ UNCHANGED <<pool, worker, errno, faults>>

\* ExtConn::onEventDone(), which EdStream::handleEvents() calls after a handler
\* that did not fail.
OnEventDone ==
    /\ Top("onEventDone")
    /\ LET c == top.c
       IN  IF ret = LS_FAIL \/ conn[c].st \notin {"ABORT", "CLOSING"}
           THEN stack' = Tail(stack) /\ UNCHANGED <<conn, pool>>
           ELSE /\ conn' = [conn EXCEPT ![c] = Closed(@)]
                /\ IF conn[c].req = NoReq
                   THEN pool' = RemoveConn(pool, c) /\ stack' = Tail(stack)
                   ELSE Goto(<<Frame("endResponse", NoConn, conn[c].req, 0)>>) /\ UNCHANGED pool
    /\ UNCHANGED <<req, worker, queue, ret, errno, faults>>

-----------------------------------------------------------------------------
(* Events: handled one at a time, when no call is in progress. *)

\* HttpExtConnector::process(): a session hands its request to the worker.
NewRequest(r) ==
    /\ req[r].st = "idle"
    /\ req' = [req EXCEPT ![r] = [FreshReq EXCEPT !.st = "active"]]
    /\ Call(<<Frame("processRequest", NoConn, r, FALSE), Frame("process", NoConn, r, 0)>>)
    /\ UNCHANGED <<conn, lists, ret, errno, faults>>

Process ==
    /\ Top("process")
    /\ stack' = Tail(stack)
    /\ req' = IF ret > 1 THEN [req EXCEPT ![top.r].out = ret] ELSE req
    /\ UNCHANGED <<conn, lists, ret, errno, faults>>

\* The client closes its connection: isAlive() is false from now on.
ClientGone(r) ==
    /\ stack = <<>> /\ req[r].st = "active" /\ req[r].alive /\ Fault
    /\ req' = [req EXCEPT ![r].alive = FALSE]
    /\ UNCHANGED <<conn, lists, stack, ret, errno>>

\* HttpExtConnector::cleanUp(): the session has its answer, or its client is gone.
CleanUp(r) ==
    /\ req[r].st = "active" /\ (req[r].out # 0 \/ ~req[r].alive)
    /\ LET q == req[r]
           c == q.proc
       IN  /\ req' = [req EXCEPT ![r] = [ResetConnector(q) EXCEPT !.st = "over", !.proc = NoConn]]
           /\ IF q.complete THEN Call(<<>>) /\ UNCHANGED <<conn, queue>>
              ELSE IF c # NoConn
              THEN /\ conn' = [conn EXCEPT ![c] = CleanedUp([@ EXCEPT !.st = "ABORT"])]
                   /\ Call(<<Frame("recycleConn", c, NoReq, 0)>>) /\ UNCHANGED queue
              ELSE /\ queue' = Unlink(queue, r)
                   /\ Call(<<>>) /\ UNCHANGED conn
    /\ UNCHANGED <<pool, worker, ret, errno, faults>>

Serving(c) == conn[c].req # NoReq
Answering(c) == Serving(c) /\ conn[c].st = "PROCESSING" /\ req[conn[c].req].hec # "begin"
InBody(c) == req[conn[c].req].hdr # "none"
Handler(c, frames) == Call(frames \o <<Frame("onEventDone", c, NoReq, 0)>>)

\* ExtConn::onWrite(): a connect that finishes, or room for the rest of the request.
OnWrite(c) ==
    /\ \/ conn[c].st = "CONNECTING"
       \/ conn[c].st = "PROCESSING" /\ Serving(c) /\ req[conn[c].req].hec = "fwd"
    /\ conn' = [conn EXCEPT ![c].st = "PROCESSING"]
    /\ Handler(c, <<Frame("doWrite", c, NoReq, 0)>>)
    /\ UNCHANGED <<req, lists, ret, errno, faults>>

\* onInitConnected() fails, or the connection is still pending after two seconds.
OnConnectFail(c) ==
    /\ conn[c].st = "CONNECTING" /\ Fault
    /\ \E e \in AsyncErrnos : Handler(c, <<Frame("connError", c, NoReq, e)>>)
    /\ UNCHANGED <<conn, req, lists, ret, errno>>

\* ProxyConn::processResp(): the header of the response is complete; with
\* "Connection: close" the connection will not be kept.
OnRespHeader(c, close) ==
    /\ stack = <<>> /\ Answering(c) /\ req[conn[c].req].hdr = "none"
    /\ req' = [req EXCEPT ![conn[c].req].hdr = IF close THEN "close" ELSE "ok"]
    /\ IF close /\ ~conn[c].toClose
       THEN /\ conn' = [conn EXCEPT ![c].toClose = TRUE]
            /\ worker' = [worker EXCEPT !.linger = @ + 1]
       ELSE UNCHANGED <<conn, worker>>
    /\ UNCHANGED <<pool, queue, stack, ret, errno, faults>>

\* A header that cannot be parsed, or is too long: the request fails with 500 and the
\* handler returns -1, so that onRead() calls connError() with whatever errno holds.
\* A header too long aborts the request and ends the response first.
OnBadHeader(c, tooLong) ==
    /\ Answering(c) /\ req[conn[c].req].hdr = "none" /\ Fault
    /\ LET r == conn[c].req
           abort == IF tooLong THEN [req[r] EXCEPT !.abort = TRUE] ELSE req[r]
       IN  /\ req' = [req EXCEPT ![r] = ErrResponse(abort, 500)]
           /\ conn' = IF tooLong THEN [conn EXCEPT ![c].st = "ABORT", ![c].used = TRUE] ELSE conn
           /\ \E e \in Errnos :
                Handler(c, (IF tooLong THEN <<Frame("endResponse", NoConn, r, 0)>> ELSE <<>>)
                           \o <<Frame("connError", c, NoReq, e)>>)
    /\ UNCHANGED <<lists, ret, errno>>
\* Mutant: setInProcess(0) is forgotten at the end of the body.
OnRespDone_Bug(c) ==
    /\ Answering(c) /\ InBody(c)
    /\ conn' = [conn EXCEPT ![c].used = TRUE]
    /\ Handler(c, <<Frame("endResponse", NoConn, conn[c].req, 0), Frame("return", NoConn, NoReq, 0)>>)
    /\ UNCHANGED <<req, lists, ret, errno, faults>>

\* ProxyConn::readRespBody(): the body is complete.
OnRespDone(c) ==
    /\ Answering(c) /\ InBody(c)
    /\ conn' = [conn EXCEPT ![c].used = TRUE, ![c].inProcess = FALSE,
                            ![c].st = IF req[conn[c].req].hdr = "close" THEN "CLOSING" ELSE @]
    /\ Handler(c, <<Frame("endResponse", NoConn, conn[c].req, 0), Frame("return", NoConn, NoReq, 0)>>)
    /\ UNCHANGED <<req, lists, ret, errno, faults>>

\* The peer resets the connection in the middle of the body: the response ends as
\* aborted, and -1 is returned to onRead() all the same.
OnBodyReset(c) ==
    /\ Answering(c) /\ InBody(c) /\ Fault
    /\ conn' = [conn EXCEPT ![c].used = TRUE, ![c].inProcess = FALSE]
    /\ req' = [req EXCEPT ![conn[c].req].abort = TRUE]
    /\ \E e \in Errnos : Handler(c, <<Frame("endResponse", NoConn, conn[c].req, 0),
                                      Frame("connError", c, NoReq, e)>>)
    /\ UNCHANGED <<lists, ret, errno>>

\* A read fails before the body, or in it with another error than a reset; an idle
\* connection that becomes readable was closed by the peer.
OnReadFail(c) ==
    /\ conn[c].st = "PROCESSING" /\ c \in pool.conn /\ Fault
    /\ \E e \in IoErrnos :
         /\ ~Serving(c) => e = "reset"
         /\ Answering(c) /\ InBody(c) => e # "reset"
         /\ Handler(c, <<Frame("connError", c, NoReq, e)>>)
    /\ UNCHANGED <<conn, req, lists, ret, errno>>

\* ExtConn::onError() and ProxyConn::doError(); the handler returns -1, so
\* onEventDone() is not called.
OnError(c) ==
    /\ conn[c].st \in {"CONNECTING", "PROCESSING"} /\ Fault
    /\ conn' = [conn EXCEPT ![c].st = "CLOSING"]
    /\ LET r == conn[c].req
       IN  IF r = NoReq THEN Call(<<>>)
           ELSE IF ~(req[r].abort \/ req[r].err \/ req[r].complete)
           THEN \E e \in IoErrnos \cup AsyncErrnos : Call(<<Frame("connError", c, NoReq, e)>>)
           ELSE Call(IF req[r].complete THEN <<>> ELSE <<Frame("endResponse", NoConn, r, 0)>>)
    /\ UNCHANGED <<req, lists, ret, errno>>

\* ExtConn::onSecTimer() on a kept connection that was idle for too long.
OnIdleTimeout(c) ==
    /\ stack = <<>> /\ c \in pool.conn /\ conn[c].st = "PROCESSING" /\ ~Serving(c)
    /\ conn' = [conn EXCEPT ![c] = Closed(@)]
    /\ pool' = RemoveConn(pool, c)
    /\ UNCHANGED <<req, worker, queue, stack, ret, errno, faults>>

\* ProxyConn::onTimer(): a chunked body that stopped.
OnChunkTimeout(c, st) ==
    /\ Answering(c) /\ InBody(c) /\ Fault
    /\ conn' = [conn EXCEPT ![c].st = st]
    /\ Call(<<Frame("endResponse", NoConn, conn[c].req, 0)>>)
    /\ UNCHANGED <<req, lists, ret, errno>>

InUse(p) == Cardinality(p.conn) - Len(p.free)
\* Mutant: the timer looks at the queue only when it can raise the maximum.
ResetStats_Bug ==
    /\ Call(<<Frame("resetStats2", NoConn, NoReq, 0)>>)
    /\ UNCHANGED <<conn, lists, req, ret, errno, faults>>

\* ExtWorker::resetStats(), the worker's timer.
ResetStats ==
    /\ LET done == <<Frame("resetStats2", NoConn, NoReq, 0)>>
           pending == <<Frame("processPending", NoConn, NoReq, 0)>> \o done
       IN  IF worker.st = "BAD"
           THEN IF worker.errRecent
                THEN Call(done) /\ UNCHANGED <<conn, pool, worker>>
                ELSE /\ worker' = [worker EXCEPT !.st = "NOTSTARTED", !.errors = 0, !.restartRecent = TRUE,
                                                 !.linger = @ + ClearLinger(conn, pool)]
                     /\ conn' = ClearConns(conn, pool) /\ pool' = DropFree(pool)
                     /\ Call(pending)
           ELSE /\ UNCHANGED <<conn, worker>>
                /\ IF CfgMaxConns > pool.max /\ queue # <<>> /\ ~worker.errRecent
                   THEN pool' = [pool EXCEPT !.max = @ + 1] /\ Call(pending)
                   ELSE /\ Call(IF queue # <<>> /\ pool.max > InUse(pool) THEN pending ELSE done)
                        /\ UNCHANGED pool
    /\ UNCHANGED <<queue, req, ret, errno, faults>>

\* ... an idle worker is stopped (LocalWorker::stop()) once it was idle long enough.
ResetStats2 ==
    /\ Top("resetStats2")
    /\ stack' = Tail(stack)
    /\ \/ UNCHANGED <<conn, pool, worker>>
       \/ /\ worker.st = "GOOD" /\ InUse(pool) = 0
          /\ worker' = [worker EXCEPT !.st = "NOTSTARTED"]
          /\ conn' = ClearConns(conn, pool) /\ pool' = DropFree(pool)
    /\ UNCHANGED <<queue, req, ret, errno, faults>>

\* Time passes: an error or a restart is no longer recent.
Age ==
    /\ Call(<<>>) /\ (worker.errRecent \/ worker.restartRecent)
    /\ worker' = [worker EXCEPT !.errRecent = FALSE, !.restartRecent = FALSE]
    /\ UNCHANGED <<conn, pool, queue, req, ret, errno, faults>>

-----------------------------------------------------------------------------
Step == \/ ProcessRequest \/ ProcessRequest2 \/ ReturnValue \/ RecycleConn \/ RecycleLoop
        \/ RecycleLoop2 \/ ProcessPending \/ ProcessPending2 \/ AssignReq \/ AssignReq2
        \/ ConnectEx \/ DoWrite \/ ConnError \/ ConnError2 \/ ConnectionError
        \/ ConnectionError2 \/ FailOutstandingReqs \/ TryRecover \/ TryRecover2
        \/ EndResponse \/ OnEventDone \/ Process \/ ResetStats2

ConnEvent(c) ==
    \/ OnWrite(c) \/ OnConnectFail(c) \/ OnReadFail(c) \/ OnBodyReset(c) \/ OnError(c)
    \/ OnIdleTimeout(c) \/ OnRespDone(c)
    \/ \E b \in BOOLEAN : OnRespHeader(c, b) \/ OnBadHeader(c, b)
    \/ \E st \in {"ABORT", "CLOSING"} : OnChunkTimeout(c, st)

Next ==
    \/ Step
    \/ \E c \in Conns : ConnEvent(c)
    \/ \E r \in Reqs : NewRequest(r) \/ ClientGone(r) \/ CleanUp(r)
    \/ ResetStats
    \/ Age

Spec == Init /\ [][Next]_vars

\* The event loop runs every handler to its end; between two handlers it serves every
\* descriptor that is ready and every timer that is due, hence strong fairness for
\* what is enabled whenever no handler runs.  A backend that has stopped failing
\* answers; a session that has its answer is cleaned up.
Fairness ==
    /\ WF_vars(Step) /\ SF_vars(ResetStats) /\ SF_vars(Age)
    /\ \A c \in Conns :
         SF_vars(OnWrite(c) \/ OnRespDone(c) \/ \E b \in BOOLEAN : OnRespHeader(c, b))
    /\ SF_vars(\E r \in Reqs : CleanUp(r))

FairSpec == Spec /\ Fairness

-----------------------------------------------------------------------------
(* Properties. *)

NoDuplicates(s) == Cardinality(ToSet(s)) = Len(s)

\* ConnPool's lists agree whatever re-enters them: no connection is free twice or
\* free and bad, none is lost, no more are live than the effective maximum, and the
\* lists never outgrow the room start() reserved for unsafe_push_back().
ListsConsistent ==
    /\ NoDuplicates(pool.free) /\ NoDuplicates(pool.bad)
    /\ ToSet(pool.free) \subseteq pool.conn
    /\ pool.conn \cap ToSet(pool.bad) = {}
    /\ pool.created = pool.conn \cup ToSet(pool.bad)
    /\ Cardinality(pool.conn) <= pool.max
    /\ pool.max <= CfgMaxConns /\ Cardinality(pool.created) <= CfgMaxConns

\* A request waits in the queue once, or is on one connection that points back to
\* it; a connection that is free or bad carries none.
RequestInOnePlace ==
    /\ NoDuplicates(queue)
    /\ \A r \in ToSet(queue) : req[r].st = "active" /\ req[r].proc = NoConn
    /\ \A c \in Conns, r \in Reqs : (conn[c].req = r) <=> (req[r].proc = c)
    /\ \A c \in ToSet(pool.free) \cup ToSet(pool.bad) : ~Serving(c)

\* Between events, a request whose client waits for an answer is in the queue or on
\* a connection: no path of errors and retries drops it silently.
NobodyForgotten ==
    stack = <<>> =>
        \A r \in Reqs : req[r].st = "active" /\ req[r].alive /\ req[r].out = 0
                          => r \in ToSet(queue) \/ req[r].proc # NoConn

\* The assert of ExtConn::assignReq(): no exchange is under way on the connection;
\* and the one FcgiConnection::removeRequest() has as a comment: a caller that takes
\* its request back after a failed assignReq() takes its own.
AssignsAtRest ==
    /\ Top("assignReq") => \/ conn[top.c].st \in {"ABORT", "CLOSING"}
                           \/ ~conn[top.c].inProcess /\ ~Serving(top.c)
    /\ \A fn \in {"processRequest2", "recycleLoop2", "processPending2"} :
         Top(fn) /\ ret # 0 /\ Serving(top.c) => conn[top.c].req = top.r

\* Once the failures stop, every request is answered, with a response or an error,
\* or its client has left.
Answered ==
    \A r \in Reqs : req[r].st = "active" ~> req[r].st = "over"
=============================================================================
