-------------------------- MODULE SslAsyncHandshake --------------------------
(***************************************************************************)
(* TLS handshakes of accepted connections: NtwkIOLink's event handlers on  *)
(* the event loop, and SslAsyncHandshake, which hands SSL_do_handshake()   *)
(* to a crew of worker threads when the option sslAsyncHandshake is on.    *)
(* The crew is taken at its word: it is the JobPool that WorkCrew          *)
(* implements.                                                             *)
(*                                                                         *)
(* SSL_do_handshake() takes two steps, entering and leaving, so that two   *)
(* threads can be seen inside it.  It reads the flights the peer has sent; *)
(* after `Flights' of them the handshake is complete.  The multiplexer     *)
(* (epoll without EPOLLET) is level-triggered: a reactor whose mask has    *)
(* POLLIN is called as long as there is something to read.                 *)
(*                                                                         *)
(* processCompletedJobs() and shutdown() are called nowhere in the         *)
(* program, so no action stands for them.                                  *)
(***************************************************************************)
EXTENDS Integers, FiniteSets, JobPool

CONSTANTS Links,       \* NtwkIOLink objects, recycled from connection to connection
          NULL,
          Flights,     \* flights of the peer that a handshake takes
          MaxConns,    \* bound: connections that one link carries in turn
          NumWorkers,  \* threads of the crew
          Enabled      \* SslAsyncHandshake::isEnabled()

ASSUME HandshakeAssumption ==
    /\ Flights \in Nat \ {0}
    /\ MaxConns \in Nat
    /\ NumWorkers \in Nat \ {0}
    /\ Enabled \in BOOLEAN
    /\ NULL \notin Links

VARIABLES
    conn,       \* link -> how many connections it has carried, this one included
    isOpen,     \* link -> it has a socket and an SSL object
    m_iStatus,  \* link -> SslConnection::m_iStatus
    m_iWant,    \* link -> SslConnection::m_iWant, WANT_READ and WANT_WRITE
    asyncFlag,  \* link -> SslConnection::F_ASYNC_HANDSHAKE
    mask,       \* link -> POLLIN and POLLOUT in its multiplexer mask
    hasHandler, \* link -> sslSetupHandler() has attached a handler
    sent,       \* link -> flights the peer has sent
    progress,   \* link -> flights that SSL has read
    loopIn,     \* the link whose SSL_do_handshake the event loop is in, or NULL
    jobLink,    \* job -> m_pIOLink, or NULL before it is allocated
    jobConn,    \* job -> the connection the link carried when it was queued
    jobResult   \* job -> m_iResult, once there is one

linkVars == <<conn, isOpen, m_iStatus, m_iWant, asyncFlag, mask, hasHandler>>
peerVars == <<sent, progress>>
jobVars  == <<jobLink, jobConn, jobResult>>
vars == <<linkVars, peerVars, loopIn, jobVars, poolVars>>

TypeOK ==
    /\ PoolTypeOK
    /\ conn \in [Links -> 0 .. MaxConns]
    /\ isOpen \in [Links -> BOOLEAN]
    /\ m_iStatus \in [Links -> {"DISCONNECTED", "ACCEPTING", "CONNECTED"}]
    /\ m_iWant \in [Links -> SUBSET {"R", "W"}]
    /\ asyncFlag \in [Links -> BOOLEAN]
    /\ mask \in [Links -> SUBSET {"R", "W"}]
    /\ hasHandler \in [Links -> BOOLEAN]
    /\ sent \in [Links -> 0 .. Flights + 1]
    /\ progress \in [Links -> 0 .. Flights]
    /\ loopIn \in Links \cup {NULL}
    /\ jobLink \in [Jobs -> Links \cup {NULL}]
    /\ jobConn \in [Jobs -> 0 .. MaxConns]
    /\ jobResult \in [Jobs -> {"none", "done", "again", "error"}]
    /\ \A j \in Known : jobLink[j] \in Links

Init ==
    /\ PoolInit
    /\ conn = [l \in Links |-> 0]
    /\ isOpen = [l \in Links |-> FALSE]
    /\ m_iStatus = [l \in Links |-> "DISCONNECTED"]
    /\ m_iWant = [l \in Links |-> {}]
    /\ asyncFlag = [l \in Links |-> FALSE]
    /\ mask = [l \in Links |-> {}]
    /\ hasHandler = [l \in Links |-> FALSE]
    /\ sent = [l \in Links |-> 0]
    /\ progress = [l \in Links |-> 0]
    /\ loopIn = NULL
    /\ jobLink = [j \in Jobs |-> NULL]
    /\ jobConn = [j \in Jobs |-> 0]
    /\ jobResult = [j \in Jobs |-> "none"]

-----------------------------------------------------------------------------
(***************************************************************************)
(* The peer and the TLS library.                                           *)
(***************************************************************************)

\* The peer sends its next flight when the last one was answered, and its
\* first request when the handshake is complete.
PeerSends(l) ==
    /\ isOpen[l]
    /\ sent[l] = progress[l]
    /\ sent' = [sent EXCEPT ![l] = @ + 1]
    /\ UNCHANGED <<linkVars, progress, loopIn, jobVars, poolVars>>

Readable(l) == sent[l] > progress[l]

\* What SSL_do_handshake() may come back with, the flights read by then: an
\* error is always possible, a full socket buffer too, also for the answer to
\* the last flight.
HandshakeOutcome(l, read, result, want) ==
    /\ read = IF sent[l] < Flights THEN sent[l] ELSE Flights
    /\ \/ result = "done" /\ read = Flights /\ want = {}
       \/ result = "again" /\ read < Flights /\ want = {"R"}
       \/ result = "again" /\ want = {"W"}
       \/ result = "error" /\ want = {}

-----------------------------------------------------------------------------
(***************************************************************************)
(* The event loop.                                                         *)
(***************************************************************************)

\* setLink(): a new connection on a recycled link; setSSL() clears the flags,
\* toAccept() wants to read
setLink(l) ==
    /\ loopIn = NULL
    /\ ~isOpen[l]
    /\ conn[l] < MaxConns
    /\ conn' = [conn EXCEPT ![l] = @ + 1]
    /\ isOpen' = [isOpen EXCEPT ![l] = TRUE]
    /\ m_iStatus' = [m_iStatus EXCEPT ![l] = "ACCEPTING"]
    /\ m_iWant' = [m_iWant EXCEPT ![l] = {"R"}]
    /\ asyncFlag' = [asyncFlag EXCEPT ![l] = FALSE]
    /\ mask' = [mask EXCEPT ![l] = {"R"}]
    /\ hasHandler' = [hasHandler EXCEPT ![l] = FALSE]
    /\ sent' = [sent EXCEPT ![l] = 0]
    /\ progress' = [progress EXCEPT ![l] = 0]
    /\ UNCHANGED <<loopIn, jobVars, poolVars>>

\* shutdownSsl() and closeSocket(): the SSL object is freed, the link recycled
Close_(l) ==
    /\ isOpen' = [isOpen EXCEPT ![l] = FALSE]
    /\ m_iStatus' = [m_iStatus EXCEPT ![l] = "DISCONNECTED"]
    /\ m_iWant' = [m_iWant EXCEPT ![l] = {}]
    /\ asyncFlag' = [asyncFlag EXCEPT ![l] = FALSE]
    /\ mask' = [mask EXCEPT ![l] = {}]
    /\ hasHandler' = [hasHandler EXCEPT ![l] = FALSE]
    /\ UNCHANGED conn

\* setSSLAgain(): the mask follows m_iWant, and SSL output that is still in the
\* buffer asks for POLLOUT (no handler is attached yet, so neither
\* HIO_FLAG_WANT_READ nor HIO_FLAG_WANT_WRITE is set)
setSSLAgain_Bug(l, want, wpending) == IF asyncFlag'[l] THEN {} ELSE want
setSSLAgain(l, want, wpending) == want \cup (IF wpending THEN {"W"} ELSE {})

isEnabled == Enabled

\* accept() and SSLAgain(): SSL_do_handshake() returned 1
Accepted_Bug(result) == result # "error"
Accepted(result) == result = "done"

\* onTimer(): a handshake that takes ten seconds is to be given up, however
\* far it came
HandshakeTimeout_Bug(l) == isOpen[l] /\ m_iStatus[l] = "ACCEPTING" /\ sent[l] > 0
HandshakeTimeout(l) == isOpen[l] /\ m_iStatus[l] = "ACCEPTING"

\* queueHandshake(): suspends both events and adds the job
queueHandshake_Bug(l, j) ==
    /\ jobLink[j] = NULL
    /\ Accept(j)
    /\ UNCHANGED jobVars
queueHandshake(l, j) ==
    /\ jobLink[j] = NULL
    /\ Accept(j)
    /\ jobLink' = [jobLink EXCEPT ![j] = l]
    /\ jobConn' = [jobConn EXCEPT ![j] = conn[l]]
    /\ UNCHANGED jobResult

\* acceptSSL() of a connection with no job on its way: tryAsyncSSLAccept()
\* succeeds and SSLAgain() goes on to setSSLAgain(), which sets the mask again
AcceptAsync(l) ==
    /\ isEnabled
    /\ ~asyncFlag[l]
    /\ \E j \in Jobs : queueHandshake(l, j)
    /\ asyncFlag' = [asyncFlag EXCEPT ![l] = TRUE]
    /\ \E wpending \in BOOLEAN :
          mask' = [mask EXCEPT ![l] = setSSLAgain(l, m_iWant[l], wpending)]
    /\ UNCHANGED <<conn, isOpen, m_iStatus, m_iWant, hasHandler, peerVars,
                   loopIn>>

\* acceptSSL() otherwise: async is off, the job could not be allocated (there
\* are no Jobs left), or a job is on its way already.  The flag is cleared and
\* SSL_do_handshake() is entered on the event loop.
AcceptSync(l) ==
    /\ \/ ~isEnabled
       \/ asyncFlag[l]
       \/ \A j \in Jobs : jobLink[j] # NULL
    /\ asyncFlag' = [asyncFlag EXCEPT ![l] = FALSE]
    /\ loopIn' = l
    /\ UNCHANGED <<conn, isOpen, m_iStatus, m_iWant, mask, hasHandler,
                   peerVars, jobVars, poolVars>>

\* onReadSSL() and onWriteSSL() before the connection is CONNECTED: SSLAgain()
SSLAgain(l) ==
    /\ loopIn = NULL
    /\ m_iStatus[l] = "ACCEPTING"
    /\ \/ "R" \in mask[l] /\ Readable(l)
       \/ "W" \in mask[l] /\ "W" \in m_iWant[l]
    /\ AcceptAsync(l) \/ AcceptSync(l)

\* SslConnection::accept() returns on the event loop and acceptSSL(),
\* SSLAgain() and handleEvents() finish with its result
AcceptReturns(l) ==
    /\ loopIn = l
    /\ loopIn' = NULL
    /\ \E read \in 0 .. Flights, result \in {"done", "again", "error"},
          want \in SUBSET {"R", "W"} :
          /\ HandshakeOutcome(l, read, result, want)
          /\ progress' = [progress EXCEPT ![l] = read]
          /\ \/ /\ Accepted(result)
                /\ m_iStatus' = [m_iStatus EXCEPT ![l] = "CONNECTED"]
                /\ m_iWant' = [m_iWant EXCEPT ![l] = {"R"}]
                /\ hasHandler' = [hasHandler EXCEPT ![l] = TRUE]
                /\ mask' = [mask EXCEPT ![l] = {"R"}]
                /\ UNCHANGED <<conn, isOpen, asyncFlag>>
             \/ /\ ~Accepted(result) /\ result = "again"
                /\ m_iWant' = [m_iWant EXCEPT ![l] = @ \cup want]
                /\ \E wpending \in BOOLEAN :
                      mask' = [mask EXCEPT ![l] = setSSLAgain(l, m_iWant'[l], wpending)]
                /\ UNCHANGED <<conn, isOpen, m_iStatus, asyncFlag, hasHandler>>
             \/ \* an error, or sslSetupHandler() refuses a client over its limits
                /\ result \in {"error", "done"}
                /\ Close_(l)
    /\ UNCHANGED <<sent, jobVars, poolVars>>

\* onWriteSSL() when SSL itself does not want to write: the buffered output is
\* flushed and POLLOUT is off again, or the flush fails
flushSslWpending(l) ==
    /\ loopIn = NULL
    /\ m_iStatus[l] = "ACCEPTING"
    /\ "W" \in mask[l] \ m_iWant[l]
    /\ \/ /\ mask' = [mask EXCEPT ![l] = @ \ {"W"}]
          /\ UNCHANGED <<conn, isOpen, m_iStatus, m_iWant, asyncFlag, hasHandler>>
       \/ Close_(l)
    /\ UNCHANGED <<peerVars, loopIn, jobVars, poolVars>>

\* POLLHUP or POLLERR: onPeerClose()
onPeerClose(l) ==
    /\ loopIn = NULL
    /\ isOpen[l]
    /\ Close_(l)
    /\ UNCHANGED <<peerVars, loopIn, jobVars, poolVars>>

\* onTimer(), when a handshake has timed out: closeSSL() and closeSocket()
onTimer(l) ==
    /\ loopIn = NULL
    /\ HandshakeTimeout(l)
    /\ Close_(l)
    /\ UNCHANGED <<peerVars, loopIn, jobVars, poolVars>>
-----------------------------------------------------------------------------
(***************************************************************************)
(* A worker thread: handshakeWorkerFn().                                   *)
(***************************************************************************)

\* It takes a job; without an SSL object the result is an error at once
WorkerTakes(j) ==
    /\ Cardinality(processing) < NumWorkers
    /\ Take(j)
    /\ jobResult' = IF isOpen[jobLink[j]] THEN jobResult
                    ELSE [jobResult EXCEPT ![j] = "error"]
    /\ UNCHANGED <<linkVars, peerVars, loopIn, jobLink, jobConn>>

\* SSL_do_handshake() returns and the job goes to the finished queue.  Only the
\* job learns the result: m_iStatus and m_iWant stay as they are.  If the SSL
\* object was freed meanwhile the call may come back with anything.
WorkerReturns(j) ==
    /\ Complete(j)
    /\ LET l == jobLink[j] IN
       \/ /\ jobResult[j] = "error"
          /\ UNCHANGED <<jobResult, progress>>
       \/ /\ jobResult[j] = "none"
          /\ isOpen[l]
          /\ \E read \in 0 .. Flights, result \in {"done", "again", "error"},
                want \in SUBSET {"R", "W"} :
                /\ HandshakeOutcome(l, read, result, want)
                /\ progress' = [progress EXCEPT ![l] = read]
                /\ jobResult' = [jobResult EXCEPT ![j] = result]
       \/ /\ jobResult[j] = "none"
          /\ ~isOpen[l]
          /\ \E result \in {"done", "again", "error"} :
                jobResult' = [jobResult EXCEPT ![j] = result]
          /\ UNCHANGED progress
    /\ UNCHANGED <<linkVars, sent, loopIn, jobLink, jobConn>>

LoopStep(l) == SSLAgain(l) \/ AcceptReturns(l) \/ flushSslWpending(l)
WorkerStep(j) == WorkerTakes(j) \/ WorkerReturns(j)

Next ==
    \/ \E l \in Links : PeerSends(l) \/ setLink(l) \/ LoopStep(l)
                        \/ onPeerClose(l) \/ onTimer(l)
    \/ \E j \in Jobs : WorkerStep(j)

Spec == Init /\ [][Next]_vars

\* The event loop serves the events of its links, and worker threads are
\* scheduled.  Timers are run by SIGALRM's handler task between two events,
\* however busy the loop is, so a timer that is due again and again is run:
\* strong fairness.  The peer owes nothing.
Fairness ==
    /\ \A l \in Links : WF_vars(LoopStep(l)) /\ SF_vars(onTimer(l))
    /\ \A j \in Jobs : WF_vars(WorkerStep(j))

FairSpec == Spec /\ Fairness

-----------------------------------------------------------------------------
(***************************************************************************)
(* Properties.                                                             *)
(***************************************************************************)

\* the threads inside SSL_do_handshake() of a link
InHandshake(l) ==
    {j \in processing : jobLink[j] = l /\ jobResult[j] = "none"}
        \cup (IF loopIn = l THEN {NULL} ELSE {})

\* A worker in SSL_do_handshake() has the connection for itself: the event loop, whose
\* events queueHandshake() suspended, is not in the same SSL object, no other worker is,
\* and the link was not closed, nor recycled for another connection, since the job was
\* queued.
WorkerOwnsConnection ==
    /\ \A l \in Links : Cardinality(InHandshake(l)) <= 1
    /\ \A j \in processing : jobResult[j] = "none" =>
          isOpen[jobLink[j]] /\ conn[jobLink[j]] = jobConn[j]

\* the jobs that will use a link or are using it
JobsOf(l) == {j \in pending \cup processing : jobLink[j] = l}

\* queueHandshake() suspends a link's events and nobody calls processCompletedJobs(),
\* which is to resume them; even so a handshake that no worker has or will have is
\* not forgotten: once the worker is through, and the event loop is not in the
\* handshake itself, the loop hears of the peer's next flight.
NoLostWakeup ==
    \A l \in Links :
        m_iStatus[l] = "ACCEPTING" /\ loopIn # l /\ JobsOf(l) = {} => "R" \in mask[l]

\* A protocol handler is attached to a connection only when every flight of its
\* handshake was read, and nothing but a CONNECTED link has one.
HandlerAfterHandshake ==
    \A l \in Links : hasHandler[l] => progress[l] = Flights /\ m_iStatus[l] = "CONNECTED"

\* Every connection's handshake comes to an end: it is CONNECTED or closed.
HandshakeEnds ==
    \A l \in Links : m_iStatus[l] = "ACCEPTING" ~> m_iStatus[l] # "ACCEPTING"

=============================================================================
