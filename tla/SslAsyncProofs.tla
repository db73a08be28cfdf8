--------------------------- MODULE SslAsyncProofs ---------------------------
(***************************************************************************)
(* Proofs about SslAsyncHandshake, for any number of links, jobs, worker   *)
(* threads and flights, with the option sslAsyncHandshake on or off.       *)
(*                                                                         *)
(* HandshakeInv is the inductive invariant.  NoLostWakeup needs to know    *)
(* that a link in its handshake wants to read (the mask is copied from     *)
(* m_iWant by setSSLAgain()), and that the event loop is in the handshake  *)
(* of no other link than one that is ACCEPTING.  HandlerAfterHandshake     *)
(* needs that a late worker cannot take a CONNECTED link's progress back:  *)
(* SSL never has read more than was sent, so by then all was sent.         *)
(***************************************************************************)
EXTENDS SslAsyncHandshake, TLAPS

USE HandshakeAssumption

\* A link that is in its handshake waits for the peer: SslConnection wants to
\* read, and the multiplexer was told so.
WantsRead ==
    \A l \in Links : m_iStatus[l] = "ACCEPTING" => "R" \in m_iWant[l] /\ "R" \in mask[l]

\* The link has a socket exactly as long as its SSL object is in use.
OpenStatus == \A l \in Links : isOpen[l] <=> m_iStatus[l] # "DISCONNECTED"

\* The event loop is inside accept() only for a link in its handshake.
LoopAccepts == loopIn \in Links => m_iStatus[loopIn] = "ACCEPTING"

\* SSL reads what was sent; a CONNECTED link's handshake was read to its end.
ReadsWhatIsSent ==
    \A l \in Links :
        /\ progress[l] <= sent[l]
        /\ m_iStatus[l] = "CONNECTED" => progress[l] = Flights
        /\ hasHandler[l] => m_iStatus[l] = "CONNECTED"

HandshakeInv == TypeOK /\ WantsRead /\ OpenStatus /\ LoopAccepts /\ ReadsWhatIsSent

-----------------------------------------------------------------------------
(***************************************************************************)
(* Facts used by several actions.                                          *)
(***************************************************************************)

\* SSL_do_handshake() reads no more than was sent, and never unreads.
LEMMA OutcomeReads ==
    ASSUME HandshakeInv, NEW l \in Links, NEW read \in 0 .. Flights,
           NEW result, NEW want,
           HandshakeOutcome(l, read, result, want)
    PROVE  /\ progress[l] <= read /\ read <= sent[l]
           /\ result = "done" => read = Flights
  BY DEF HandshakeInv, TypeOK, ReadsWhatIsSent, HandshakeOutcome

\* setSSLAgain() sets a mask, with POLLIN when SSL wants to read.
LEMMA AgainMask ==
    ASSUME NEW l, NEW want \in SUBSET {"R", "W"}, NEW wpending \in BOOLEAN
    PROVE  /\ setSSLAgain(l, want, wpending) \in SUBSET {"R", "W"}
           /\ "R" \in want => "R" \in setSSLAgain(l, want, wpending)
  BY DEF setSSLAgain

\* Closing a link, whatever it was doing, leaves the facts about all links true.
LEMMA ClosePreserves ==
    ASSUME HandshakeInv, NEW l \in Links, Close_(l),
           loopIn' = NULL, UNCHANGED <<sent, jobVars, poolVars>>,
           progress' \in [Links -> 0 .. Flights],
           \A k \in Links : progress'[k] <= sent[k],
           \A k \in Links : k # l => progress'[k] = progress[k]
    PROVE  HandshakeInv'
<1> USE DEF HandshakeInv, Close_, jobVars, poolVars
<1>1. TypeOK'
  BY DEF TypeOK, PoolTypeOK, Known
<1>2. WantsRead'
  BY DEF TypeOK, WantsRead
<1>3. OpenStatus'
  BY DEF TypeOK, OpenStatus
<1>4. LoopAccepts'
  BY DEF LoopAccepts
<1>5. ReadsWhatIsSent'
  BY DEF TypeOK, ReadsWhatIsSent
<1> QED
  BY <1>1, <1>2, <1>3, <1>4, <1>5

-----------------------------------------------------------------------------
(***************************************************************************)
(* HandshakeInv is inductive.                                              *)
(***************************************************************************)

LEMMA HandshakeInit == Init => HandshakeInv
  BY DEF Init, PoolInit, HandshakeInv, TypeOK, PoolTypeOK, Known, WantsRead,
         OpenStatus, LoopAccepts, ReadsWhatIsSent

LEMMA PeerSendsStep ==
    ASSUME HandshakeInv, NEW l \in Links, PeerSends(l)
    PROVE  HandshakeInv'
<1> USE DEF HandshakeInv, PeerSends, linkVars, jobVars, poolVars
<1>1. TypeOK'
  BY DEF TypeOK, PoolTypeOK, Known
<1>2. WantsRead' /\ OpenStatus' /\ LoopAccepts'
  BY DEF WantsRead, OpenStatus, LoopAccepts
<1>3. ReadsWhatIsSent'
  BY DEF TypeOK, ReadsWhatIsSent
<1> QED
  BY <1>1, <1>2, <1>3

LEMMA SetLinkStep ==
    ASSUME HandshakeInv, NEW l \in Links, setLink(l)
    PROVE  HandshakeInv'
<1> USE DEF HandshakeInv, setLink, jobVars, poolVars
<1>1. TypeOK'
  BY DEF TypeOK, PoolTypeOK, Known
<1>2. WantsRead'
  BY DEF TypeOK, WantsRead
<1>3. OpenStatus'
  BY DEF TypeOK, OpenStatus
<1>4. LoopAccepts'
  BY DEF LoopAccepts
<1>5. ReadsWhatIsSent'
  BY DEF TypeOK, ReadsWhatIsSent
<1> QED
  BY <1>1, <1>2, <1>3, <1>4, <1>5

LEMMA AcceptAsyncStep ==
    ASSUME HandshakeInv, NEW l \in Links, AcceptAsync(l), m_iStatus[l] = "ACCEPTING"
    PROVE  HandshakeInv'
<1> USE DEF HandshakeInv, AcceptAsync, peerVars
<1>1. PICK j \in Jobs : queueHandshake(l, j)
  OBVIOUS
<1>a. PICK wpending \in BOOLEAN :
        mask' = [mask EXCEPT ![l] = setSSLAgain(l, m_iWant[l], wpending)]
  OBVIOUS
<1>b. PICK m \in SUBSET {"R", "W"} :
        mask' = [mask EXCEPT ![l] = m] /\ ("R" \in m_iWant[l] => "R" \in m)
  BY <1>a, AgainMask DEF TypeOK
<1>2. TypeOK'
  <2>1. PoolTypeOK' /\ Known' = Known \cup {j}
    BY <1>1 DEF TypeOK, PoolTypeOK, queueHandshake, Accept, Known
  <2>2. /\ jobLink' \in [Jobs -> Links \cup {NULL}]
        /\ jobConn' \in [Jobs -> 0 .. MaxConns]
        /\ jobResult' \in [Jobs -> {"none", "done", "again", "error"}]
    BY <1>1 DEF TypeOK, queueHandshake
  <2>3. \A i \in Known' : jobLink'[i] \in Links
    BY <1>1, <2>1 DEF TypeOK, PoolTypeOK, queueHandshake, Known
  <2> QED
    BY <1>b, <2>1, <2>2, <2>3 DEF TypeOK
<1>3. WantsRead'
  BY <1>b DEF TypeOK, WantsRead
<1>4. OpenStatus' /\ LoopAccepts' /\ ReadsWhatIsSent'
  BY DEF OpenStatus, LoopAccepts, ReadsWhatIsSent
<1> QED
  BY <1>2, <1>3, <1>4

LEMMA AcceptSyncStep ==
    ASSUME HandshakeInv, NEW l \in Links, AcceptSync(l), m_iStatus[l] = "ACCEPTING"
    PROVE  HandshakeInv'
<1> USE DEF HandshakeInv, AcceptSync, peerVars, jobVars, poolVars
<1>1. TypeOK'
  BY DEF TypeOK, PoolTypeOK, Known
<1>2. WantsRead' /\ OpenStatus' /\ LoopAccepts' /\ ReadsWhatIsSent'
  BY DEF WantsRead, OpenStatus, LoopAccepts, ReadsWhatIsSent
<1> QED
  BY <1>1, <1>2

LEMMA AcceptReturnsStep ==
    ASSUME HandshakeInv, NEW l \in Links, AcceptReturns(l)
    PROVE  HandshakeInv'
<1> USE DEF HandshakeInv
<1>1. PICK read \in 0 .. Flights, result \in {"done", "again", "error"},
           want \in SUBSET {"R", "W"} :
          /\ HandshakeOutcome(l, read, result, want)
          /\ progress' = [progress EXCEPT ![l] = read]
          /\ \/ /\ Accepted(result)
                /\ m_iStatus' = [m_iStatus EXCEPT ![l] = "CONNECTED"]
                /\ m_iWant' = [m_iWant EXCEPT ![l] = {"R"}]
                /\ hasHandler' = [hasHandler EXCEPT ![l] = TRUE]
                /\ mask' = [mask EXCEPT ![l] = {"R"}]
                /\ UNCHANGED <<conn, isOpen, asyncFlag>>
             \/ /\ ~Accepted(result) /\ result = "again"
                /\ m_iWant' = [m_iWant EXCEPT ![l] = @ \cup want]
                /\ \E wpending \in BOOLEAN :
                      mask' = [mask EXCEPT ![l] = setSSLAgain(l, m_iWant'[l], wpending)]
                /\ UNCHANGED <<conn, isOpen, m_iStatus, asyncFlag, hasHandler>>
             \/ /\ result \in {"error", "done"}
                /\ Close_(l)
  BY DEF AcceptReturns
<1>2. loopIn = l /\ loopIn' = NULL /\ UNCHANGED <<sent, jobVars, poolVars>>
  BY DEF AcceptReturns
<1>3. m_iStatus[l] = "ACCEPTING"
  BY <1>2 DEF LoopAccepts
<1>4. progress[l] <= read /\ read <= sent[l] /\ (result = "done" => read = Flights)
  BY <1>1, OutcomeReads
<1>5. progress' \in [Links -> 0 .. Flights]
  BY <1>1 DEF TypeOK
<1>6. \A k \in Links : progress'[k] <= sent[k] /\ (k # l => progress'[k] = progress[k])
  BY <1>1, <1>4 DEF TypeOK, ReadsWhatIsSent
<1>7. PoolTypeOK' /\ Known' = Known
  BY <1>2 DEF TypeOK, PoolTypeOK, Known, poolVars
<1>8. CASE /\ Accepted(result)
           /\ m_iStatus' = [m_iStatus EXCEPT ![l] = "CONNECTED"]
           /\ m_iWant' = [m_iWant EXCEPT ![l] = {"R"}]
           /\ hasHandler' = [hasHandler EXCEPT ![l] = TRUE]
           /\ mask' = [mask EXCEPT ![l] = {"R"}]
           /\ UNCHANGED <<conn, isOpen, asyncFlag>>
  <2>1. TypeOK'
    BY <1>2, <1>5, <1>7, <1>8 DEF TypeOK, jobVars
  <2>2. WantsRead'
    BY <1>8 DEF TypeOK, WantsRead
  <2>3. OpenStatus'
    BY <1>3, <1>8 DEF TypeOK, OpenStatus
  <2>4. LoopAccepts'
    BY <1>2 DEF LoopAccepts
  <2>5. progress'[l] = Flights
    BY <1>1, <1>4, <1>8 DEF TypeOK, Accepted
  <2>6. ReadsWhatIsSent'
    BY <1>2, <1>6, <1>8, <2>5 DEF TypeOK, ReadsWhatIsSent
  <2> QED
    BY <2>1, <2>2, <2>3, <2>4, <2>6
<1>9. CASE /\ ~Accepted(result) /\ result = "again"
           /\ m_iWant' = [m_iWant EXCEPT ![l] = @ \cup want]
           /\ \E wpending \in BOOLEAN :
                 mask' = [mask EXCEPT ![l] = setSSLAgain(l, m_iWant'[l], wpending)]
           /\ UNCHANGED <<conn, isOpen, m_iStatus, asyncFlag, hasHandler>>
  <2>a. PICK wpending \in BOOLEAN :
          mask' = [mask EXCEPT ![l] = setSSLAgain(l, m_iWant'[l], wpending)]
    BY <1>9
  <2>b. m_iWant' \in [Links -> SUBSET {"R", "W"}]
    BY <1>9 DEF TypeOK
  <2>c. PICK m \in SUBSET {"R", "W"} :
          mask' = [mask EXCEPT ![l] = m] /\ ("R" \in m_iWant'[l] => "R" \in m)
    BY <2>a, <2>b, AgainMask DEF TypeOK
  <2>1. TypeOK'
    BY <1>2, <1>5, <1>7, <1>9, <2>b, <2>c DEF TypeOK, jobVars
  <2>2. WantsRead'
    BY <1>9, <2>c DEF TypeOK, WantsRead
  <2>3. OpenStatus' /\ LoopAccepts'
    BY <1>2, <1>9 DEF OpenStatus, LoopAccepts
  <2>4. ReadsWhatIsSent'
    BY <1>2, <1>3, <1>6, <1>9 DEF TypeOK, ReadsWhatIsSent
  <2> QED
    BY <2>1, <2>2, <2>3, <2>4
<1>10. CASE result \in {"error", "done"} /\ Close_(l)
  BY <1>2, <1>5, <1>6, <1>10, ClosePreserves
<1> QED
  BY <1>1, <1>8, <1>9, <1>10

\* onPeerClose() and onTimer(): the loop closes a link between two events.
LEMMA CloseStep ==
    ASSUME HandshakeInv, NEW l \in Links, onPeerClose(l) \/ onTimer(l)
    PROVE  HandshakeInv'
<1>1. /\ Close_(l) /\ loopIn' = NULL
      /\ UNCHANGED <<sent, progress, jobVars, poolVars>>
  BY DEF onPeerClose, onTimer, peerVars
<1>2. /\ progress' \in [Links -> 0 .. Flights]
      /\ \A k \in Links : progress'[k] <= sent[k] /\ progress'[k] = progress[k]
  BY <1>1 DEF HandshakeInv, TypeOK, ReadsWhatIsSent
<1> QED
  BY <1>1, <1>2, ClosePreserves

LEMMA FlushStep ==
    ASSUME HandshakeInv, NEW l \in Links, flushSslWpending(l)
    PROVE  HandshakeInv'
<1>1. loopIn' = NULL /\ UNCHANGED <<sent, progress, loopIn, jobVars, poolVars>>
  BY DEF flushSslWpending, peerVars
<1>2. CASE Close_(l)
  <2>1. /\ progress' \in [Links -> 0 .. Flights]
        /\ \A k \in Links : progress'[k] <= sent[k] /\ progress'[k] = progress[k]
    BY <1>1 DEF HandshakeInv, TypeOK, ReadsWhatIsSent
  <2> QED
    BY <1>1, <1>2, <2>1, ClosePreserves
<1>3. CASE ~Close_(l)
  <2>1. /\ mask' = [mask EXCEPT ![l] = @ \ {"W"}]
        /\ UNCHANGED <<conn, isOpen, m_iStatus, m_iWant, asyncFlag, hasHandler>>
    BY <1>3 DEF flushSslWpending
  <2> USE <1>1, <2>1 DEF HandshakeInv, jobVars, poolVars
  <2>2. TypeOK'
    BY DEF TypeOK, PoolTypeOK, Known
  <2>3. WantsRead'
    BY DEF TypeOK, WantsRead
  <2>4. OpenStatus' /\ LoopAccepts' /\ ReadsWhatIsSent'
    BY DEF OpenStatus, LoopAccepts, ReadsWhatIsSent
  <2> QED
    BY <2>2, <2>3, <2>4
<1> QED
  BY <1>2, <1>3

LEMMA WorkerTakesStep ==
    ASSUME HandshakeInv, NEW j \in Jobs, WorkerTakes(j)
    PROVE  HandshakeInv'
<1> USE DEF HandshakeInv, WorkerTakes, linkVars, peerVars
<1>1. PoolTypeOK' /\ Known' = Known
  BY DEF TypeOK, PoolTypeOK, Known, Take
<1>2. jobResult' \in [Jobs -> {"none", "done", "again", "error"}]
  BY DEF TypeOK
<1>3. TypeOK'
  BY <1>1, <1>2 DEF TypeOK
<1>4. WantsRead' /\ OpenStatus' /\ LoopAccepts' /\ ReadsWhatIsSent'
  BY DEF WantsRead, OpenStatus, LoopAccepts, ReadsWhatIsSent
<1> QED
  BY <1>3, <1>4

LEMMA WorkerReturnsStep ==
    ASSUME HandshakeInv, NEW j \in Jobs, WorkerReturns(j)
    PROVE  HandshakeInv'
<1> USE DEF HandshakeInv
<1> DEFINE l == jobLink[j]
<1>1. PoolTypeOK' /\ Known' = Known /\ l \in Links
  BY DEF WorkerReturns, TypeOK, PoolTypeOK, Known, Complete
<1>2. UNCHANGED <<linkVars, sent, loopIn, jobLink, jobConn>>
  BY DEF WorkerReturns
<1>3. jobResult' \in [Jobs -> {"none", "done", "again", "error"}]
  BY DEF WorkerReturns, TypeOK
<1>4. \/ progress' = progress
      \/ \E read \in 0 .. Flights :
            /\ progress[l] <= read /\ read <= sent[l]
            /\ progress' = [progress EXCEPT ![l] = read]
  <2>1. CASE progress' = progress
    BY <2>1
  <2>2. CASE progress' # progress
    <3>1. PICK read \in 0 .. Flights, result \in {"done", "again", "error"},
               want \in SUBSET {"R", "W"} :
                 /\ HandshakeOutcome(l, read, result, want)
                 /\ progress' = [progress EXCEPT ![l] = read]
      BY <2>2 DEF WorkerReturns
    <3>2. progress[l] <= read /\ read <= sent[l]
      BY <1>1, <3>1, OutcomeReads
    <3> QED
      BY <3>1, <3>2
  <2> QED
    BY <2>1, <2>2
<1>5. progress' \in [Links -> 0 .. Flights]
  BY <1>1, <1>4 DEF TypeOK
<1>6. \A k \in Links : progress[k] <= progress'[k] /\ progress'[k] <= sent[k]
  BY <1>1, <1>4 DEF TypeOK, ReadsWhatIsSent
<1>7. TypeOK'
  BY <1>1, <1>2, <1>3, <1>5 DEF TypeOK, linkVars
<1>8. WantsRead' /\ OpenStatus' /\ LoopAccepts'
  BY <1>2 DEF linkVars, WantsRead, OpenStatus, LoopAccepts
<1>9. ReadsWhatIsSent'
  BY <1>2, <1>5, <1>6 DEF TypeOK, linkVars, ReadsWhatIsSent
<1> QED
  BY <1>7, <1>8, <1>9

LEMMA HandshakeInductive == HandshakeInv /\ [Next]_vars => HandshakeInv'
<1> SUFFICES ASSUME HandshakeInv, [Next]_vars PROVE HandshakeInv'
  OBVIOUS
<1>1. ASSUME NEW l \in Links, PeerSends(l) PROVE HandshakeInv'
  BY <1>1, PeerSendsStep
<1>2. ASSUME NEW l \in Links, setLink(l) PROVE HandshakeInv'
  BY <1>2, SetLinkStep
<1>3. ASSUME NEW l \in Links, SSLAgain(l) PROVE HandshakeInv'
  BY <1>3, AcceptAsyncStep, AcceptSyncStep DEF SSLAgain
<1>4. ASSUME NEW l \in Links, AcceptReturns(l) PROVE HandshakeInv'
  BY <1>4, AcceptReturnsStep
<1>5. ASSUME NEW l \in Links, onPeerClose(l) \/ onTimer(l) PROVE HandshakeInv'
  BY <1>5, CloseStep
<1>6. ASSUME NEW j \in Jobs, WorkerTakes(j) PROVE HandshakeInv'
  BY <1>6, WorkerTakesStep
<1>7. ASSUME NEW j \in Jobs, WorkerReturns(j) PROVE HandshakeInv'
  BY <1>7, WorkerReturnsStep
<1>9. ASSUME NEW l \in Links, flushSslWpending(l) PROVE HandshakeInv'
  BY <1>9, FlushStep
<1>8. CASE UNCHANGED vars
  BY <1>8 DEF vars, linkVars, peerVars, jobVars, poolVars, HandshakeInv, TypeOK,
              PoolTypeOK, Known, WantsRead, OpenStatus, LoopAccepts, ReadsWhatIsSent
<1> QED
  BY <1>1, <1>2, <1>3, <1>4, <1>5, <1>6, <1>7, <1>8, <1>9 DEF Next, LoopStep, WorkerStep

-----------------------------------------------------------------------------
(***************************************************************************)
(* The theorems.                                                           *)
(***************************************************************************)

\* The links, the jobs and the event loop never leave their types, and a job
\* that the crew knows has a link: handshakeWorkerFn() dereferences m_pIOLink.
THEOREM HandshakeTypes == Spec => []TypeOK
<1>1. HandshakeInv => TypeOK
  BY DEF HandshakeInv
<1> QED
  BY <1>1, HandshakeInit, HandshakeInductive, PTL DEF Spec

\* A link whose handshake is in nobody's hands, neither a worker's nor the event
\* loop's, has POLLIN on, whatever workers, timers and the peer did before: the
\* mask that queueHandshake() cleared does not stay cleared.
THEOREM WakeupKept == Spec => []NoLostWakeup
<1>1. HandshakeInv => NoLostWakeup
  BY DEF HandshakeInv, WantsRead, NoLostWakeup
<1> QED
  BY <1>1, HandshakeInit, HandshakeInductive, PTL DEF Spec

\* sslSetupHandler() has attached a handler only to a link whose handshake was
\* read to its end, also when a worker returns late from SSL_do_handshake().
THEOREM HandlerLast == Spec => []HandlerAfterHandshake
<1>1. HandshakeInv => HandlerAfterHandshake
  BY DEF HandshakeInv, ReadsWhatIsSent, HandlerAfterHandshake
<1> QED
  BY <1>1, HandshakeInit, HandshakeInductive, PTL DEF Spec
=============================================================================
