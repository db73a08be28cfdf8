------------------------------- MODULE H2Flow -------------------------------
(***************************************************************************)
(* The response side of one HTTP/2 connection: flow control windows, the   *)
(* priority queues of streams that want to write, and the flags that       *)
(* decide when the socket is polled for writing (H2ConnBase, H2Connection, *)
(* H2StreamBase, H2Stream).                                                *)
(*                                                                         *)
(* The event loop is single threaded.  An action is a whole event (a       *)
(* writable socket, data from a backend, the timer) or a step of a read    *)
(* event, which handles any number of frames of the client.  Handlers are  *)
(* operators that take the state of the connection and return the next     *)
(* one.  `room' is how much the socket takes during a step, `late' what it *)
(* takes after it was full once, because the client reads meanwhile.       *)
(*                                                                         *)
(* Sizes are counted in units of payload.  The link below is a plain       *)
(* NtwkIOLink (no TLS record pending in it); the HTTP session above writes *)
(* what it has, and stops writing when it has no more.                     *)
(***************************************************************************)
EXTENDS Integers, Sequences, FiniteSets

CONSTANTS
    NumStreams,   \* bound: requests of the client
    RespSize,     \* size of a response
    InitWindow,   \* H2_FCW_INIT_SIZE
    MaxWindow,    \* H2_FCW_MAX_SIZE, 2^31 - 1
    MaxFrame,     \* the largest DATA frame: m_iPeerMaxFrameSize
    MaxDelta,     \* bound: the largest WINDOW_UPDATE
    InitSizes,    \* values of SETTINGS_INITIAL_WINDOW_SIZE the client sends
    MaxEntries,   \* bound: such values in one SETTINGS frame
    MaxFrames,    \* bound: frames of the client
    FlushSize,    \* 1369: a buffer worth flushing before more is written
    RecordSize,   \* SSL_REC_MAX_PAYLOAD: a buffer that is flushed as it fills
    FullSize,     \* 32768: a full buffer
    Batch,        \* H2STREAM_MAX_BATCH_SIZE / weight
    MaxRoom,      \* bound: what the socket takes in one step
    MaxLate       \* bound: what it takes of a later write of the step, once it was full

ASSUME H2Assumption ==
    /\ {NumStreams, RespSize, InitWindow, MaxFrame, FlushSize, RecordSize, FullSize, Batch, MaxRoom}
           \subseteq Nat \ {0}
    /\ MaxWindow \in Nat /\ InitWindow <= MaxWindow /\ MaxDelta \in 0..MaxWindow
    /\ InitSizes \subseteq Nat /\ {MaxEntries, MaxFrames, MaxLate} \subseteq Nat

Streams    == 1..NumStreams
Priorities == 0..1                  \* H2_STREAM_PRIORITYS, cut to two

\* An int32_t, with MaxWindow for 2^31 - 1.
Int32(n) == ((n + MaxWindow + 1) % (2 * (MaxWindow + 1))) - (MaxWindow + 1)

VARIABLES
    c,         \* the connection and its streams
    frames,    \* frames received
    turn       \* history: flips with every write event

vars == <<c, frames, turn>>

(* c.win      m_iCurDataOutWindow            c.want     HIO_FLAG_WANT_WRITE of the link  *)
(* c.init     m_iStreamOutInitWindowSize     c.pause    HIO_FLAG_PAUSE_WRITE of the link *)
(* c.que      m_priQue                       c.buf      bytes in the BufferedOS          *)
(* c.wait     H2_CONN_FLAG_WAIT_PROCESS      c.flush    H2_CONN_FLAG_WANT_FLUSH          *)
(* c.pending  H2_CONN_FLAG_PENDING_STREAM    c.inEvent  H2_CONN_FLAG_IN_EVENT            *)
(* c.open     no GOAWAY yet                  c.s        the streams                      *)
(* History: c.total, what was sent; c.granted, WINDOW_UPDATEs applied; c.over, a SETTINGS *)
(* frame lost a difference; c.passed, a frame was sent beyond a window; c.refused, a     *)
(* stream was reset for its window.                                                      *)
(* A stream: state, priority, m_iWindowOut, WANT_WRITE, PAUSE_WRITE, what the session    *)
(* has to write, what its backend has yet to produce; history: sent and granted.         *)
FreshStream == [state |-> "none", pri |-> 0, win |-> 0, want |-> FALSE, pause |-> FALSE,
                ready |-> 0, toCome |-> 0, sent |-> 0, granted |-> 0]

\* H2ConnBase::H2ConnBase(), init()
Fresh ==
    [win |-> InitWindow, init |-> InitWindow, que |-> [p \in Priorities |-> <<>>],
     want |-> FALSE, pause |-> FALSE, buf |-> 0, room |-> 0, late |-> 0, wait |-> FALSE,
     flush |-> FALSE, pending |-> FALSE, inEvent |-> FALSE, open |-> TRUE,
     total |-> 0, granted |-> 0, over |-> FALSE, passed |-> FALSE, refused |-> "none",
     s |-> [s \in Streams |-> FreshStream]]

Init == c = Fresh /\ frames = 0 /\ turn = FALSE

Live(d, s)   == d.s[s].state \in {"init", "connected", "shutdown"}     \* in m_mapStream
Queued(d, s) == \E p \in Priorities : \E i \in 1..Len(d.que[p]) : d.que[p][i] = s

\* a queue without the streams in gone (SelectSeq, written as a function)
Drop(q, gone) ==
    LET kept[i \in 0..Len(q)] ==
            IF i = 0 THEN <<>>
            ELSE IF q[i] \in gone THEN kept[i - 1] ELSE Append(kept[i - 1], q[i])
    IN  kept[Len(q)]
Without(q, s) == Drop(q, {s})

StreamOK(x) ==
    /\ x.state \in {"none", "init", "connected", "shutdown", "gone"}
    /\ x.pri \in Priorities
    /\ x.win \in -(MaxWindow + 1)..MaxWindow
    /\ x.want \in BOOLEAN /\ x.pause \in BOOLEAN
    /\ x.ready \in 0..RespSize /\ x.toCome \in 0..RespSize
TypeOK ==
    /\ c.win \in 0..MaxWindow /\ c.init \in 0..MaxWindow
    /\ c.que \in [Priorities -> Seq(Streams)]
    /\ c.buf \in 0..FullSize + MaxFrame /\ c.room = 0 /\ c.late = 0
    /\ \A s \in Streams : StreamOK(c.s[s])

-----------------------------------------------------------------------------
(* The socket and its buffer. *)

\* H2Connection::continueWrite()
ContinueWrite(d) == [d EXCEPT !.want = TRUE]

NeedWriteEvent(d) ==
    IF d.inEvent THEN [d EXCEPT !.wait = TRUE]
    ELSE IF d.buf = 0 THEN ContinueWrite(d) ELSE d

WantFlush(d)  == IF d.inEvent THEN [d EXCEPT !.flush = TRUE] ELSE ContinueWrite(d)
WantFlush2(d) == IF d.inEvent THEN [d EXCEPT !.flush = TRUE]
                 ELSE IF d.buf = 0 THEN ContinueWrite(d) ELSE d

\* BufferedOS::flush(): the socket takes what it has room for.
Drain(d) ==
    LET n == IF d.buf <= d.room THEN d.buf ELSE d.room
    IN  [d EXCEPT !.buf = @ - n,
                  !.room = IF d.buf > d.room THEN d.late ELSE @ - n,
                  !.late = IF d.buf > d.room THEN 0 ELSE @]

\* H2Connection::flush()
Flush(d) ==
    LET e == Drain(d)
    IN  IF e.buf # 0 THEN [e EXCEPT !.want = TRUE, !.pause = TRUE]
        ELSE [e EXCEPT !.flush = FALSE]

\* appendOutput(), bufferOutput() of n: the buffer is filled up to a record, which is sent.
Append1(d) ==
    LET e == [d EXCEPT !.buf = @ + 1] IN IF e.buf = RecordSize THEN Drain(e) ELSE e

AppendOutput(d, n) ==
    LET fill[i \in 0..MaxFrame] == IF i = 0 THEN d ELSE Append1(fill[i - 1]) IN fill[n]

IsOutBufFull(d) == d.win <= 0 \/ d.buf >= FullSize

-----------------------------------------------------------------------------
(* Streams. *)

Add2PriorityQue(d, s) ==
    LET e == [d EXCEPT !.que = [p \in Priorities |->
                    IF p = d.s[s].pri THEN Append(Without(d.que[p], s), s)
                    ELSE Without(d.que[p], s)],
                !.wait = TRUE]
    IN  IF ~e.inEvent /\ e.win > 0 THEN ContinueWrite(e) ELSE e

Enqueue(d, s) == IF Queued(d, s) THEN d ELSE Add2PriorityQue(d, s)

\* H2StreamBase::continueWrite()
StreamContinueWrite(d, s) == NeedWriteEvent(Enqueue([d EXCEPT !.s[s].want = TRUE], s))

\* HioStream::wantWrite(1)
WantWrite(d, s) == IF d.s[s].want THEN d ELSE StreamContinueWrite(d, s)

\* getDataFrameSize() when nothing may be sent now
HoldWrite(d, s) ==
    NeedWriteEvent(Enqueue([d EXCEPT !.s[s].pause = TRUE, !.s[s].want = TRUE], s))

MarkShutdown(d, s) ==
    LET e == [d EXCEPT !.s[s].state = "shutdown"]
    IN  IF Queued(e, s) THEN e ELSE Add2PriorityQue([e EXCEPT !.s[s].pri = 0], s)

\* sendDataFrame() and dataSent() of a frame of n
SendDataFrame(d, s, n) ==
    LET e == AppendOutput(WantFlush2(d), n)
        x == d.s[s]
    IN  [e EXCEPT !.win = @ - n, !.total = @ + n,
                  !.s[s] = [x EXCEPT !.win = @ - n, !.ready = @ - n, !.sent = @ + n,
                                     !.pause = @ \/ x.win - n <= 0],
                  !.passed = \/ @ \/ d.total + n > InitWindow + d.granted
                             \/ ~d.over /\ x.sent + n > d.init + x.granted]

\* The next frame of the response, after w was written; the last one carries END_STREAM.
SendNext(d, s, w, n) ==
    LET x    == d.s[s]
        last == x.ready = n /\ x.toCome = 0
        more == w + n >= Batch /\ x.ready > n
        e    == [d EXCEPT !.s[s].pause = @ \/ more]
    IN  IF last THEN WantFlush(SendDataFrame(MarkShutdown(e, s), s, n)) ELSE SendDataFrame(e, s, n)

Smaller(m, n) == IF m <= n THEN m ELSE n

\* getDataFrameSize(), getAllowedDataSize(): no frame is larger than either window.
FrameSize_Bug(d, s) == Smaller(d.s[s].ready, Smaller(d.win, MaxFrame))
FrameSize(d, s) == Smaller(Smaller(d.s[s].ready, d.s[s].win), Smaller(d.win, MaxFrame))

\* One turn of the loop of write(), when w was written before.
WriteOne(d, s, w) ==
    IF IsOutBufFull(d) \/ d.s[s].win <= 0 THEN HoldWrite(d, s)
    ELSE SendNext(d, s, w, FrameSize(d, s))

WriteLoop(d, s) ==
    LET run[k \in 0..RespSize] ==
            IF k = 0 THEN d
            ELSE LET e == run[k - 1]
                 IN  IF e.s[s].pause \/ e.s[s].ready = 0 THEN e
                     ELSE WriteOne(e, s, d.s[s].ready - e.s[s].ready)
    IN  run[RespSize]

\* H2StreamBase::write(): a first write of a whole frame flushes what is buffered; then
\* until there is no more, or the stream is paused.
Write(d, s) ==
    LET x == d.s[s]
    IN  WriteLoop(IF x.sent = 0 /\ x.ready >= MaxFrame /\ d.buf > 0 THEN Flush(d) ELSE d, s)

\* The session: it writes what it has, and suspends writing when it has no more.
Suspend(d, s) == IF d.s[s].ready = 0 THEN [d EXCEPT !.s[s].want = FALSE] ELSE d
SessionWrite(d, s) == Suspend(Write(d, s), s)

\* H2Stream::onWrite()
AfterWrite(d, s) == IF d.s[s].want THEN NeedWriteEvent(d) ELSE d

OnWrite(d, s) ==
    IF d.s[s].win <= 0 THEN d
    ELSE AfterWrite(SessionWrite([d EXCEPT !.s[s].pause = FALSE], s), s)

\* A mutant for the checks: the stream stays in its queue.
RecycleStream_Bug(d, s) == [d EXCEPT !.s[s] = [FreshStream EXCEPT !.state = "gone"]]

\* H2Connection::recycleStream()
RecycleStream(d, s) ==
    [d EXCEPT !.s[s] = [FreshStream EXCEPT !.state = "gone"],
              !.que = [p \in Priorities |-> Without(d.que[p], s)]]

\* assignStreamHandler(): the session starts; with a response at hand it wants to write.
AssignStreamHandler(d, s) ==
    LET e == [d EXCEPT !.s[s].state = "connected"]
    IN  IF e.s[s].ready > 0 THEN Enqueue([e EXCEPT !.s[s].want = TRUE], s) ELSE e

-----------------------------------------------------------------------------
(* H2ConnBase::processQueue(), one stream taken from the front of a queue at a time.   *)
(* The result is the connection and the count wantWrite.                               *)

Turn(d, s) == IF d.s[s].state = "init" THEN AssignStreamHandler(d, s)
              ELSE IF d.s[s].want THEN OnWrite(d, s) ELSE d

GoesOn(d, s) == d.s[s].want /\ d.s[s].win > 0

Requeue(d, s) == IF GoesOn(d, s) /\ ~Queued(d, s)
                 THEN [d EXCEPT !.que[d.s[s].pri] = Append(@, s)] ELSE d

Reap(d, s) == IF d.s[s].state = "shutdown" THEN RecycleStream(d, s) ELSE d

AfterTurn(d, s, n) ==
    LET e    == Reap(Requeue(d, s), s)
        full == IsOutBufFull(e)
    IN  [c |-> e, n |-> n + (IF GoesOn(d, s) THEN 1 ELSE 0) + (IF full THEN 1 ELSE 0),
         stop |-> full]

TakeOne(d, n, p) ==
    LET s == Head(d.que[p])
        e == [d EXCEPT !.que[p] = Tail(@)]
    IN  IF e.s[s].state = "shutdown" THEN [c |-> RecycleStream(e, s), n |-> n, stop |-> FALSE]
        ELSE AfterTurn(Turn(e, s), s, n)

\* The inner loop: as many turns as the queue is long when it starts.
TakeQueue(d, p) ==
    LET run[k \in 0..NumStreams] ==
            IF k = 0 THEN [c |-> d, n |-> 0, stop |-> FALSE]
            ELSE LET r == run[k - 1]
                 IN  IF r.stop \/ r.c.win <= 0 \/ r.c.pause \/ r.c.que[p] = <<>> THEN r
                     ELSE TakeOne(r.c, r.n, p)
    IN  run[Len(d.que[p])]

\* The next priority has its turn when nothing is left to write in the first.
TakeNext(r) == IF r.n > 0 \/ r.c.win <= 0 THEN r ELSE TakeQueue(r.c, 1)

FlushWanted(d) == IF d.flush THEN Flush(d) ELSE d

FlushQueue(r) == [r EXCEPT !.c = FlushWanted(@)]

ProcessQueue(d) == FlushQueue(TakeNext(TakeQueue(d, 0)))

\* H2ConnBase::processPendingStreams(), while the link cannot write: sessions are started,
\* a stream that has one stays first.
PendingOne(d, p) ==
    LET s == Head(d.que[p])
        e == [d EXCEPT !.que[p] = Tail(@)]
        f == IF e.s[s].state = "init" THEN AssignStreamHandler(e, s)
             ELSE [e EXCEPT !.que[e.s[s].pri] = <<s>> \o @]
    IN  IF e.s[s].state = "shutdown" THEN [c |-> RecycleStream(e, s), stop |-> FALSE]
        ELSE [c |-> f, stop |-> IsOutBufFull(f)]

PendingQueue(r0, p) ==
    LET run[k \in 0..NumStreams] ==
            IF k = 0 THEN r0
            ELSE LET r == run[k - 1]
                 IN  IF r.stop \/ r.c.win <= 0 \/ r.c.que[p] = <<>> THEN r
                     ELSE PendingOne(r.c, p)
    IN  run[Len(r0.c.que[p])]

ProcessPendingStreams(d) ==
    FlushWanted(PendingQueue(PendingQueue([c |-> d, stop |-> FALSE], 0), 1).c)

\* H2Connection::onWriteEx2()
AfterQueue(r) == [c |-> IF r.n > 0 /\ r.c.win > 0 THEN ContinueWrite(r.c) ELSE r.c, n |-> r.n]

OnWriteEx2(d) ==
    LET e == IF d.buf = 0 THEN d
             ELSE IF d.buf >= FlushSize THEN Flush(d) ELSE [d EXCEPT !.flush = TRUE]
    IN  IF d.buf >= FlushSize /\ e.buf # 0 THEN [c |-> e, n |-> 1]
        ELSE IF e.pause THEN [c |-> IF e.win > 0 THEN ContinueWrite(e) ELSE e, n |-> 1]
        ELSE AfterQueue(ProcessQueue(e))

\* Polling for writing stops when nothing asks for it and the buffer is empty.
SuspendWrite(r) ==
    [r.c EXCEPT !.inEvent = FALSE,
                !.want = @ /\ ~((r.n = 0 \/ r.c.win <= 0) /\ r.c.buf = 0)]

\* A mutant for the checks: the link stays paused.
OnWriteEx_Bug(d) == SuspendWrite(OnWriteEx2([d EXCEPT !.inEvent = TRUE]))

\* NtwkIOLink::handleEvents(POLLOUT), H2Connection::onWriteEx()
OnWriteEx(d) == SuspendWrite(OnWriteEx2([d EXCEPT !.pause = FALSE, !.inEvent = TRUE]))

\* What H2Connection::onReadEx() does when the frames are processed.
StartPending(d) == IF d.pause /\ d.pending THEN ProcessPendingStreams(d) ELSE d
WriteWaiting(d) == IF d.wait THEN OnWriteEx2(d).c ELSE d

AfterRead(d) == FlushWanted([WriteWaiting(StartPending(d)) EXCEPT !.inEvent = FALSE])

-----------------------------------------------------------------------------
(* Frames of the client. *)

\* getNewStream(), decodeHeaders() of a request without a body.  Its response is there at
\* once, or comes from a backend.
DecodeHeaders(d, s, pri, resp) ==
    Add2PriorityQue(
        [d EXCEPT !.pending = TRUE,
                  !.s[s] = [FreshStream EXCEPT !.state = "init", !.pri = pri, !.win = d.init,
                                !.ready  = IF resp = "now" THEN RespSize ELSE 0,
                                !.toCome = IF resp = "now" THEN 0 ELSE RespSize]], s)

\* doGoAway(): all streams are released and the connection closes.
DoGoAway(d) == [Fresh EXCEPT !.open = FALSE, !.refused = d.refused]

\* A mutant for the checks: a stream that wants to write is not queued again.
AdjWindowOut_Bug(d, s, n) ==
    LET w == Int32(d.s[s].win + n)
        e == [d EXCEPT !.s[s].win = w]
    IN  IF w < 0 THEN [c |-> e, ok |-> FALSE]
        ELSE [c |-> [e EXCEPT !.s[s].pause = FALSE], ok |-> TRUE]

\* H2StreamBase::adjWindowOut(), with its return value
AdjWindowOut(d, s, n) ==
    LET w == Int32(d.s[s].win + n)
        e == [d EXCEPT !.s[s].win = w]
        f == [e EXCEPT !.s[s].pause = FALSE]
    IN  IF w < 0 THEN [c |-> e, ok |-> FALSE]
        ELSE [c |-> IF f.s[s].want THEN StreamContinueWrite(f, s) ELSE f, ok |-> TRUE]

\* A mutant for the checks: an overflow is not noticed.
ConnWindowUpdate_Bug(d, delta) ==
    LET e == [d EXCEPT !.win = @ + delta, !.granted = @ + delta]
    IN  IF delta = 0 THEN DoGoAway(d) ELSE IF d.win <= 0 THEN OnWriteEx2(e).c ELSE e

ConnWindowUpdate(d, delta) ==
    LET e == [d EXCEPT !.win = @ + delta, !.granted = @ + delta]
    IN  IF delta = 0 \/ e.win > MaxWindow THEN DoGoAway(d)
        ELSE IF d.win <= 0 THEN OnWriteEx2(e).c ELSE e

\* resetStream(FLOW_CONTROL_ERROR), and why in the history variable
Refuse(d, s, delta) ==
    [RecycleStream(d, s) EXCEPT
        !.refused = IF @ = "negative" \/ d.s[s].win + delta <= MaxWindow THEN "negative" ELSE "overflow"]

StreamWindowUpdate(d, s, delta) ==
    LET r == AdjWindowOut([d EXCEPT !.s[s].granted = @ + delta], s, delta)
    IN  IF delta = 0 THEN RecycleStream(d, s)
        ELSE IF ~r.ok THEN Refuse(d, s, delta)
        ELSE IF r.c.s[s].win <= delta THEN StreamContinueWrite(r.c, s) ELSE r.c

\* processSettingFrame() of a frame with the values vs.  Each overwrites windowsSizeDiff, so
\* what the last one changes is all that the streams of the map get, whatever the outcome
\* of adjWindowOut(); c.over says that something else was lost.
Difference(d, vs) == vs[Len(vs)] - (IF Len(vs) = 1 THEN d.init ELSE vs[Len(vs) - 1])
Loses(d, vs)      == vs[Len(vs)] - d.init # Difference(d, vs)

\* A mutant for the checks: only streams with a session are adjusted.
AdjustAll_Bug(d, diff) ==
    LET run[n \in 0..NumStreams] ==
            IF n = 0 THEN d
            ELSE IF diff = 0 \/ d.s[n].state # "connected" THEN run[n - 1]
            ELSE AdjWindowOut(run[n - 1], n, diff).c
    IN  run[NumStreams]

AdjustAll(d, diff) ==
    LET run[n \in 0..NumStreams] ==
            IF n = 0 THEN d
            ELSE IF diff = 0 \/ ~Live(d, n) THEN run[n - 1]
            ELSE AdjWindowOut(run[n - 1], n, diff).c
    IN  run[NumStreams]

ProcessSettingFrame(d, vs) ==
    IF \E i \in 1..Len(vs) : vs[i] > MaxWindow THEN DoGoAway(d)
    ELSE AdjustAll([d EXCEPT !.init = vs[Len(vs)], !.over = @ \/ Loses(d, vs)], Difference(d, vs))

\* processPriority(), apply_priority()
ProcessPriority(d, s, pri) ==
    LET e == [d EXCEPT !.s[s].pri = pri]
    IN  IF Queued(d, s) THEN Add2PriorityQue(e, s) ELSE e

-----------------------------------------------------------------------------
(* The events.  In each step the socket takes `room', and `late' once it was full. *)

Socket == [room : 0..MaxRoom, late : 0..MaxLate]
At(k)  == [c EXCEPT !.room = k.room, !.late = k.late]
Quiet(d) == [d EXCEPT !.room = 0, !.late = 0]

\* WAIT_PROCESS and PENDING_STREAM, which the next onReadEx() clears first, are cleared here:
\* nothing reads them in between.
Done(d) == [Quiet(d) EXCEPT !.wait = FALSE, !.pending = FALSE]

\* H2Connection::onReadEx(): frames are handled until there are no more, then what waits.
ReadStart ==
    /\ c.open /\ ~c.inEvent
    /\ c' = [c EXCEPT !.inEvent = TRUE]
    /\ UNCHANGED <<frames, turn>>

ReadEnd(k) ==
    /\ c.open /\ c.inEvent
    /\ c' = Done(AfterRead(At(k)))
    /\ UNCHANGED <<frames, turn>>

\* One frame, which turns the connection into d.
Frame(d) ==
    /\ c.open /\ c.inEvent /\ frames < MaxFrames
    /\ c' = Quiet(d) /\ frames' = frames + 1
    /\ UNCHANGED turn

Headers(s, pri, resp) ==
    /\ \A t \in Streams : (t < s) <=> (c.s[t].state # "none")
    /\ Frame(DecodeHeaders(c, s, pri, resp))

WindowUpdate0(delta, k) == Frame(ConnWindowUpdate(At(k), delta))

WindowUpdate(s, delta) ==
    /\ Live(c, s)
    /\ Frame(StreamWindowUpdate(c, s, delta))

Entries == UNION {[1..n -> InitSizes] : n \in 1..MaxEntries}

Settings(vs) == Frame(ProcessSettingFrame(c, vs))

\* processRstFrame(), HioStream::onPeerClose(), H2StreamBase::close()
RstStream(s) ==
    /\ Live(c, s)
    /\ Frame(RecycleStream(c, s))

Priority(s, pri) ==
    /\ Live(c, s) /\ c.s[s].pri # pri
    /\ Frame(ProcessPriority(c, s, pri))

\* The socket is writable, and the link polls for that.
Writable(k) ==
    /\ c.open /\ ~c.inEvent /\ c.want /\ k.room > 0
    /\ c' = Done(OnWriteEx(At(k)))
    /\ turn' = ~turn
    /\ UNCHANGED frames

\* A backend has data: the session writes it, and asks for a write event for the rest.
Produce(s, k) ==
    /\ c.open /\ ~c.inEvent /\ c.s[s].state = "connected" /\ c.s[s].toCome > 0
    /\ LET d == [At(k) EXCEPT !.s[s].toCome = @ - 1, !.s[s].ready = @ + 1]
           e == Write(d, s)
       IN  c' = Done(IF e.s[s].ready > 0 THEN WantWrite(e, s) ELSE e)
    /\ UNCHANGED <<frames, turn>>

\* H2Connection::onTimerEx(), timerRoutine(): finished streams are recycled; a connection
\* whose output does not drain is closed.
Timer ==
    /\ c.open /\ ~c.inEvent
    /\ \/ c' = DoGoAway(c) /\ c.buf > 0
       \/ LET done == {s \in Streams : c.s[s].state = "shutdown"}
          IN  /\ done # {}
              /\ c' = [c EXCEPT !.que = [p \in Priorities |-> Drop(@[p], done)],
                                !.s = [s \in Streams |-> IF s \in done THEN RecycleStream(c, s).s[s] ELSE @[s]]]
    /\ UNCHANGED <<frames, turn>>

Client ==
    \/ \E s \in Streams, pri \in Priorities, resp \in {"now", "later"} : Headers(s, pri, resp)
    \/ \E delta \in 0..MaxDelta, k \in Socket : WindowUpdate0(delta, k)
    \/ \E s \in Streams, delta \in 0..MaxDelta : WindowUpdate(s, delta)
    \/ \E vs \in Entries : Settings(vs)
    \/ \E s \in Streams : RstStream(s)
    \/ \E s \in Streams, pri \in Priorities : Priority(s, pri)

Next ==
    \/ ReadStart \/ Client \/ Timer
    \/ \E k \in Socket : ReadEnd(k) \/ Writable(k) \/ \E s \in Streams : Produce(s, k)

\* A read event ends (MAX_INPUT_BATCH_SIZE).  The client goes on reading: a socket that is
\* polled for writing becomes writable, and the loop handles that between two read events.
Fairness ==
    /\ []<>~c.inEvent
    /\ WF_turn(c.open /\ c.want /\ turn' = ~turn)

Spec == Init /\ [][Next]_vars /\ Fairness

-----------------------------------------------------------------------------
(* Properties. *)

\* The server's windows are the ones the client computes: the connection's from the initial
\* value, each stream's from the last SETTINGS_INITIAL_WINDOW_SIZE, plus what WINDOW_UPDATE
\* frames granted, minus what was sent (to streams that are gone too).  The streams' are
\* 32 bits wide, since processSettingFrame() ignores an overflow, and are not the client's
\* once a SETTINGS frame with two values has lost the difference that the first one made.
WindowExact ==
    /\ c.win = InitWindow + c.granted - c.total
    /\ \A s \in Streams : ~c.over /\ Live(c, s) =>
            c.s[s].win = Int32(c.init + c.s[s].granted - c.s[s].sent)

\* No DATA frame passes a window: whenever one was put out, the client had granted all of it,
\* on the connection and, unless SETTINGS lost a difference before, on the stream.
WithinWindows == ~c.passed

\* A stream is in the queues at most once, in the queue of its priority, and no queue holds
\* a stream that was recycled.
QueueClean ==
    /\ \A s \in Streams : Queued(c, s) => Live(c, s)
    /\ \A p \in Priorities : \A i \in 1..Len(c.que[p]) :
            /\ c.s[c.que[p][i]].pri = p
            /\ \A j \in 1..Len(c.que[p]) : c.que[p][i] = c.que[p][j] => i = j

Sendable(s) ==
    /\ c.open /\ c.win > 0
    /\ \/ c.s[s].state = "init"
       \/ c.s[s].state = "connected" /\ c.s[s].ready > 0 /\ c.s[s].win > 0

\* The link is left paused, though the socket took all output in the end, and nobody polls.
\* onWriteEx() does that when a flush found the socket full, so that processQueue() stopped,
\* and the last flush of the same event did not: then streams wait for the next frame.
Stranded == c.pause /\ c.buf = 0 /\ ~c.want

\* No wakeup is lost: between events a stream that could send is queued, and the socket is
\* polled for writing unless the connection is stranded; it is while output is buffered.
NoLostWakeup ==
    ~c.inEvent =>
        /\ \A s \in Streams : Sendable(s) => Queued(c, s) /\ (c.want \/ Stranded)
        /\ c.open /\ c.buf > 0 => c.want

\* Unless the connection gets stranded, no stream has something to send and open windows for
\* ever, and no request is kept waiting for ever while the connection has a window.
\* (Responses are finite: streams of a higher priority delay the others, no more.)
Served == \A s \in Streams : []<>(~Sendable(s) \/ Stranded)

\* A stream is refused for its window ("window overflow" in adjWindowOut()) only when an
\* update took it past the largest window.
RefusedOnlyOnOverflow == c.refused # "negative"
=============================================================================
