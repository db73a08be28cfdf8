---------------------------- MODULE H2FlowProofs ----------------------------
(***************************************************************************)
(* Theorems about H2Flow, with their proofs.  A handler takes a connection *)
(* and returns the next one, so the proofs go handler by handler: each one *)
(* that is given a good connection returns a good one.                     *)
(***************************************************************************)
EXTENDS H2Flow, Iteration, FiniteSetTheorems, TLAPS

-----------------------------------------------------------------------------
(***************************************************************************)
(* Queues.                                                                 *)
(***************************************************************************)

\* the first m members of q are not in gone, and are the first of r
Ahead(q, r, m)    == m <= Len(r) /\ \A i \in 1 .. m : r[i] = q[i]
Free(q, m, gone)  == \A i \in 1 .. m : q[i] \notin gone
Prefix(q, r, gone) == \A m \in 0 .. Len(q) : Free(q, m, gone) => Ahead(q, r, m)

\* Drop() returns the rest of the queue.
LEMMA DropWorks ==
    ASSUME NEW S, NEW q \in Seq(S), NEW gone
    PROVE  /\ Drop(q, gone) \in Seq(S)
           /\ \A x : Has(Drop(q, gone), x) <=> Has(q, x) /\ x \notin gone
           /\ Once(q) => Once(Drop(q, gone))
           /\ Prefix(q, Drop(q, gone), gone)
<1> DEFINE kept[i \in 0..Len(q)] ==
               IF i = 0 THEN <<>>
               ELSE IF q[i] \in gone THEN kept[i - 1] ELSE Append(kept[i - 1], q[i])
           N == Len(q)
           Upto(i) == {w \in Seq(S) :
                          /\ \A x : Has(w, x) <=> x \notin gone /\ \E j \in 1 .. i : q[j] = x
                          /\ Once(q) => Once(w)
                          /\ \A m \in 0 .. i : Free(q, m, gone) => Ahead(q, w, m)
                          /\ Free(q, i, gone) => Len(w) = i}
           T == [i \in 0 .. N |-> Upto(i)]
           g == [i \in 0 .. N - 1 |-> [w \in Seq(S) |->
                    IF q[i + 1] \in gone THEN w ELSE Append(w, q[i + 1])]]
<1>1. N \in Nat /\ \A i \in 1 .. N : q[i] \in S
  OBVIOUS
<1>2. ASSUME NEW i \in 0 .. N - 1, NEW w \in Upto(i)
      PROVE  /\ q[i + 1] \in gone => w \in Upto(i + 1)
             /\ q[i + 1] \notin gone => Append(w, q[i + 1]) \in Upto(i + 1)
  <2> DEFINE z == q[i + 1]
             v == Append(w, z)
  <2>1. z \in S /\ i + 1 \in 1 .. N
    BY <1>1
  <2>2. \A x : (\E j \in 1 .. i + 1 : q[j] = x) <=> (\E j \in 1 .. i : q[j] = x) \/ x = z
    OBVIOUS
  <2>3. /\ w \in Seq(S) /\ \A x : Has(w, x) <=> x \notin gone /\ \E j \in 1 .. i : q[j] = x
        /\ Once(q) => Once(w)
        /\ \A m \in 0 .. i : Free(q, m, gone) => Ahead(q, w, m)
        /\ Free(q, i, gone) => Len(w) = i
    BY <1>2
  <2>31. Free(q, i + 1, gone) <=> Free(q, i, gone) /\ z \notin gone
    BY DEF Free
  <2>4. Once(q) => ~ \E j \in 1 .. i : q[j] = z
    BY <1>1, <2>1 DEF Once
  <2> HIDE DEF z
  <2>5. z \in gone => w \in Upto(i + 1)
    <3> SUFFICES ASSUME z \in gone PROVE w \in Upto(i + 1)
      OBVIOUS
    <3>1. \A m \in 0 .. i + 1 : Free(q, m, gone) => Ahead(q, w, m)
      BY <2>3, <2>31
    <3> QED
      BY <2>2, <2>3, <2>31, <3>1
  <2>6. /\ v \in Seq(S) /\ \A y : Has(v, y) <=> Has(w, y) \/ y = z
        /\ Once(w) /\ ~Has(w, z) => Once(v)
    BY <2>1, <2>3, AppendHas
  <2>61. /\ Len(w) \in Nat /\ Len(v) = Len(w) + 1 /\ v[Len(w) + 1] = z
         /\ \A j \in 1 .. Len(w) : v[j] = w[j]
    BY <2>1, <2>3
  <2> HIDE DEF v
  <2>7. z \notin gone => v \in Upto(i + 1)
    <3> SUFFICES ASSUME z \notin gone PROVE v \in Upto(i + 1)
      OBVIOUS
    <3>1. ASSUME NEW m \in 0 .. i + 1, Free(q, m, gone) PROVE Ahead(q, v, m)
      <4>1. CASE m \in 0 .. i
        BY <2>3, <2>61, <3>1, <4>1 DEF Ahead
      <4>2. CASE m = i + 1
        <5>1. Len(w) = i /\ Ahead(q, w, i)
          BY <2>3, <2>31, <3>1, <4>2
        <5> QED
          BY <2>61, <4>2, <5>1 DEF Ahead, z
      <4> QED
        BY <3>1, <4>1, <4>2
    <3>2. Free(q, i + 1, gone) => Len(v) = i + 1
      BY <2>3, <2>31, <2>61
    <3>3. Once(q) => Once(v)
      BY <2>3, <2>4, <2>6
    <3>4. \A x : Has(v, x) <=> x \notin gone /\ \E j \in 1 .. i + 1 : q[j] = x
      BY <2>2, <2>3, <2>6
    <3> QED
      BY <2>6, <3>1, <3>2, <3>3, <3>4
  <2> QED
    BY <2>5, <2>7 DEF z, v
<1>3. <<>> \in Upto(0)
  <2>1. <<>> \in Seq(S) /\ Len(<<>>) = 0
    OBVIOUS
  <2>2. Once(<<>>) /\ \A x : ~Has(<<>>, x)
    BY <2>1 DEF Once, Has
  <2>3. Ahead(q, <<>>, 0)
    BY <2>1 DEF Ahead
  <2> QED
    BY <2>1, <2>2, <2>3
<1>4. \A i \in 0 .. N : Upto(i) \subseteq Seq(S)
  OBVIOUS
<1> HIDE DEF Upto, N, kept
<1>5. /\ \A i \in 0 .. N : T[i] = Upto(i)
      /\ \A i \in 0 .. N - 1 : i \in 0 .. N /\ i + 1 \in 0 .. N
      /\ 0 \in 0 .. N
  BY <1>1
<1>6. \A i \in 0 .. N - 1 : \A w \in Seq(S) :
          g[i][w] = IF q[i + 1] \in gone THEN w ELSE Append(w, q[i + 1])
  OBVIOUS
<1> HIDE DEF T, g
<1>7. Leads(N, T, g)
  <2> SUFFICES ASSUME NEW i \in 0 .. N - 1, NEW w \in T[i] PROVE g[i][w] \in T[i + 1]
    BY DEF Leads
  <2>1. w \in Upto(i) /\ w \in Seq(S) /\ T[i + 1] = Upto(i + 1)
    BY <1>4, <1>5
  <2> QED
    BY <1>2, <1>6, <2>1
<1>8. PICK w : Walk(N, T, g, <<>>, w)
  <2>1. <<>> \in T[0]
    BY <1>3, <1>5
  <2> QED
    BY <1>1, <1>7, <2>1, WalkExists
<1>9. w = [i \in 0 .. N |-> IF i = 0 THEN <<>>
                            ELSE IF q[i] \in gone THEN w[i - 1] ELSE Append(w[i - 1], q[i])]
  <2>1. ASSUME NEW i \in 0 .. N, i # 0
        PROVE  w[i] = IF q[i] \in gone THEN w[i - 1] ELSE Append(w[i - 1], q[i])
    <3>1. i - 1 \in 0 .. N - 1 /\ i - 1 \in 0 .. N /\ (i - 1) + 1 = i
      BY <1>1, <2>1
    <3>2. w[i - 1] \in Seq(S) /\ w[(i - 1) + 1] = g[i - 1][w[i - 1]]
      BY <1>4, <1>5, <1>8, <3>1 DEF Walk
    <3> QED
      BY <1>6, <3>1, <3>2
  <2> QED
    BY <1>8, <2>1 DEF Walk
<1>10. kept = [i \in 0 .. N |-> IF i = 0 THEN <<>>
                            ELSE IF q[i] \in gone THEN kept[i - 1] ELSE Append(kept[i - 1], q[i])]
  BY <1>9 DEF kept, N
<1> DEFINE P == {i \in Nat : i <= N => kept[i] \in Upto(i)}
<1>11. \A i \in Nat : i \in P
  <2>1. 0 \in P
    BY <1>1, <1>3, <1>5, <1>10
  <2>2. ASSUME NEW i \in Nat, i \in P PROVE i + 1 \in P
    <3> SUFFICES ASSUME i + 1 <= N PROVE kept[i + 1] \in Upto(i + 1)
      OBVIOUS
    <3>1. i \in 0 .. N - 1 /\ kept[i] \in Upto(i) /\ (i + 1) - 1 = i /\ i + 1 \in 0 .. N /\ i + 1 # 0
      BY <1>1, <2>2
    <3>2. kept[i + 1] = IF q[i + 1] \in gone THEN kept[i] ELSE Append(kept[i], q[i + 1])
      BY <1>10, <3>1
    <3> QED
      BY <1>2, <3>1, <3>2
  <2> HIDE DEF P
  <2> QED
    BY <2>1, <2>2, NatInSet
<1>12. kept[N] \in Upto(N)
  BY <1>1, <1>11
<1>13. Drop(q, gone) = kept[N]
  BY DEF Drop, kept, N
<1>14. Prefix(q, kept[N], gone)
  BY <1>12 DEF Upto, Prefix, N
<1> QED
  BY <1>12, <1>13, <1>14 DEF Upto, Has, N

-----------------------------------------------------------------------------
(***************************************************************************)
(* Good connections.                                                       *)
(***************************************************************************)

StreamType == [state : {"none", "init", "connected", "shutdown", "gone"}, pri : Priorities,
               win : -(MaxWindow + 1) .. MaxWindow, want : BOOLEAN, pause : BOOLEAN,
               ready : 0 .. RespSize, toCome : 0 .. RespSize, sent : Nat, granted : Nat]

ConnType ==
    [win : 0 .. MaxWindow, init : 0 .. MaxWindow, que : [Priorities -> Seq(Streams)],
     want : BOOLEAN, pause : BOOLEAN, buf : 0 .. FullSize + MaxFrame, room : Nat, late : Nat,
     wait : BOOLEAN, flush : BOOLEAN, pending : BOOLEAN, inEvent : BOOLEAN, open : BOOLEAN,
     total : Nat, granted : Nat, over : BOOLEAN, passed : BOOLEAN, refused : {"none", "negative", "overflow"},
     s : [Streams -> StreamType]]

LiveStates == {"init", "connected", "shutdown"}

\* Unless a SETTINGS frame lost a difference, the window of a live stream is the client's,
\* which sent no frame beyond MaxWindow and what it was granted: so the number below is
\* never so small that it wraps.
StreamFits(init, over, x) ==
    /\ ~over => x.sent <= MaxWindow + x.granted
    /\ x.ready + x.toCome <= RespSize
    /\ ~over /\ x.state \in LiveStates => x.win = Int32(init + x.granted - x.sent)

Fits(d) ==
    /\ d.win = InitWindow + d.granted - d.total
    /\ ~d.passed
    /\ \A s \in Streams : StreamFits(d.init, d.over, d.s[s])

\* Every queue holds live streams of its priority, each once, but perhaps for x.
CleanBut(d, x) ==
    \A p \in Priorities :
        /\ Once(d.que[p])
        /\ \A s \in Streams : Has(d.que[p], s) /\ s # x => d.s[s].state \in LiveStates /\ d.s[s].pri = p

Clean(d) ==
    \A p \in Priorities :
        /\ Once(d.que[p])
        /\ \A s \in Streams : Has(d.que[p], s) => d.s[s].state \in LiveStates /\ d.s[s].pri = p

Good(d) == d \in ConnType /\ Fits(d) /\ Clean(d)

LEMMA Sizes ==
    /\ NumStreams \in Nat \ {0} /\ RespSize \in Nat \ {0} /\ InitWindow \in Nat \ {0}
    /\ FlushSize \in Nat \ {0} /\ RecordSize \in Nat \ {0} /\ FullSize \in Nat \ {0}
    /\ Batch \in Nat \ {0} /\ MaxRoom \in Nat \ {0}
    /\ MaxWindow \in Nat /\ InitWindow <= MaxWindow /\ MaxDelta \in 0 .. MaxWindow
    /\ MaxFrame \in Nat \ {0}
    /\ InitSizes \subseteq Nat /\ MaxEntries \in Nat /\ MaxFrames \in Nat /\ MaxLate \in Nat
  BY H2Assumption

-----------------------------------------------------------------------------
(***************************************************************************)
(* Windows are int32_t.                                                    *)
(***************************************************************************)

LEMMA Int32Type ==
    ASSUME NEW n \in Int
    PROVE  Int32(n) \in -(MaxWindow + 1) .. MaxWindow
<1> DEFINE h == MaxWindow + 1
           m == 2 * (MaxWindow + 1)
<1>1. m \in Nat \ {0} /\ h \in Nat /\ m = h + h /\ n + MaxWindow + 1 \in Int
  BY Sizes
<1> HIDE DEF m
<1>2. (n + MaxWindow + 1) % m \in 0 .. m - 1
  BY <1>1, DivMod
<1>3. Int32(n) = ((n + MaxWindow + 1) % m) - h
  BY DEF Int32, m
<1> QED
  BY <1>1, <1>2, <1>3, Sizes

\* Int32(n) is the number in range that differs from n by a multiple of 2^32.
LEMMA Int32Value ==
    ASSUME NEW n \in Int, NEW v \in -(MaxWindow + 1) .. MaxWindow, NEW q \in Int,
           n = (2 * (MaxWindow + 1)) * q + v
    PROVE  Int32(n) = v
<1>1. PICK m \in Nat \ {0} : m = 2 * (MaxWindow + 1)
  BY Sizes
<1>2. PICK k \in Int : k = n + MaxWindow + 1
  BY Sizes
<1>3. PICK r \in 0 .. m - 1 : r = v + MaxWindow + 1
  BY <1>1, Sizes
<1>4. k = m * q + r
  BY <1>1, <1>2, <1>3, Sizes
<1>5. k % m = r
  BY <1>4, Remainder
<1> QED
  BY <1>1, <1>2, <1>3, <1>5, Sizes DEF Int32

LEMMA Int32Wraps ==
    ASSUME NEW n \in Int
    PROVE  \E q \in Int : n = (2 * (MaxWindow + 1)) * q + Int32(n)
<1>1. PICK m \in Nat \ {0} : m = 2 * (MaxWindow + 1)
  BY Sizes
<1>2. PICK k \in Int : k = n + MaxWindow + 1
  BY Sizes
<1>3. k \div m \in Int /\ k % m \in Int /\ k = m * (k \div m) + (k % m)
  BY DivMod
<1>4. PICK q \in Int, r \in Int : q = k \div m /\ r = k % m
  BY <1>3
<1>5. Int32(n) = r - (MaxWindow + 1)
  BY <1>1, <1>2, <1>4 DEF Int32
<1>6. k = m * q + r /\ m * q \in Int
  BY <1>3, <1>4
<1>7. n = m * q + Int32(n)
  BY <1>2, <1>5, <1>6, Sizes
<1> QED
  BY <1>1, <1>7

LEMMA Int32Facts ==
    ASSUME NEW n \in Int, NEW k \in Int
    PROVE  /\ Int32(Int32(n) + k) = Int32(n + k)
           /\ n \in -(MaxWindow + 1) .. MaxWindow => Int32(n) = n
           /\ k \in 0 .. Int32(n) => Int32(n - k) = Int32(n) - k
           /\ n >= -(MaxWindow + 1) /\ k \in 1 .. Int32(n) => n >= k
<1>m. PICK m \in Nat \ {0} : m = 2 * (MaxWindow + 1)
  BY Sizes
<1>t. MaxWindow \in Nat
  BY Sizes
<1>1. n \in -(MaxWindow + 1) .. MaxWindow => Int32(n) = n
  <2>1. n = m * 0 + n
    BY <1>m
  <2> QED
    BY <1>m, <2>1, Int32Value
<1>2. PICK q \in Int : n = m * q + Int32(n)
  BY <1>m, Int32Wraps
<1>3. PICK v \in -(MaxWindow + 1) .. MaxWindow : v = Int32(n)
  BY Int32Type
<1>4. m * q \in Int /\ v \in Int
  BY <1>t
<1>5. Int32(v + k) = Int32(n + k)
  <2>1. v + k \in Int /\ n + k \in Int
    BY <1>4
  <2>2. PICK p \in Int : v + k = m * p + Int32(v + k)
    BY <1>m, <2>1, Int32Wraps
  <2>3. PICK u \in -(MaxWindow + 1) .. MaxWindow : u = Int32(v + k)
    BY <2>1, Int32Type
  <2>4. m * p \in Int /\ m * (q + p) = m * q + m * p /\ q + p \in Int /\ u \in Int
    BY <1>t
  <2>5. n + k = m * (q + p) + u
    BY <1>2, <1>3, <1>4, <2>2, <2>3, <2>4
  <2> QED
    BY <1>m, <2>1, <2>3, <2>4, <2>5, Int32Value
<1>6. k \in 0 .. v => Int32(n - k) = v - k
  <2> SUFFICES ASSUME k \in 0 .. v PROVE Int32(n - k) = v - k
    OBVIOUS
  <2>1. v - k \in -(MaxWindow + 1) .. MaxWindow /\ n - k \in Int
    BY <1>t
  <2>2. n - k = m * q + (v - k)
    BY <1>2, <1>3, <1>4
  <2> QED
    BY <1>m, <2>1, <2>2, Int32Value
<1>7. n >= -(MaxWindow + 1) /\ k \in 1 .. v => n >= k
  BY <1>1, <1>3, <1>t
<1> QED
  BY <1>1, <1>3, <1>5, <1>6, <1>7

-----------------------------------------------------------------------------
(***************************************************************************)
(* Steps that touch the socket, its buffer and the flags only.             *)
(***************************************************************************)

\* What is buffered is polled for, or will be flushed at the end of the event.
LinkOk(d) == d.buf > 0 => d.want \/ (d.inEvent /\ d.flush)

\* The streams will be looked at: at the end of the event, or when the socket is writable.
Awake(d) == (d.inEvent => d.wait) /\ (~d.inEvent => d.want)

\* what a step of the link keeps
Link(d, e) ==
    /\ e.open = d.open /\ e.refused = d.refused /\ e.pending = d.pending
    /\ e.inEvent = d.inEvent /\ e.init = d.init /\ e.granted = d.granted /\ e.over = d.over
    /\ d.want => e.want
    /\ d.wait => e.wait
    /\ d.pause => e.pause
    /\ e.pause => d.pause \/ e.want
    /\ LinkOk(d) => LinkOk(e)

Output(d, e) ==
    /\ e \in ConnType
    /\ e.win = d.win /\ e.que = d.que /\ e.s = d.s
    /\ e.total = d.total /\ e.passed = d.passed
    /\ Link(d, e)

LEMMA LinkTrans ==
    ASSUME NEW d, NEW e, NEW f, Link(d, e), Link(e, f)
    PROVE  Link(d, f)
  BY DEF Link

LEMMA LinkAwake ==
    ASSUME NEW d, NEW e, Link(d, e), Awake(d)
    PROVE  Awake(e)
  BY DEF Link, Awake

LEMMA OutputGood ==
    ASSUME NEW d, NEW e, Output(d, e)
    PROVE  /\ Fits(d) => Fits(e)
           /\ Clean(d) => Clean(e)
           /\ Good(d) => Good(e)
  BY DEF Output, Link, Fits, Clean, Good

LEMMA OutputTrans ==
    ASSUME NEW d, NEW e, NEW f, Output(d, e), Output(e, f)
    PROVE  Output(d, f)
  BY LinkTrans DEF Output

LEMMA FlagSteps ==
    ASSUME NEW d \in ConnType
    PROVE  /\ Output(d, d)
           /\ Output(d, ContinueWrite(d)) /\ ContinueWrite(d).want /\ ContinueWrite(d).buf = d.buf
           /\ Output(d, NeedWriteEvent(d)) /\ (LinkOk(d) => Awake(NeedWriteEvent(d)))
           /\ Output(d, WantFlush(d))
           /\ Output(d, WantFlush2(d)) /\ WantFlush2(d).buf = d.buf
           /\ LET e == WantFlush2(d) IN LinkOk(d) => e.want \/ (e.inEvent /\ e.flush)
<1>t. /\ d.want \in BOOLEAN /\ d.pause \in BOOLEAN /\ d.inEvent \in BOOLEAN
      /\ d.wait \in BOOLEAN /\ d.flush \in BOOLEAN /\ d.buf \in Nat
  BY Sizes DEF ConnType
<1>1. Output(d, d)
  BY DEF Output, Link
<1>2. Output(d, ContinueWrite(d)) /\ ContinueWrite(d).want
      /\ ContinueWrite(d).inEvent = d.inEvent /\ ContinueWrite(d).buf = d.buf
  <2>1. PICK e : e = ContinueWrite(d)
    OBVIOUS
  <2>2. /\ e \in ConnType /\ e.want = TRUE /\ e.pause = d.pause /\ e.buf = d.buf
        /\ e.inEvent = d.inEvent /\ e.flush = d.flush /\ e.late = d.late /\ e.room = d.room
        /\ e.wait = d.wait /\ e.win = d.win /\ e.init = d.init /\ e.que = d.que /\ e.s = d.s
        /\ e.total = d.total /\ e.passed = d.passed /\ e.granted = d.granted /\ e.over = d.over
        /\ e.open = d.open /\ e.refused = d.refused /\ e.pending = d.pending
    BY <2>1 DEF ContinueWrite, ConnType
  <2>3. Link(d, e)
    BY <2>2 DEF Link, LinkOk
  <2> QED
    BY <2>1, <2>2, <2>3 DEF Output
<1>3. PICK e : e = [d EXCEPT !.wait = TRUE]
  OBVIOUS
<1>4. Output(d, e) /\ e.wait /\ e.inEvent = d.inEvent
  <2>2. /\ e \in ConnType /\ e.wait = TRUE /\ e.pause = d.pause /\ e.buf = d.buf
        /\ e.inEvent = d.inEvent /\ e.flush = d.flush /\ e.late = d.late /\ e.room = d.room
        /\ e.want = d.want /\ e.win = d.win /\ e.init = d.init /\ e.que = d.que /\ e.s = d.s
        /\ e.total = d.total /\ e.passed = d.passed /\ e.granted = d.granted /\ e.over = d.over
        /\ e.open = d.open /\ e.refused = d.refused /\ e.pending = d.pending
    BY <1>3 DEF ConnType
  <2>3. Link(d, e)
    BY <2>2 DEF Link, LinkOk
  <2> QED
    BY <2>2, <2>3 DEF Output
<1>5. PICK f : f = [d EXCEPT !.flush = TRUE]
  OBVIOUS
<1>6. Output(d, f) /\ f.flush /\ f.inEvent = d.inEvent /\ f.buf = d.buf
  <2>2. /\ f \in ConnType /\ f.flush = TRUE /\ f.pause = d.pause /\ f.buf = d.buf
        /\ f.inEvent = d.inEvent /\ f.wait = d.wait /\ f.late = d.late /\ f.room = d.room
        /\ f.want = d.want /\ f.win = d.win /\ f.init = d.init /\ f.que = d.que /\ f.s = d.s
        /\ f.total = d.total /\ f.passed = d.passed /\ f.granted = d.granted /\ f.over = d.over
        /\ f.open = d.open /\ f.refused = d.refused /\ f.pending = d.pending
    BY <1>5 DEF ConnType
  <2>3. Link(d, f)
    BY <2>2 DEF Link, LinkOk
  <2> QED
    BY <2>2, <2>3 DEF Output
<1>7. Output(d, NeedWriteEvent(d)) /\ (LinkOk(d) => Awake(NeedWriteEvent(d)))
  BY <1>t, <1>1, <1>2, <1>3, <1>4 DEF NeedWriteEvent, LinkOk, Awake
<1>8. Output(d, WantFlush(d))
  BY <1>2, <1>5, <1>6 DEF WantFlush
<1>9. /\ Output(d, WantFlush2(d)) /\ WantFlush2(d).buf = d.buf
      /\ LinkOk(d) => WantFlush2(d).want \/ (WantFlush2(d).inEvent /\ WantFlush2(d).flush)
  BY <1>t, <1>1, <1>2, <1>5, <1>6 DEF WantFlush2, LinkOk
<1> QED
  BY <1>1, <1>2, <1>7, <1>8, <1>9

LEMMA DrainStep ==
    ASSUME NEW d \in ConnType
    PROVE  /\ Output(d, Drain(d)) /\ Drain(d).buf <= d.buf
           /\ Drain(d).want = d.want /\ Drain(d).flush = d.flush
           /\ Output(d, Flush(d)) /\ Flush(d).buf <= d.buf
           /\ Flush(d).buf > 0 => Flush(d).want /\ Flush(d).pause
           /\ Flush(d).buf = 0 => Flush(d).pause = d.pause
<1>1. d.buf \in 0 .. FullSize + MaxFrame /\ d.room \in Nat /\ d.late \in Nat /\ FullSize \in Nat
      /\ MaxFrame \in Nat
  BY Sizes DEF ConnType
<1> DEFINE n == IF d.buf <= d.room THEN d.buf ELSE d.room
           b == d.buf - n
           m == IF d.buf > d.room THEN d.late ELSE d.room - n
           l == IF d.buf > d.room THEN 0 ELSE d.late
<1>2. /\ b \in 0 .. FullSize + MaxFrame /\ b <= d.buf /\ m \in Nat /\ l \in Nat
      /\ d.late = 0 => l = 0 /\ (b > 0 => m = 0)
      /\ d.room = 0 /\ d.buf > 0 => b = d.buf
  BY <1>1
<1>3. PICK e : e = Drain(d)
  OBVIOUS
<1>4. e = [d EXCEPT !.buf = b, !.room = m, !.late = l]
  BY <1>3 DEF Drain
<1> HIDE DEF n, b, m, l
<1>5. /\ e \in ConnType /\ e.want = d.want /\ e.pause = d.pause /\ e.buf = b
      /\ e.inEvent = d.inEvent /\ e.flush = d.flush /\ e.late = l /\ e.room = m
      /\ e.wait = d.wait /\ e.win = d.win /\ e.init = d.init /\ e.que = d.que /\ e.s = d.s
      /\ e.total = d.total /\ e.passed = d.passed /\ e.granted = d.granted /\ e.over = d.over
      /\ e.open = d.open /\ e.refused = d.refused /\ e.pending = d.pending
  BY <1>2, <1>4 DEF ConnType
<1>6. Link(d, e)
  BY <1>1, <1>2, <1>5 DEF Link, LinkOk
<1>7. Output(d, e) /\ e.buf <= d.buf
  BY <1>2, <1>5, <1>6 DEF Output
<1>8. PICK f : f = Flush(d)
  OBVIOUS
<1>9. CASE e.buf # 0
  <2>1. f = [e EXCEPT !.want = TRUE, !.pause = TRUE]
    BY <1>3, <1>8, <1>9 DEF Flush
  <2>2. /\ f \in ConnType /\ f.want = TRUE /\ f.pause = TRUE /\ f.buf = b
        /\ f.inEvent = d.inEvent /\ f.flush = d.flush /\ f.late = l /\ f.room = m
        /\ f.wait = d.wait /\ f.win = d.win /\ f.init = d.init /\ f.que = d.que /\ f.s = d.s
        /\ f.total = d.total /\ f.passed = d.passed /\ f.granted = d.granted /\ f.over = d.over
        /\ f.open = d.open /\ f.refused = d.refused /\ f.pending = d.pending
    BY <1>5, <2>1 DEF ConnType
  <2>3. Link(d, f)
    BY <1>1, <1>2, <1>5, <1>9, <2>2 DEF Link, LinkOk
  <2> QED
    BY <1>2, <1>3, <1>5, <1>7, <1>8, <1>9, <2>2, <2>3 DEF Output
<1>10. CASE e.buf = 0
  <2>1. f = [e EXCEPT !.flush = FALSE]
    BY <1>3, <1>8, <1>10 DEF Flush
  <2>2. /\ f \in ConnType /\ f.want = d.want /\ f.pause = d.pause /\ f.buf = 0
        /\ f.inEvent = d.inEvent /\ f.flush = FALSE /\ f.late = l /\ f.room = m
        /\ f.wait = d.wait /\ f.win = d.win /\ f.init = d.init /\ f.que = d.que /\ f.s = d.s
        /\ f.total = d.total /\ f.passed = d.passed /\ f.granted = d.granted /\ f.over = d.over
        /\ f.open = d.open /\ f.refused = d.refused /\ f.pending = d.pending
    BY <1>5, <1>10, <2>1 DEF ConnType
  <2>3. Link(d, f)
    BY <1>1, <1>2, <1>5, <1>10, <2>2 DEF Link, LinkOk
  <2> QED
    BY <1>1, <1>3, <1>5, <1>7, <1>8, <2>2, <2>3 DEF Output
<1> QED
  BY <1>1, <1>5, <1>9, <1>10

\* The end of the event will see the buffer, or the socket is polled for it.
Asked(d) == d.want \/ (d.inEvent /\ d.flush)

\* The buffer takes a unit of a frame.
LEMMA Append1Step ==
    ASSUME NEW d \in ConnType, NEW f, Output(d, f), LinkOk(d) => Asked(f), f.buf < FullSize + MaxFrame,
           NEW h, h = Append1(f)
    PROVE  /\ Output(d, h) /\ h.buf <= f.buf + 1
           /\ LinkOk(d) => Asked(h)
<1>1. f \in ConnType /\ Link(d, f) /\ f.buf \in Nat
  BY Sizes DEF Output, ConnType
<1>3. PICK b \in 0 .. FullSize + MaxFrame : b = f.buf + 1
  BY <1>1, Sizes
<1>4. PICK e : e = [f EXCEPT !.buf = b]
  OBVIOUS
<1>5. /\ e \in ConnType /\ e.want = f.want /\ e.pause = f.pause /\ e.buf = b
      /\ e.inEvent = f.inEvent /\ e.flush = f.flush /\ e.late = f.late /\ e.room = f.room
      /\ e.wait = f.wait /\ e.win = f.win /\ e.init = f.init /\ e.que = f.que /\ e.s = f.s
      /\ e.total = f.total /\ e.passed = f.passed /\ e.granted = f.granted /\ e.over = f.over
      /\ e.open = f.open /\ e.refused = f.refused /\ e.pending = f.pending
  BY <1>1, <1>4 DEF ConnType
<1>6. Link(d, e)
  BY <1>1, <1>5 DEF Link, LinkOk, Asked
<1>7. Output(d, e)
  BY <1>5, <1>6 DEF Output
<1>8. h = IF e.buf = RecordSize THEN Drain(e) ELSE e
  BY <1>3, <1>4 DEF Append1
<1>9. PICK g : g = Drain(e)
  OBVIOUS
<1>10. Output(e, g) /\ g.buf <= b /\ g.want = e.want /\ g.flush = e.flush /\ g.inEvent = e.inEvent
  BY <1>5, <1>9, DrainStep DEF Output, Link
<1>11. Output(d, g)
  BY <1>7, <1>10, OutputTrans
<1> QED
  BY <1>3, <1>5, <1>7, <1>8, <1>9, <1>10, <1>11 DEF Asked

LEMMA BufNat ==
    ASSUME NEW d \in ConnType
    PROVE  d.buf \in Nat
  BY Sizes DEF ConnType

\* The buffer takes a frame.
LEMMA AppendStep ==
    ASSUME NEW d \in ConnType, d.buf < FullSize, NEW n \in 1 .. MaxFrame
    PROVE  Output(d, AppendOutput(WantFlush2(d), n))
<1>a. PICK f : f = WantFlush2(d)
  OBVIOUS
<1>b. f \in ConnType /\ Output(d, f) /\ f.buf = d.buf /\ (LinkOk(d) => Asked(f))
  BY <1>a, FlagSteps DEF Output, Asked
<1>c. d.buf \in Nat /\ FullSize \in Nat
  BY Sizes DEF ConnType
<1> DEFINE N == MaxFrame
           fill[i \in 0..MaxFrame] == IF i = 0 THEN f ELSE Append1(fill[i - 1])
           S(i) == {e \in ConnType : Output(d, e) /\ e.buf <= d.buf + i /\ (LinkOk(d) => Asked(e))}
           T == [i \in 0 .. N |-> S(i)]
           g == [i \in 0 .. N - 1 |-> [e \in ConnType |-> Append1(e)]]
<1>1. N \in Nat
  BY Sizes
<1>2. ASSUME NEW i \in 0 .. N - 1, NEW e \in S(i) PROVE Append1(e) \in S(i + 1)
  <2>1. e.buf \in Nat /\ e.buf <= d.buf + i /\ e.buf < FullSize + MaxFrame
    BY <1>1, <1>c, Sizes DEF ConnType
  <2>2. PICK h : h = Append1(e)
    OBVIOUS
  <2>3. Output(d, h) /\ h.buf <= e.buf + 1 /\ (LinkOk(d) => Asked(h))
    BY <2>1, <2>2, Append1Step
  <2>4. h \in ConnType /\ h.buf \in Nat
    <3>1. h \in ConnType
      BY <2>3 DEF Output
    <3> QED
      BY <3>1, BufNat
  <2>5. h.buf <= d.buf + (i + 1)
    <3>1. i \in Nat
      BY <1>1
    <3> QED
      BY <1>c, <2>1, <2>3, <2>4, <3>1
  <2> QED
    BY <2>2, <2>3, <2>4, <2>5
<1>3. f \in S(0)
  BY <1>b, <1>c
<1>4. \A i \in 0 .. N : S(i) \subseteq ConnType
  OBVIOUS
<1>s. \A i \in 0 .. N : \A e \in S(i) : Output(d, e)
  OBVIOUS
<1> HIDE DEF S, N, fill
<1>5. /\ \A i \in 0 .. N : T[i] = S(i)
      /\ \A i \in 0 .. N - 1 : i \in 0 .. N /\ i + 1 \in 0 .. N
      /\ 0 \in 0 .. N
  BY <1>1
<1>6. \A i \in 0 .. N - 1 : \A e \in ConnType : g[i][e] = Append1(e)
  OBVIOUS
<1> HIDE DEF T, g
<1>7. Leads(N, T, g)
  <2> SUFFICES ASSUME NEW i \in 0 .. N - 1, NEW e \in T[i] PROVE g[i][e] \in T[i + 1]
    BY DEF Leads
  <2>1. e \in S(i) /\ e \in ConnType /\ T[i + 1] = S(i + 1)
    BY <1>4, <1>5
  <2> QED
    BY <1>2, <1>6, <2>1
<1>8. PICK w : Walk(N, T, g, f, w)
  BY <1>1, <1>3, <1>5, <1>7, WalkExists
<1>9. w = [i \in 0 .. N |-> IF i = 0 THEN f ELSE Append1(w[i - 1])]
  <2>1. ASSUME NEW i \in 0 .. N, i # 0 PROVE w[i] = Append1(w[i - 1])
    <3>1. i - 1 \in 0 .. N - 1 /\ i - 1 \in 0 .. N /\ (i - 1) + 1 = i
      BY <1>1, <2>1
    <3>2. w[i - 1] \in ConnType /\ w[(i - 1) + 1] = g[i - 1][w[i - 1]]
      BY <1>4, <1>5, <1>8, <3>1 DEF Walk
    <3> QED
      BY <1>6, <3>1, <3>2
  <2> QED
    BY <1>8, <2>1 DEF Walk
<1>10. fill = [i \in 0 .. N |-> IF i = 0 THEN f ELSE Append1(fill[i - 1])]
  BY <1>9 DEF fill, N
<1> DEFINE P == {i \in Nat : i <= N => fill[i] \in S(i)}
<1>11. \A i \in Nat : i \in P
  <2>1. 0 \in P
    BY <1>1, <1>3, <1>5, <1>10
  <2>2. ASSUME NEW i \in Nat, i \in P PROVE i + 1 \in P
    <3> SUFFICES ASSUME i + 1 <= N PROVE fill[i + 1] \in S(i + 1)
      OBVIOUS
    <3>1. i \in 0 .. N - 1 /\ fill[i] \in S(i) /\ (i + 1) - 1 = i /\ i + 1 \in 0 .. N /\ i + 1 # 0
      BY <1>1, <2>2
    <3>2. fill[i + 1] = Append1(fill[i])
      BY <1>10, <3>1
    <3> QED
      BY <1>2, <3>1, <3>2
  <2> HIDE DEF P
  <2> QED
    BY <2>1, <2>2, NatInSet
<1>12. n \in 0 .. N /\ fill[n] \in S(n)
  BY <1>1, <1>11 DEF N
<1>13. AppendOutput(f, n) = fill[n]
  BY DEF AppendOutput, fill
<1> QED
  BY <1>a, <1>s, <1>12, <1>13

-----------------------------------------------------------------------------
(***************************************************************************)
(* Steps for one stream.                                                   *)
(***************************************************************************)

In(d, s) == \E p \in Priorities : Has(d.que[p], s)

\* From d to e only stream s changed, and where it is queued.
Touches(d, e, s) ==
    /\ e \in ConnType
    /\ Link(d, e)
    /\ \A t \in Streams : t # s => e.s[t] = d.s[t]
    /\ \A p \in Priorities : \A t \in Streams : t # s => (Has(e.que[p], t) <=> Has(d.que[p], t))
    /\ \A p \in Priorities : Prefix(d.que[p], e.que[p], {s})

\* as above, and the stream itself is the same: s was put somewhere
Places(d, e, s) ==
    /\ Touches(d, e, s)
    /\ e.s = d.s /\ e.win = d.win /\ e.total = d.total /\ e.passed = d.passed

LEMMA PrefixTrans ==
    ASSUME NEW q, NEW r, NEW u, NEW gone, Len(q) \in Nat, Len(r) \in Nat,
           Prefix(q, r, gone), Prefix(r, u, gone)
    PROVE  Prefix(q, u, gone)
<1> SUFFICES ASSUME NEW m \in 0 .. Len(q), Free(q, m, gone) PROVE Ahead(q, u, m)
  BY DEF Prefix
<1>1. Ahead(q, r, m)
  BY DEF Prefix
<1>2. m \in 0 .. Len(r) /\ Free(r, m, gone)
  BY <1>1 DEF Ahead, Free
<1>3. Ahead(r, u, m)
  BY <1>2 DEF Prefix
<1> QED
  BY <1>1, <1>3 DEF Ahead

LEMMA PrefixSame ==
    ASSUME NEW q, NEW gone, Len(q) \in Nat
    PROVE  Prefix(q, q, gone)
  BY DEF Prefix, Ahead

LEMMA PrefixAppend ==
    ASSUME NEW S, NEW q \in Seq(S), NEW x \in S, NEW gone
    PROVE  Prefix(q, Append(q, x), gone)
  BY DEF Prefix, Ahead

LEMMA QueueTypes ==
    ASSUME NEW d \in ConnType
    PROVE  /\ d.que \in [Priorities -> Seq(Streams)]
           /\ \A p \in Priorities : d.que[p] \in Seq(Streams) /\ Len(d.que[p]) \in Nat
           /\ d.s \in [Streams -> StreamType]
           /\ \A s \in Streams : d.s[s] \in StreamType /\ d.s[s].pri \in Priorities
<1>1. d.que \in [Priorities -> Seq(Streams)] /\ d.s \in [Streams -> StreamType]
  BY DEF ConnType
<1>2. \A p \in Priorities : d.que[p] \in Seq(Streams)
  BY <1>1
<1>3. \A p \in Priorities : Len(d.que[p]) \in Nat
  BY <1>2
<1>4. \A s \in Streams : d.s[s] \in StreamType
  BY <1>1
<1>5. \A s \in Streams : d.s[s].pri \in Priorities
  BY <1>4 DEF StreamType
<1> QED
  BY <1>1, <1>2, <1>3, <1>4, <1>5

LEMMA TouchesTrans ==
    ASSUME NEW d \in ConnType, NEW e, NEW f, NEW s, Touches(d, e, s), Touches(e, f, s)
    PROVE  Touches(d, f, s)
<1>1. e \in ConnType /\ f \in ConnType
  BY DEF Touches
<1>2. Link(d, f)
  BY LinkTrans DEF Touches
<1>3. \A p \in Priorities : Prefix(d.que[p], f.que[p], {s})
  <2> TAKE p \in Priorities
  <2>1. Len(d.que[p]) \in Nat /\ Len(e.que[p]) \in Nat
    BY <1>1, QueueTypes
  <2>2. Prefix(d.que[p], e.que[p], {s}) /\ Prefix(e.que[p], f.que[p], {s})
    BY DEF Touches
  <2> QED
    BY <2>1, <2>2, PrefixTrans
<1> QED
  BY <1>1, <1>2, <1>3 DEF Touches

LEMMA PlacesTrans ==
    ASSUME NEW d \in ConnType, NEW e, NEW f, NEW s, Places(d, e, s), Places(e, f, s)
    PROVE  Places(d, f, s)
  BY TouchesTrans DEF Places

LEMMA OutputPlaces ==
    ASSUME NEW d \in ConnType, NEW e, NEW s, Output(d, e)
    PROVE  Places(d, e, s)
<1>1. \A p \in Priorities : Prefix(d.que[p], d.que[p], {s})
  BY QueueTypes, PrefixSame
<1> QED
  BY <1>1 DEF Output, Places, Touches

LEMMA PlacesFits ==
    ASSUME NEW d, NEW e, NEW s, Places(d, e, s), Fits(d)
    PROVE  Fits(e)
  BY DEF Places, Touches, Link, Fits

LEMMA AddStep ==
    ASSUME NEW d \in ConnType, NEW s \in Streams, NEW e, e = Add2PriorityQue(d, s)
    PROVE  /\ Places(d, e, s)
           /\ e.wait /\ (~d.inEvent /\ d.win > 0 => e.want) /\ e.buf = d.buf
           /\ \A p \in Priorities : Has(e.que[p], s) <=> p = d.s[s].pri
           /\ \A p \in Priorities : Once(d.que[p]) => Once(e.que[p])
<1> DEFINE w(p) == Without(d.que[p], s)
           que == [p \in Priorities |-> IF p = d.s[s].pri THEN Append(w(p), s) ELSE w(p)]
<1>1. \A p \in Priorities : d.que[p] \in Seq(Streams) /\ d.s[s].pri \in Priorities
  BY QueueTypes
<1>2. ASSUME NEW p \in Priorities
      PROVE  /\ w(p) \in Seq(Streams)
             /\ \A t : Has(w(p), t) <=> Has(d.que[p], t) /\ t # s
             /\ Once(d.que[p]) => Once(w(p))
             /\ Prefix(d.que[p], w(p), {s})
  BY <1>1, DropWorks DEF Without
<1> HIDE DEF w
<1>3. ASSUME NEW p \in Priorities
      PROVE  /\ Append(w(p), s) \in Seq(Streams)
             /\ \A t : Has(Append(w(p), s), t) <=> Has(w(p), t) \/ t = s
             /\ Once(w(p)) /\ ~Has(w(p), s) => Once(Append(w(p), s))
             /\ Prefix(w(p), Append(w(p), s), {s})
  BY <1>2, AppendHas, PrefixAppend
<1>4. ASSUME NEW p \in Priorities PROVE Prefix(d.que[p], Append(w(p), s), {s})
  <2>1. Len(d.que[p]) \in Nat /\ Len(w(p)) \in Nat
    BY <1>1, <1>2
  <2> QED
    BY <1>2, <1>3, <2>1, PrefixTrans
<1>5. que \in [Priorities -> Seq(Streams)]
  BY <1>2, <1>3
<1>6. /\ \A p \in Priorities : Has(que[p], s) <=> p = d.s[s].pri
      /\ \A p \in Priorities : \A t \in Streams : t # s => (Has(que[p], t) <=> Has(d.que[p], t))
      /\ \A p \in Priorities : Once(d.que[p]) => Once(que[p])
      /\ \A p \in Priorities : Prefix(d.que[p], que[p], {s})
  BY <1>2, <1>3, <1>4
<1>7. PICK f : f = [d EXCEPT !.que = que, !.wait = TRUE]
  BY Zenon
<1>8. e = IF ~f.inEvent /\ f.win > 0 THEN ContinueWrite(f) ELSE f
  BY <1>7 DEF Add2PriorityQue, w
<1> HIDE DEF que
<1>9. /\ f \in ConnType /\ f.que = que /\ f.wait = TRUE /\ f.pause = d.pause /\ f.buf = d.buf
      /\ f.inEvent = d.inEvent /\ f.flush = d.flush /\ f.late = d.late /\ f.room = d.room
      /\ f.want = d.want /\ f.win = d.win /\ f.init = d.init /\ f.s = d.s
      /\ f.total = d.total /\ f.passed = d.passed /\ f.granted = d.granted /\ f.over = d.over
      /\ f.open = d.open /\ f.refused = d.refused /\ f.pending = d.pending
  BY <1>5, <1>7 DEF ConnType
<1>10. Link(d, f)
  BY <1>9 DEF Link, LinkOk
<1>11. Places(d, f, s)
  BY <1>6, <1>9, <1>10 DEF Places, Touches
<1>12. Output(f, e) /\ (~f.inEvent /\ f.win > 0 => e.want) /\ e.buf = f.buf
  BY <1>8, <1>9, FlagSteps
<1>13. Places(d, e, s) /\ e.wait /\ e.que = que
  BY <1>9, <1>11, <1>12, OutputPlaces, PlacesTrans DEF Output, Link
<1> QED
  BY <1>6, <1>9, <1>12, <1>13

LEMMA AddClean ==
    ASSUME NEW d \in ConnType, NEW s \in Streams, NEW e, e = Add2PriorityQue(d, s),
           CleanBut(d, s), d.s[s].state \in LiveStates
    PROVE  Clean(e)
<1>1. /\ Places(d, e, s)
      /\ \A p \in Priorities : Has(e.que[p], s) <=> p = d.s[s].pri
      /\ \A p \in Priorities : Once(d.que[p]) => Once(e.que[p])
  BY AddStep
<1>2. ASSUME NEW p \in Priorities, NEW t \in Streams, Has(e.que[p], t)
      PROVE  e.s[t].state \in LiveStates /\ e.s[t].pri = p
  <2>1. CASE t = s
    BY <1>1, <1>2, <2>1 DEF Places
  <2>2. CASE t # s
    BY <1>1, <1>2, <2>2 DEF Places, Touches, CleanBut
  <2> QED
    BY <2>1, <2>2
<1> QED
  BY <1>1, <1>2 DEF Clean, CleanBut

LEMMA EnqueueStep ==
    ASSUME NEW d \in ConnType, NEW s \in Streams, NEW e, e = Enqueue(d, s)
    PROVE  /\ Places(d, e, s)
           /\ \E p \in Priorities : Has(e.que[p], s)
           /\ Clean(d) /\ d.s[s].state \in LiveStates => Clean(e)
<1>1. CASE Queued(d, s)
  BY <1>1, FlagSteps, OutputPlaces DEF Enqueue, Queued, Has
<1>2. CASE ~Queued(d, s)
  <2>1. e = Add2PriorityQue(d, s)
    BY <1>2 DEF Enqueue
  <2>2. Places(d, e, s) /\ \A p \in Priorities : Has(e.que[p], s) <=> p = d.s[s].pri
    BY <2>1, AddStep
  <2>3. Clean(d) => CleanBut(d, s)
    BY DEF Clean, CleanBut
  <2> QED
    BY <2>1, <2>2, <2>3, AddClean, QueueTypes
<1> QED
  BY <1>1, <1>2

-----------------------------------------------------------------------------
(***************************************************************************)
(* The fields of a stream.                                                 *)
(***************************************************************************)

\* From d to e stream s becomes x, and nothing else changes.
Sets(d, e, s, x) ==
    /\ e \in ConnType
    /\ e.s[s] = x /\ \A t \in Streams : t # s => e.s[t] = d.s[t]
    /\ e.want = d.want /\ e.pause = d.pause /\ e.buf = d.buf /\ e.wait = d.wait
    /\ e.inEvent = d.inEvent /\ e.flush = d.flush /\ e.late = d.late /\ e.room = d.room
    /\ e.win = d.win /\ e.init = d.init /\ e.que = d.que
    /\ e.total = d.total /\ e.passed = d.passed /\ e.granted = d.granted /\ e.over = d.over
    /\ e.open = d.open /\ e.refused = d.refused /\ e.pending = d.pending

LEMMA SetStream ==
    ASSUME NEW d \in ConnType, NEW s \in Streams, NEW x \in StreamType,
           NEW e, e = [d EXCEPT !.s[s] = x]
    PROVE  Sets(d, e, s, x)
<1>1. d.s \in [Streams -> StreamType]
  BY DEF ConnType
<1>2. PICK y : y = [d.s EXCEPT ![s] = x]
  OBVIOUS
<1>3. y \in [Streams -> StreamType] /\ y[s] = x /\ \A t \in Streams : t # s => y[t] = d.s[t]
  BY <1>1, <1>2
<1>4. e = [d EXCEPT !.s = y]
  BY <1>2
<1>5. e \in ConnType /\ e.s = y
  BY <1>3, <1>4 DEF ConnType
<1> QED
  BY <1>3, <1>4, <1>5 DEF Sets, ConnType

LEMMA SetsTouches ==
    ASSUME NEW d \in ConnType, NEW s \in Streams, NEW x, NEW e, Sets(d, e, s, x)
    PROVE  Touches(d, e, s)
<1>1. \A p \in Priorities : Prefix(d.que[p], d.que[p], {s})
  BY QueueTypes, PrefixSame
<1>2. Link(d, e)
  BY DEF Sets, Link, LinkOk
<1> QED
  BY <1>1, <1>2 DEF Sets, Touches

LEMMA SetsGood ==
    ASSUME NEW d \in ConnType, NEW s \in Streams, NEW x, NEW e, Sets(d, e, s, x)
    PROVE  /\ Fits(d) /\ StreamFits(d.init, d.over, x) => Fits(e)
           /\ Clean(d) /\ x.state \in LiveStates /\ x.pri = d.s[s].pri => Clean(e)
           /\ Clean(d) => CleanBut(e, s)
<1>1. Fits(d) /\ StreamFits(d.init, d.over, x) => Fits(e)
  BY DEF Sets, Fits
<1>2. Clean(d) => CleanBut(e, s)
  BY DEF Sets, Clean, CleanBut
<1>3. Clean(d) /\ x.state \in LiveStates /\ x.pri = d.s[s].pri => Clean(e)
  BY DEF Sets, Clean
<1> QED
  BY <1>1, <1>2, <1>3

LEMMA StreamFields ==
    ASSUME NEW d \in ConnType, NEW s \in Streams
    PROVE  /\ d.s[s].state \in {"none", "init", "connected", "shutdown", "gone"}
           /\ d.s[s].pri \in Priorities /\ d.s[s].win \in -(MaxWindow + 1) .. MaxWindow
           /\ d.s[s].want \in BOOLEAN /\ d.s[s].pause \in BOOLEAN
           /\ d.s[s].ready \in 0 .. RespSize /\ d.s[s].toCome \in 0 .. RespSize
           /\ d.s[s].sent \in Nat /\ d.s[s].granted \in Nat
<1>1. d.s[s] \in StreamType
  BY QueueTypes
<1> QED
  BY <1>1 DEF StreamType

\* The stream wants to write (and is paused): it is queued, and will be looked at.
Asks(d, e, s, b) ==
    /\ Clean(e)
    /\ Good(d) => Good(e)
    /\ Touches(d, e, s)
    /\ e.win = d.win /\ e.total = d.total /\ e.passed = d.passed
    /\ e.s[s] = [d.s[s] EXCEPT !.want = TRUE, !.pause = b]
    /\ \E p \in Priorities : Has(e.que[p], s)
    /\ LinkOk(d) => Awake(e)

LEMMA AskStep ==
    ASSUME NEW d \in ConnType, Clean(d), NEW s \in Streams, d.s[s].state \in LiveStates,
           NEW b \in BOOLEAN, NEW f, f = [d EXCEPT !.s[s] = [d.s[s] EXCEPT !.want = TRUE, !.pause = b]],
           NEW e, e = NeedWriteEvent(Enqueue(f, s))
    PROVE  Asks(d, e, s, b)
<1>1. d \in ConnType /\ Clean(d)
  OBVIOUS
<1>2. PICK y : y = [d.s[s] EXCEPT !.want = TRUE, !.pause = b]
  OBVIOUS
<1>3. d.s[s] \in StreamType /\ (Fits(d) => StreamFits(d.init, d.over, d.s[s]))
  BY <1>1, QueueTypes DEF Fits
<1>4. y \in StreamType /\ y.state = d.s[s].state /\ y.pri = d.s[s].pri
      /\ (Fits(d) => StreamFits(d.init, d.over, y))
  <2>1. /\ y \in StreamType /\ y.state = d.s[s].state /\ y.pri = d.s[s].pri
        /\ y.win = d.s[s].win /\ y.ready = d.s[s].ready /\ y.toCome = d.s[s].toCome
        /\ y.sent = d.s[s].sent /\ y.granted = d.s[s].granted
    BY <1>2, <1>3 DEF StreamType
  <2> QED
    BY <1>3, <2>1 DEF StreamFits
<1>5. Sets(d, f, s, y)
  BY <1>1, <1>2, <1>4, SetStream
<1>6. f \in ConnType /\ (Fits(d) => Fits(f)) /\ Clean(f) /\ Touches(d, f, s) /\ f.s[s] = y
      /\ f.win = d.win /\ f.total = d.total /\ f.passed = d.passed
  <2>1. f \in ConnType /\ f.s[s] = y /\ f.win = d.win /\ f.total = d.total /\ f.passed = d.passed
    BY <1>5 DEF Sets
  <2>2. Touches(d, f, s)
    BY <1>1, <1>5, SetsTouches
  <2>3. (Fits(d) => Fits(f)) /\ Clean(f)
    BY <1>1, <1>4, <1>5, SetsGood
  <2> QED
    BY <2>1, <2>2, <2>3
<1>7. PICK g : g = Enqueue(f, s)
  OBVIOUS
<1>8. Places(f, g, s) /\ (\E p \in Priorities : Has(g.que[p], s)) /\ Clean(g)
  BY <1>4, <1>6, <1>7, EnqueueStep
<1>9. g \in ConnType /\ (Fits(d) => Fits(g)) /\ Touches(d, g, s) /\ g.s[s] = y
      /\ g.win = d.win /\ g.total = d.total /\ g.passed = d.passed
  <2>1. Fits(d) => Fits(g)
    BY <1>6, <1>8, PlacesFits
  <2>2. Touches(f, g, s) /\ g.s = f.s /\ g.win = f.win /\ g.total = f.total /\ g.passed = f.passed
    BY <1>8 DEF Places
  <2>3. g \in ConnType
    BY <2>2 DEF Touches
  <2>4. Touches(d, g, s)
    BY <1>1, <1>6, <2>2, TouchesTrans
  <2> QED
    BY <1>6, <2>1, <2>2, <2>3, <2>4
<1>10. Output(g, e) /\ (LinkOk(g) => Awake(e))
  BY <1>7, <1>9, FlagSteps
<1>11. Clean(e) /\ (Good(d) => Good(e))
  BY <1>8, <1>9, <1>10, OutputGood DEF Good
<1>12. Touches(d, e, s)
  BY <1>1, <1>9, <1>10, OutputPlaces, TouchesTrans DEF Places
<1>13. LinkOk(d) => LinkOk(g)
  BY <1>9 DEF Touches, Link
<1> QED
  BY <1>2, <1>8, <1>9, <1>10, <1>11, <1>12, <1>13 DEF Asks, Output

LEMMA HoldStep ==
    ASSUME NEW d, Good(d), NEW s \in Streams, d.s[s].state \in LiveStates
    PROVE  Asks(d, HoldWrite(d, s), s, TRUE)
<1>1. [d EXCEPT !.s[s].pause = TRUE, !.s[s].want = TRUE]
        = [d EXCEPT !.s[s] = [d.s[s] EXCEPT !.want = TRUE, !.pause = TRUE]]
  BY DEF Good, ConnType, StreamType
<1>2. PICK f : f = [d EXCEPT !.s[s] = [d.s[s] EXCEPT !.want = TRUE, !.pause = TRUE]]
  OBVIOUS
<1>3. PICK e : e = NeedWriteEvent(Enqueue(f, s))
  OBVIOUS
<1>4. d \in ConnType /\ Clean(d) /\ TRUE \in BOOLEAN
  BY DEF Good
<1>5. Asks(d, e, s, TRUE)
  BY <1>2, <1>3, <1>4, AskStep
<1> QED
  BY <1>1, <1>2, <1>3, <1>5 DEF HoldWrite

LEMMA ContStep ==
    ASSUME NEW d \in ConnType, Clean(d), NEW s \in Streams, d.s[s].state \in LiveStates
    PROVE  Asks(d, StreamContinueWrite(d, s), s, d.s[s].pause)
<1>1. d.s[s].pause \in BOOLEAN
  BY StreamFields
<1>2. [d EXCEPT !.s[s].want = TRUE]
        = [d EXCEPT !.s[s] = [d.s[s] EXCEPT !.want = TRUE, !.pause = d.s[s].pause]]
  BY DEF ConnType, StreamType
<1>3. PICK f : f = [d EXCEPT !.s[s] = [d.s[s] EXCEPT !.want = TRUE, !.pause = d.s[s].pause]]
  OBVIOUS
<1>4. PICK e : e = NeedWriteEvent(Enqueue(f, s))
  OBVIOUS
<1>5. PICK b \in BOOLEAN : b = d.s[s].pause
  BY <1>1
<1>6. Asks(d, e, s, b)
  BY <1>3, <1>4, <1>5, AskStep
<1> QED
  BY <1>2, <1>3, <1>4, <1>5, <1>6 DEF StreamContinueWrite

-----------------------------------------------------------------------------
(***************************************************************************)
(* Writing the frames of a response.                                       *)
(***************************************************************************)

\* What writing does to the stream: it takes from what is ready and may end it.  A stream that
\* starts to want is queued, and will be looked at.
Wrote(d, e, s) ==
    /\ Good(e)
    /\ Touches(d, e, s)
    /\ e.win <= d.win
    /\ d.s[s].want /\ e.s[s].ready > 0 => e.s[s].want
    /\ e.s[s].state \in {d.s[s].state, "shutdown"}
    /\ e.s[s].state # "shutdown" => e.s[s].pri = d.s[s].pri
    /\ e.s[s].toCome = d.s[s].toCome /\ e.s[s].ready <= d.s[s].ready /\ e.s[s].win <= d.s[s].win
    /\ In(d, s) => In(e, s)
    /\ e.s[s].want /\ ~d.s[s].want => In(e, s) /\ (LinkOk(d) => Awake(e))

LEMMA WroteTrans ==
    ASSUME NEW d, NEW e, NEW f, NEW s \in Streams, Good(d), Wrote(d, e, s), Wrote(e, f, s)
    PROVE  Wrote(d, f, s)
<1>1. d \in ConnType /\ e \in ConnType /\ f \in ConnType
  BY DEF Wrote, Good
<1>2. Touches(d, f, s)
  BY <1>1, TouchesTrans DEF Wrote
<1>3. /\ d.win \in Int /\ e.win \in Int /\ f.win \in Int
  BY <1>1, Sizes DEF ConnType
<1>4. d.s[s].ready \in 0 .. RespSize /\ e.s[s].ready \in 0 .. RespSize /\ f.s[s].ready \in 0 .. RespSize
  BY <1>1, StreamFields
<1>5. f.win <= d.win
  BY <1>3 DEF Wrote
<1>8. /\ d.s[s].win \in Int /\ e.s[s].win \in Int /\ f.s[s].win \in Int
  BY <1>1, StreamFields, Sizes
<1>9. f.s[s].win <= d.s[s].win
  BY <1>8 DEF Wrote
<1>10. Link(d, e) /\ Link(e, f)
  BY DEF Wrote, Touches
<1>11. ASSUME f.s[s].want, ~d.s[s].want PROVE In(f, s) /\ (LinkOk(d) => Awake(f))
  <2>1. CASE e.s[s].want
    <3>1. In(e, s) /\ (LinkOk(d) => Awake(e))
      BY <1>11, <2>1 DEF Wrote
    <3> QED
      BY <1>10, <3>1, LinkAwake DEF Wrote
  <2>2. CASE ~e.s[s].want
    <3>1. In(f, s) /\ (LinkOk(e) => Awake(f))
      BY <1>11, <2>2 DEF Wrote
    <3> QED
      BY <1>10, <3>1 DEF Link
  <2> QED
    BY <2>1, <2>2
<1>6. f.s[s].ready <= d.s[s].ready
  BY <1>4, Sizes DEF Wrote
<1>7. d.s[s].want /\ f.s[s].ready > 0 => f.s[s].want
  BY <1>4, Sizes DEF Wrote
<1> QED
  BY <1>2, <1>5, <1>6, <1>7, <1>9, <1>11 DEF Wrote

LEMMA AskWrote ==
    ASSUME NEW d, NEW e, NEW s \in Streams, NEW b, Good(d), Asks(d, e, s, b)
    PROVE  Wrote(d, e, s) /\ e.s[s].want /\ e.s[s].ready = d.s[s].ready /\ e.s[s].state = d.s[s].state
           /\ e.s[s].win = d.s[s].win
<1>1. d.s[s] \in StreamType /\ d.s[s].ready \in Int /\ d.s[s].win \in Int /\ d.win \in Int
  BY QueueTypes, StreamFields, Sizes DEF Good, ConnType
<1>2. /\ e.s[s].want = TRUE /\ e.s[s].ready = d.s[s].ready /\ e.s[s].state = d.s[s].state
      /\ e.s[s].toCome = d.s[s].toCome /\ e.s[s].win = d.s[s].win /\ e.s[s].pri = d.s[s].pri
  BY <1>1 DEF Asks, StreamType
<1>3. In(e, s) /\ (LinkOk(d) => Awake(e))
  BY DEF Asks, In
<1> QED
  BY <1>1, <1>2, <1>3 DEF Asks, Wrote

\* A frame is sent: both windows shrink by its size, as the client's do.
LEMMA SendStep ==
    ASSUME NEW d, Good(d), NEW s \in Streams, d.s[s].state \in LiveStates,
           NEW n \in 1 .. MaxFrame, n <= d.win, d.buf < FullSize, n <= d.s[s].win, n <= d.s[s].ready,
           NEW r, r = SendDataFrame(d, s, n)
    PROVE  /\ Wrote(d, r, s) /\ r.s[s].state = d.s[s].state /\ r.s[s].want = d.s[s].want
           /\ r.s[s].win = d.s[s].win - n /\ r.s[s].ready = d.s[s].ready - n
           /\ r.s[s].pause => d.s[s].pause \/ r.s[s].win <= 0
<1>1. d \in ConnType /\ Fits(d) /\ Clean(d)
  BY DEF Good
<1>2. PICK e : e = AppendOutput(WantFlush2(d), n)
  OBVIOUS
<1>3. Output(d, e)
  BY <1>1, <1>2, AppendStep
<1>4. PICK x \in StreamType : x = d.s[s]
  BY <1>1, QueueTypes
<1>5. /\ x.win \in -(MaxWindow + 1) .. MaxWindow /\ x.ready \in 0 .. RespSize
      /\ x.toCome \in 0 .. RespSize /\ x.sent \in Nat /\ x.granted \in Nat
      /\ x.pause \in BOOLEAN /\ x.want \in BOOLEAN
  BY <1>4 DEF StreamType
<1>6. /\ d.win \in 0 .. MaxWindow /\ d.init \in 0 .. MaxWindow /\ d.total \in Nat /\ d.granted \in Nat
      /\ d.passed = FALSE /\ d.win = InitWindow + d.granted - d.total /\ MaxWindow \in Nat
      /\ RespSize \in Nat /\ InitWindow \in Nat /\ n \in Nat /\ n >= 1 /\ d.over \in BOOLEAN
  BY <1>1, Sizes DEF ConnType, Fits
<1>7. /\ x.ready + x.toCome <= RespSize
      /\ ~d.over => x.sent <= MaxWindow + x.granted
      /\ ~d.over => x.win = Int32(d.init + x.granted - x.sent)
  BY <1>1, <1>4 DEF Fits, StreamFits
\* what the client has left of the stream's window is not less than the frame
<1>8. ASSUME ~d.over
      PROVE  /\ d.init + x.granted - x.sent >= n
             /\ x.win - n = Int32(d.init + x.granted - (x.sent + n))
  <2>1. PICK m \in Int : m = d.init + x.granted - x.sent
    BY <1>5, <1>6
  <2>2. m >= -(MaxWindow + 1)
    BY <1>5, <1>6, <1>7, <1>8, <2>1
  <2>3. n \in 1 .. Int32(m) /\ n \in 0 .. Int32(m) /\ n \in Int /\ x.win = Int32(m)
    BY <1>4, <1>5, <1>6, <1>7, <1>8, <2>1
  <2>4. m >= n /\ Int32(m - n) = Int32(m) - n
    BY <2>2, <2>3, Int32Facts
  <2>5. d.init + x.granted - (x.sent + n) = m - n
    BY <1>5, <1>6, <2>1
  <2> QED
    BY <2>1, <2>3, <2>4, <2>5
<1>9. ~(~d.over /\ x.sent + n > d.init + x.granted) /\ ~(d.total + n > InitWindow + d.granted)
  BY <1>5, <1>6, <1>8
<1>11. PICK pz \in BOOLEAN : pz = (x.pause \/ x.win - n <= 0)
  OBVIOUS
<1>12. PICK y : y = [x EXCEPT !.win = x.win - n, !.ready = x.ready - n, !.pause = pz,
                              !.sent = x.sent + n]
  OBVIOUS
<1>13. /\ y \in StreamType /\ y.win = x.win - n /\ y.ready = x.ready - n /\ y.sent = x.sent + n
       /\ y.state = x.state /\ y.pri = x.pri /\ y.want = x.want /\ y.toCome = x.toCome
       /\ y.granted = x.granted /\ y.pause = pz
  <2>1. x.win - n \in -(MaxWindow + 1) .. MaxWindow /\ x.ready - n \in 0 .. RespSize
        /\ x.sent + n \in Nat
    BY <1>4, <1>5, <1>6
  <2> QED
    BY <1>12, <2>1 DEF StreamType
<1>14. StreamFits(d.init, d.over, y)
  BY <1>5, <1>6, <1>7, <1>8, <1>13 DEF StreamFits
<1>15. r = [e EXCEPT !.win = d.win - n, !.total = d.total + n, !.passed = FALSE,
                     !.s = [d.s EXCEPT ![s] = y]]
  <2>1. /\ e \in ConnType /\ e.s = d.s /\ e.win = d.win /\ e.total = d.total /\ e.passed = FALSE
        /\ d.s \in [Streams -> StreamType]
    BY <1>1, <1>3, <1>6, QueueTypes DEF Output
  <2>2. r = [e EXCEPT !.win = e.win - n, !.total = e.total + n,
                      !.s[s] = [x EXCEPT !.win = @ - n, !.ready = @ - n, !.sent = @ + n,
                                         !.pause = @ \/ x.win - n <= 0],
                      !.passed = \/ @ \/ d.total + n > InitWindow + d.granted
                                 \/ ~d.over /\ x.sent + n > d.init + x.granted]
    BY <1>2, <1>4 DEF SendDataFrame
  <2>3. (\/ e.passed \/ d.total + n > InitWindow + d.granted
         \/ ~d.over /\ x.sent + n > d.init + x.granted) = FALSE
    BY <1>9, <2>1
  <2>5. [x EXCEPT !.win = @ - n, !.ready = @ - n, !.sent = @ + n, !.pause = @ \/ x.win - n <= 0] = y
    BY <1>11, <1>12 DEF StreamType
  <2>6. r = [e EXCEPT !.win = e.win - n, !.total = e.total + n, !.s[s] = y,
                      !.passed = \/ @ \/ d.total + n > InitWindow + d.granted
                                 \/ ~d.over /\ x.sent + n > d.init + x.granted]
    BY <2>2, <2>5
  <2>7. r = [e EXCEPT !.win = e.win - n, !.total = e.total + n, !.s[s] = y, !.passed = FALSE]
    BY <2>1, <2>3, <2>6 DEF ConnType
  <2> QED
    BY <2>1, <2>7 DEF ConnType
<1>16. PICK z : z = [d.s EXCEPT ![s] = y]
  OBVIOUS
<1>17. z \in [Streams -> StreamType] /\ z[s] = y /\ \A t \in Streams : t # s => z[t] = d.s[t]
  BY <1>1, <1>13, <1>16, QueueTypes
<1>18. /\ r \in ConnType /\ r.s = z /\ r.win = d.win - n /\ r.total = d.total + n /\ r.passed = FALSE
       /\ r.want = e.want /\ r.pause = e.pause /\ r.buf = e.buf /\ r.wait = e.wait
       /\ r.inEvent = e.inEvent /\ r.flush = e.flush /\ r.late = e.late /\ r.room = e.room
       /\ r.init = d.init /\ r.que = d.que /\ r.granted = d.granted /\ r.over = d.over
       /\ r.open = e.open /\ r.refused = e.refused /\ r.pending = e.pending
  <2>1. e \in ConnType /\ e.init = d.init /\ e.que = d.que /\ e.granted = d.granted /\ e.over = d.over
    BY <1>3 DEF Output, Link
  <2>2. d.win - n \in 0 .. MaxWindow /\ d.total + n \in Nat
    BY <1>6
  <2>3. r = [e EXCEPT !.win = d.win - n, !.total = d.total + n, !.passed = FALSE, !.s = z]
    BY <1>15, <1>16
  <2> QED
    BY <1>17, <2>1, <2>2, <2>3 DEF ConnType
<1>19. Link(d, r)
  <2>1. Link(d, e)
    BY <1>3 DEF Output
  <2> QED
    BY <1>18, <2>1 DEF Link, LinkOk
<1>20. Fits(r)
  BY <1>1, <1>6, <1>14, <1>17, <1>18 DEF Fits
<1>21. Clean(r)
  BY <1>1, <1>4, <1>13, <1>17, <1>18 DEF Clean
<1>22. \A p \in Priorities : Prefix(d.que[p], r.que[p], {s})
  BY <1>1, <1>18, QueueTypes, PrefixSame
<1>23. Touches(d, r, s)
  BY <1>17, <1>18, <1>19, <1>22 DEF Touches
<1>24. /\ r.s[s] = y /\ y.win <= x.win /\ y.ready <= x.ready /\ r.win <= d.win
       /\ y.pause => x.pause \/ y.win <= 0
  BY <1>5, <1>6, <1>11, <1>13, <1>17, <1>18
<1>25. In(d, s) => In(r, s)
  BY <1>18 DEF In
<1> QED
  BY <1>4, <1>13, <1>20, <1>21, <1>23, <1>24, <1>25, <1>18 DEF Wrote, Good

\* The stream ends: it stays queued, or is queued first, to be recycled.
LEMMA ShutStep ==
    ASSUME NEW d, Good(d), NEW s \in Streams, d.s[s].state \in LiveStates,
           NEW r, r = MarkShutdown(d, s)
    PROVE  /\ Wrote(d, r, s) /\ r.buf = d.buf /\ r.win = d.win
           /\ r.s[s].state = "shutdown" /\ r.s[s].win = d.s[s].win /\ r.s[s].ready = d.s[s].ready
<1>1. d \in ConnType /\ Fits(d) /\ Clean(d)
  BY DEF Good
<1>2. PICK x \in StreamType : x = d.s[s]
  BY <1>1, QueueTypes
<1>3. x.ready \in Int /\ x.win \in Int /\ d.win \in Int
  BY <1>1, <1>2, Sizes DEF StreamType, ConnType
<1>4. CASE Queued(d, s)
  <2>1. PICK y : y = [x EXCEPT !.state = "shutdown"]
    OBVIOUS
  <2>2. /\ y \in StreamType /\ y.state = "shutdown" /\ y.pri = x.pri /\ y.win = x.win
        /\ y.ready = x.ready /\ y.toCome = x.toCome /\ y.want = x.want
        /\ y.sent = x.sent /\ y.granted = x.granted
    BY <2>1 DEF StreamType
  <2>3. r = [d EXCEPT !.s[s] = y]
    <3>1. Queued([d EXCEPT !.s[s].state = "shutdown"], s)
      BY <1>1, <1>4 DEF Queued, ConnType
    <3>2. [d EXCEPT !.s[s].state = "shutdown"] = [d EXCEPT !.s[s] = y]
      BY <1>1, <1>2, <2>1 DEF ConnType, StreamType
    <3> QED
      BY <3>1, <3>2 DEF MarkShutdown
  <2>4. Sets(d, r, s, y)
    BY <1>1, <2>2, <2>3, SetStream
  <2>5. StreamFits(d.init, d.over, y)
    BY <1>1, <1>2, <2>2 DEF Fits, StreamFits, LiveStates
  <2>6. Fits(r) /\ Clean(r)
    BY <1>1, <1>2, <2>2, <2>4, <2>5, SetsGood DEF LiveStates
  <2>7. Touches(d, r, s)
    BY <1>1, <2>4, SetsTouches
  <2>8. r \in ConnType /\ r.s[s] = y /\ r.buf = d.buf /\ r.win = d.win /\ r.que = d.que
    BY <2>4 DEF Sets
  <2>9. In(d, s) => In(r, s)
    BY <2>8 DEF In
  <2> QED
    BY <1>2, <1>3, <2>2, <2>6, <2>7, <2>8, <2>9 DEF Wrote, Good
<1>5. CASE ~Queued(d, s)
  <2>1. PICK y : y = [x EXCEPT !.state = "shutdown", !.pri = 0]
    OBVIOUS
  <2>2. /\ y \in StreamType /\ y.state = "shutdown" /\ y.pri = 0 /\ y.win = x.win
        /\ y.ready = x.ready /\ y.toCome = x.toCome /\ y.want = x.want
        /\ y.sent = x.sent /\ y.granted = x.granted
    <3>1. 0 \in Priorities
      BY DEF Priorities
    <3> QED
      BY <2>1, <3>1 DEF StreamType
  <2>3. PICK f : f = [d EXCEPT !.s[s] = y]
    OBVIOUS
  <2>4. r = Add2PriorityQue(f, s)
    <3>1. ~Queued([d EXCEPT !.s[s].state = "shutdown"], s)
      BY <1>1, <1>5 DEF Queued, ConnType
    <3>2. [[d EXCEPT !.s[s].state = "shutdown"] EXCEPT !.s[s].pri = 0] = f
      BY <1>1, <1>2, <2>1, <2>3 DEF ConnType, StreamType
    <3> QED
      BY <3>1, <3>2 DEF MarkShutdown
  <2>5. Sets(d, f, s, y)
    BY <1>1, <2>2, <2>3, SetStream
  <2>6. StreamFits(d.init, d.over, y)
    BY <1>1, <1>2, <2>2 DEF Fits, StreamFits, LiveStates
  <2>7. Fits(f) /\ CleanBut(f, s)
    BY <1>1, <2>5, <2>6, SetsGood
  <2>8. Touches(d, f, s)
    BY <1>1, <2>5, SetsTouches
  <2>9. f \in ConnType /\ f.s[s] = y /\ f.buf = d.buf /\ f.win = d.win
    BY <2>5 DEF Sets
  <2>10. Places(f, r, s) /\ r.buf = f.buf /\ In(r, s)
    <3>1. f.s[s].pri \in Priorities
      BY <2>9, StreamFields
    <3> QED
      BY <2>4, <2>9, <3>1, AddStep DEF In
  <2>11. Clean(r)
    BY <2>2, <2>4, <2>7, <2>9, AddClean DEF LiveStates
  <2>12. Fits(r)
    BY <2>7, <2>10, PlacesFits
  <2>13. Touches(f, r, s) /\ r.s[s] = y /\ r.win = d.win /\ r \in ConnType
    BY <2>9, <2>10 DEF Places, Touches
  <2>14. Touches(d, r, s)
    BY <1>1, <2>8, <2>13, TouchesTrans
  <2> QED
    BY <1>2, <1>3, <2>2, <2>9, <2>10, <2>11, <2>12, <2>13, <2>14 DEF Wrote, Good
<1> QED
  BY <1>4, <1>5

LEMMA OutputWrote ==
    ASSUME NEW d, NEW e, NEW s \in Streams, Good(d), Output(d, e)
    PROVE  Wrote(d, e, s) /\ e.s = d.s /\ e.win = d.win
<1>1. d \in ConnType /\ Good(e) /\ e.s = d.s /\ e.win = d.win
  BY OutputGood DEF Good, Output
<1>2. Touches(d, e, s)
  BY <1>1, OutputPlaces DEF Places
<1>3. d.s[s].ready \in Int /\ d.s[s].win \in Int /\ d.win \in Int
  BY <1>1, StreamFields, Sizes DEF ConnType
<1>4. In(d, s) => In(e, s)
  BY DEF Output, In
<1> QED
  BY <1>1, <1>2, <1>3, <1>4 DEF Wrote

KeepsWant(x, a) == (x.want /\ x.ready > 0 => a) /\ (a => x.want)

Flagged(d, e, s, a, b) ==
    /\ KeepsWant(d.s[s], a) => Wrote(d, e, s)
    /\ Good(e) /\ e.win = d.win /\ e.buf = d.buf /\ e.que = d.que
    /\ e.s[s].state = d.s[s].state /\ e.s[s].win = d.s[s].win
    /\ e.s[s].ready = d.s[s].ready /\ e.s[s].toCome = d.s[s].toCome
    /\ e.s[s].pause = b /\ e.s[s].want = a

\* A flag of the stream is set, which the windows do not depend on.
LEMMA FlagWrote ==
    ASSUME NEW d, Good(d), NEW s \in Streams, NEW a \in BOOLEAN, NEW b \in BOOLEAN,
           d.s[s].state \in LiveStates,
           NEW e, e = [d EXCEPT !.s[s] = [d.s[s] EXCEPT !.want = a, !.pause = b]]
    PROVE  Flagged(d, e, s, a, b)
<1>1. d \in ConnType /\ Fits(d) /\ Clean(d)
  BY DEF Good
<1>2. PICK x \in StreamType : x = d.s[s]
  BY <1>1, QueueTypes
<1>3. PICK y : y = [x EXCEPT !.want = a, !.pause = b]
  OBVIOUS
<1>4. /\ y \in StreamType /\ y.state = x.state /\ y.pri = x.pri /\ y.win = x.win
      /\ y.ready = x.ready /\ y.toCome = x.toCome /\ y.want = a /\ y.pause = b
      /\ y.sent = x.sent /\ y.granted = x.granted
  BY <1>3 DEF StreamType
<1>5. Sets(d, e, s, y)
  BY <1>1, <1>2, <1>3, <1>4, SetStream
<1>6. StreamFits(d.init, d.over, y)
  BY <1>1, <1>2, <1>4 DEF Fits, StreamFits
<1>7. Fits(e) /\ Clean(e) /\ Touches(d, e, s)
  BY <1>1, <1>2, <1>4, <1>5, <1>6, SetsGood, SetsTouches
<1>8. e \in ConnType /\ e.s[s] = y /\ e.buf = d.buf /\ e.win = d.win /\ e.que = d.que
  BY <1>5 DEF Sets
<1>9. x.ready \in Int /\ x.win \in Int /\ d.win \in Int
  <2>1. d.win \in Int
    BY <1>1, Sizes DEF ConnType
  <2> QED
    BY <1>1, <1>2, <2>1, StreamFields, Sizes
<1>10. In(d, s) => In(e, s)
  BY <1>8 DEF In
<1> QED
  BY <1>2, <1>4, <1>7, <1>8, <1>9, <1>10 DEF Wrote, Good, KeepsWant, Flagged

LEMMA SendNextStep ==
    ASSUME NEW d, Good(d), NEW s \in Streams, d.s[s].state \in LiveStates,
           d.buf < FullSize, NEW n \in 1 .. MaxFrame, n <= d.win, n <= d.s[s].win, n <= d.s[s].ready,
           NEW k \in Nat
    PROVE  Wrote(d, SendNext(d, s, k, n), s)
<1> DEFINE x    == d.s[s]
           last == x.ready = n /\ x.toCome = 0
           more == k + n >= Batch /\ x.ready > n
<1>1. d \in ConnType /\ x.want \in BOOLEAN /\ x.pause \in BOOLEAN
  BY StreamFields DEF Good
<1>2. PICK pz : pz \in BOOLEAN /\ pz = (x.pause \/ more)
  OBVIOUS
<1>21. PICK a : a \in BOOLEAN /\ a = d.s[s].want
  BY <1>1
<1>3. PICK e : e = [d EXCEPT !.s[s] = [d.s[s] EXCEPT !.want = a, !.pause = pz]]
  OBVIOUS
<1>4. [d EXCEPT !.s[s].pause = @ \/ more] = e
  BY <1>1, <1>2, <1>21, <1>3 DEF ConnType, StreamType
<1>22. KeepsWant(d.s[s], a)
  BY <1>21 DEF KeepsWant
<1>5. /\ Wrote(d, e, s) /\ Good(e) /\ e.win = d.win /\ e.buf = d.buf
      /\ e.s[s].state = d.s[s].state
      /\ e.s[s].win = d.s[s].win /\ e.s[s].ready = d.s[s].ready
  <2>1. Flagged(d, e, s, a, pz)
    BY <1>2, <1>21, <1>3, FlagWrote
  <2> QED
    BY <1>22, <2>1 DEF Flagged
<1>6. SendNext(d, s, k, n) = IF last THEN WantFlush(SendDataFrame(MarkShutdown(e, s), s, n))
                          ELSE SendDataFrame(e, s, n)
  BY <1>4 DEF SendNext
<1>7. CASE ~last
  <2>1. PICK r : r = SendDataFrame(e, s, n)
    OBVIOUS
  <2>2. Wrote(e, r, s)
    BY <1>5, <2>1, SendStep
  <2> QED
    BY <1>5, <1>6, <1>7, <2>1, <2>2, WroteTrans
<1>8. CASE last
  <2>1. PICK f : f = MarkShutdown(e, s)
    OBVIOUS
  <2>2. /\ Wrote(e, f, s) /\ f.buf = e.buf /\ f.win = e.win
        /\ f.s[s].state = "shutdown" /\ f.s[s].win = e.s[s].win /\ f.s[s].ready = e.s[s].ready
    BY <1>5, <2>1, ShutStep
  <2>3. PICK r : r = SendDataFrame(f, s, n)
    OBVIOUS
  <2>4. Good(f) /\ f.s[s].state \in LiveStates
    BY <2>2 DEF Wrote, LiveStates
  <2>5. Wrote(f, r, s) /\ Good(r)
    BY <1>5, <2>2, <2>3, <2>4, SendStep DEF Wrote
  <2>6. PICK g : g = WantFlush(r)
    OBVIOUS
  <2>7. Wrote(r, g, s)
    BY <2>5, <2>6, FlagSteps, OutputWrote DEF Good
  <2>8. Wrote(e, g, s)
    BY <1>5, <2>2, <2>4, <2>5, <2>7, WroteTrans
  <2> QED
    BY <1>5, <1>6, <1>8, <2>1, <2>3, <2>6, <2>8, WroteTrans
<1> QED
  BY <1>7, <1>8

LEMMA WriteOneStep ==
    ASSUME NEW d, Good(d), NEW s \in Streams, d.s[s].state \in LiveStates, d.s[s].ready > 0,
           NEW k \in Nat
    PROVE  Wrote(d, WriteOne(d, s, k), s)
<1>1. d.win \in 0 .. MaxWindow /\ d.buf \in 0 .. FullSize + MaxFrame
  BY DEF Good, ConnType
<1>2. d.s[s].win \in -(MaxWindow + 1) .. MaxWindow
  BY StreamFields DEF Good
<1>3. CASE IsOutBufFull(d) \/ d.s[s].win <= 0
  <2>1. PICK e : e = HoldWrite(d, s)
    OBVIOUS
  <2>2. Asks(d, e, s, TRUE)
    BY <2>1, HoldStep
  <2> QED
    BY <1>3, <2>1, <2>2, AskWrote DEF WriteOne
<1>4. CASE ~(IsOutBufFull(d) \/ d.s[s].win <= 0)
  <2>1. d.win > 0 /\ d.buf < FullSize /\ d.s[s].win > 0
    BY <1>1, <1>2, <1>4, Sizes DEF IsOutBufFull
  <2>2. PICK n : n = FrameSize(d, s)
    OBVIOUS
  <2>3. d.s[s].ready \in Nat /\ MaxFrame \in Nat \ {0}
    BY StreamFields, Sizes DEF Good
  <2>4. n \in 1 .. MaxFrame /\ n <= d.win /\ n <= d.s[s].win /\ n <= d.s[s].ready
    BY <1>1, <1>2, <2>1, <2>2, <2>3 DEF FrameSize, Smaller
  <2>5. WriteOne(d, s, k) = SendNext(d, s, k, n)
    BY <1>4, <2>2 DEF WriteOne
  <2> QED
    BY <2>1, <2>4, <2>5, SendNextStep
<1> QED
  BY <1>3, <1>4

\* The loop of write().
LEMMA WriteLoopStep ==
    ASSUME NEW d, Good(d), NEW s \in Streams, d.s[s].state \in LiveStates
    PROVE  Wrote(d, WriteLoop(d, s), s)
<1> DEFINE N == RespSize
           Step(e) == IF e.s[s].pause \/ e.s[s].ready = 0 THEN e
                      ELSE WriteOne(e, s, d.s[s].ready - e.s[s].ready)
           run[k \in 0..RespSize] ==
               IF k = 0 THEN d
               ELSE LET e == run[k - 1]
                    IN  IF e.s[s].pause \/ e.s[s].ready = 0 THEN e
                        ELSE WriteOne(e, s, d.s[s].ready - e.s[s].ready)
           S == {e \in ConnType : Wrote(d, e, s)}
           T == [k \in 0 .. N |-> S]
           g == [k \in 0 .. N - 1 |-> [e \in S |-> Step(e)]]
<1>1. N \in Nat
  BY Sizes
<1>2. ASSUME NEW e \in S PROVE Step(e) \in S
  <2>1. Wrote(d, e, s) /\ Good(e) /\ e.s[s].state \in LiveStates /\ e.s[s].ready \in 0 .. RespSize
    <3>1. Wrote(d, e, s) /\ Good(e) /\ e \in ConnType
      BY DEF Wrote
    <3>2. e.s[s].state \in LiveStates
      BY <3>1 DEF Wrote, LiveStates
    <3> QED
      BY <3>1, <3>2, StreamFields
  <2>2. CASE e.s[s].pause \/ e.s[s].ready = 0
    BY <2>2
  <2>3. CASE ~(e.s[s].pause \/ e.s[s].ready = 0)
    <3>1. e.s[s].ready > 0
      BY <2>1, <2>3, Sizes
    <3>k. PICK k \in Nat : k = d.s[s].ready - e.s[s].ready
      <4>1. d.s[s].ready \in 0 .. RespSize /\ e.s[s].ready <= d.s[s].ready
        BY <2>1, StreamFields DEF Good, Wrote
      <4> QED
        BY <2>1, <4>1, Sizes
    <3>2. PICK f : f = WriteOne(e, s, k)
      OBVIOUS
    <3>3. Wrote(e, f, s)
      BY <2>1, <3>1, <3>2, WriteOneStep
    <3>4. Wrote(d, f, s) /\ f \in ConnType
      BY <2>1, <3>3, WroteTrans DEF Wrote, Good
    <3> QED
      BY <2>3, <3>k, <3>2, <3>4
  <2> QED
    BY <2>2, <2>3
<1>3. d \in S
  BY FlagSteps, OutputWrote DEF Good
<1> HIDE DEF S, N, run, Step
<1>5. /\ \A i \in 0 .. N : T[i] = S
      /\ \A i \in 0 .. N - 1 : i \in 0 .. N /\ i + 1 \in 0 .. N /\ i \in Nat
      /\ 0 \in 0 .. N
  BY <1>1
<1>6. \A i \in 0 .. N - 1 : \A e \in S : g[i][e] = Step(e)
  OBVIOUS
<1> HIDE DEF T, g
<1>7. Leads(N, T, g)
  <2> SUFFICES ASSUME NEW i \in 0 .. N - 1, NEW e \in T[i] PROVE g[i][e] \in T[i + 1]
    BY DEF Leads
  <2> QED
    BY <1>2, <1>5, <1>6
<1>8. PICK w : Walk(N, T, g, d, w)
  BY <1>1, <1>3, <1>5, <1>7, WalkExists
<1>9. w = [k \in 0 .. N |-> IF k = 0 THEN d ELSE Step(w[k - 1])]
  <2>1. ASSUME NEW i \in 0 .. N, i # 0 PROVE w[i] = Step(w[i - 1])
    <3>1. i - 1 \in 0 .. N - 1 /\ i - 1 \in 0 .. N /\ (i - 1) + 1 = i
      BY <1>1, <2>1
    <3>2. w[i - 1] \in S /\ w[(i - 1) + 1] = g[i - 1][w[i - 1]]
      BY <1>5, <1>8, <3>1 DEF Walk
    <3> QED
      BY <1>6, <3>1, <3>2
  <2> QED
    BY <1>8, <2>1 DEF Walk
<1>10. run = [k \in 0 .. N |-> IF k = 0 THEN d ELSE Step(run[k - 1])]
  BY <1>9 DEF run, N, Step
<1> DEFINE P == {i \in Nat : i <= N => run[i] \in S}
<1>11. \A i \in Nat : i \in P
  <2>1. 0 \in P
    BY <1>1, <1>3, <1>5, <1>10
  <2>2. ASSUME NEW i \in Nat, i \in P PROVE i + 1 \in P
    <3> SUFFICES ASSUME i + 1 <= N PROVE run[i + 1] \in S
      OBVIOUS
    <3>1. i \in 0 .. N - 1 /\ run[i] \in S /\ (i + 1) - 1 = i /\ i + 1 \in 0 .. N /\ i + 1 # 0
      BY <1>1, <2>2
    <3>2. run[i + 1] = Step(run[i])
      BY <1>10, <3>1
    <3> QED
      BY <1>2, <3>1, <3>2
  <2> HIDE DEF P
  <2> QED
    BY <2>1, <2>2, NatInSet
<1>12. run[N] \in S
  BY <1>1, <1>11
<1>13. WriteLoop(d, s) = run[N]
  BY DEF WriteLoop, run, N
<1> QED
  BY <1>12, <1>13 DEF S

LEMMA WriteStep ==
    ASSUME NEW d, Good(d), NEW s \in Streams, d.s[s].state \in LiveStates
    PROVE  Wrote(d, Write(d, s), s)
<1>1. PICK e : e = IF d.s[s].sent = 0 /\ d.s[s].ready >= MaxFrame /\ d.buf > 0 THEN Flush(d) ELSE d
  OBVIOUS
<1>2. Output(d, e)
  BY <1>1, FlagSteps, DrainStep DEF Good
<1>3. Wrote(d, e, s) /\ e.s = d.s /\ Good(e)
  BY <1>2, OutputWrote DEF Wrote
<1>4. PICK f : f = WriteLoop(e, s)
  OBVIOUS
<1>5. Wrote(e, f, s)
  BY <1>3, <1>4, WriteLoopStep
<1>6. Write(d, s) = f
  BY <1>1, <1>4 DEF Write
<1> QED
  BY <1>3, <1>5, <1>6, WroteTrans

LEMMA OnWriteStep ==
    ASSUME NEW d, Good(d), NEW s \in Streams, d.s[s].state \in LiveStates
    PROVE  Wrote(d, OnWrite(d, s), s)
<1>1. CASE d.s[s].win <= 0
  BY <1>1, FlagSteps, OutputWrote DEF OnWrite, Good
<1>2. CASE ~(d.s[s].win <= 0)
  <2>1. PICK a : a \in BOOLEAN /\ a = d.s[s].want
    BY StreamFields DEF Good
  <2>2. PICK b : b \in BOOLEAN /\ b = FALSE
    OBVIOUS
  <2>3. PICK e : e = [d EXCEPT !.s[s] = [d.s[s] EXCEPT !.want = a, !.pause = b]]
    OBVIOUS
  <2>4. e = [d EXCEPT !.s[s].pause = FALSE]
    BY <2>1, <2>2, <2>3 DEF Good, ConnType, StreamType
  <2>5. Wrote(d, e, s) /\ Good(e) /\ e.s[s].state = d.s[s].state
    <3>1. KeepsWant(d.s[s], a)
      BY <2>1 DEF KeepsWant
    <3>2. Flagged(d, e, s, a, b)
      BY <2>1, <2>2, <2>3, FlagWrote
    <3> QED
      BY <3>1, <3>2 DEF Flagged
  <2>6. PICK f : f = Write(e, s)
    OBVIOUS
  <2>7. Wrote(e, f, s) /\ Good(f) /\ f.s[s].state \in LiveStates
    <3>1. Wrote(e, f, s)
      BY <2>5, <2>6, WriteStep
    <3> QED
      BY <2>5, <3>1 DEF Wrote, LiveStates
  <2>8. PICK g : g = Suspend(f, s)
    OBVIOUS
  <2>9. Wrote(f, g, s) /\ Good(g)
    <3>1. CASE f.s[s].ready # 0
      BY <2>7, <2>8, <3>1, FlagSteps, OutputWrote DEF Suspend, Good
    <3>2. CASE f.s[s].ready = 0
      <4>1. PICK h : h \in BOOLEAN /\ h = f.s[s].pause
        BY <2>7, StreamFields DEF Good
      <4>2. g = [f EXCEPT !.s[s] = [f.s[s] EXCEPT !.want = b, !.pause = h]]
        BY <2>2, <2>7, <2>8, <3>2, <4>1 DEF Suspend, Good, ConnType, StreamType
      <4>3. KeepsWant(f.s[s], b)
        BY <2>2, <3>2 DEF KeepsWant
      <4>4. Flagged(f, g, s, b, h)
        BY <2>2, <2>7, <4>1, <4>2, FlagWrote
      <4> QED
        BY <4>3, <4>4 DEF Flagged
    <3> QED
      BY <3>1, <3>2
  <2>10. PICK h : h = AfterWrite(g, s)
    OBVIOUS
  <2>11. Wrote(g, h, s)
    BY <2>9, <2>10, FlagSteps, OutputWrote DEF AfterWrite, Good
  <2>12. OnWrite(d, s) = h
    BY <1>2, <2>4, <2>6, <2>8, <2>10 DEF OnWrite, SessionWrite
  <2>13. Wrote(e, g, s)
    BY <2>5, <2>7, <2>9, WroteTrans
  <2>14. Wrote(e, h, s)
    BY <2>5, <2>11, <2>13, WroteTrans
  <2> QED
    BY <2>5, <2>12, <2>14, WroteTrans
<1> QED
  BY <1>1, <1>2

-----------------------------------------------------------------------------
(***************************************************************************)
(* One stream taken from a queue.                                          *)
(***************************************************************************)

\* a stream that would send if the connection's window were open, or holds back what its
\* backend produces until it has its turn
Ready(x) == \/ x.state = "init"
            \/ x.state = "connected" /\ x.win > 0 /\ (x.ready > 0 \/ (x.want /\ x.pause))

\* A session with something to write wants to write; before there is one, nothing is paused.
Eager(x) == /\ x.state = "connected" /\ x.ready > 0 => x.want
            /\ x.state = "init" => ~x.pause

Waiting(d) == \A s \in Streams : Eager(d.s[s]) /\ (Ready(d.s[s]) => In(d, s))

LEMMA InQueued ==
    ASSUME NEW d, NEW s
    PROVE  In(d, s) <=> Queued(d, s)
  BY DEF In, Has, Queued

\* A stream that has one unit and is not paused sends it, or is held: then it is queued.
Settled(d, g, s) == ~Ready(g.s[s]) \/ (In(g, s) /\ (LinkOk(d) => Awake(g)))

LEMMA OneUnit ==
    ASSUME NEW d, Good(d), NEW s \in Streams, d.s[s].state = "connected", d.s[s].ready = 1,
           d.s[s].pause = FALSE, NEW g, g = WriteOne(d, s, 0)
    PROVE  Settled(d, g, s) /\ (g.s[s].pause \/ g.s[s].ready = 0)
<1>1. d \in ConnType /\ d.win \in 0 .. MaxWindow /\ d.buf \in 0 .. FullSize + MaxFrame
  BY DEF Good, ConnType
<1>2. d.s[s].win \in -(MaxWindow + 1) .. MaxWindow /\ d.s[s].want \in BOOLEAN
      /\ d.s[s] \in StreamType
  BY <1>1, StreamFields, QueueTypes
<1>3. d.s[s].state \in LiveStates
  BY DEF LiveStates
<1>4. CASE IsOutBufFull(d) \/ d.s[s].win <= 0
  <2>1. Asks(d, g, s, TRUE)
    BY <1>3, <1>4, HoldStep DEF WriteOne
  <2>2. g.s[s].pause = TRUE
    BY <1>2, <2>1 DEF Asks, StreamType
  <2> QED
    BY <2>1, <2>2 DEF Asks, In, Settled
<1>5. CASE ~(IsOutBufFull(d) \/ d.s[s].win <= 0)
  <2>1. d.win > 0 /\ d.buf < FullSize /\ d.s[s].win > 0
    BY <1>1, <1>2, <1>5, Sizes DEF IsOutBufFull
  <2>2. FrameSize(d, s) = 1 /\ 1 \in 1 .. MaxFrame
    BY <1>1, <1>2, <2>1, Sizes DEF FrameSize, Smaller
  <2>3. g = SendNext(d, s, 0, 1)
    BY <1>5, <2>2 DEF WriteOne
  <2>4. PICK pz : pz \in BOOLEAN /\ pz = FALSE
    OBVIOUS
  <2>5. PICK a : a \in BOOLEAN /\ a = d.s[s].want
    BY <1>2
  <2>6. PICK e : e = [d EXCEPT !.s[s] = [d.s[s] EXCEPT !.want = a, !.pause = pz]]
    OBVIOUS
  <2>7. [d EXCEPT !.s[s].pause = @ \/ (0 + 1 >= Batch /\ d.s[s].ready > 1)] = e
    <3>1. (d.s[s].pause \/ (0 + 1 >= Batch /\ d.s[s].ready > 1)) = pz
      BY <2>4
    <3> QED
      BY <1>1, <1>2, <2>5, <2>6, <3>1 DEF ConnType, StreamType
  <2>8. /\ Good(e) /\ e.win = d.win /\ e.buf = d.buf /\ e.s[s].state = "connected"
        /\ e.s[s].win = d.s[s].win /\ e.s[s].ready = 1 /\ e.s[s].pause = FALSE
    <3>1. Flagged(d, e, s, a, pz)
      BY <1>3, <2>4, <2>5, <2>6, FlagWrote
    <3> QED
      BY <2>4, <3>1 DEF Flagged
  <2>9. \/ g = WantFlush(SendDataFrame(MarkShutdown(e, s), s, 1))
        \/ g = SendDataFrame(e, s, 1)
    BY <2>3, <2>7 DEF SendNext
  <2>10. e.s[s].state \in LiveStates /\ 1 <= e.win /\ e.buf < FullSize /\ 1 <= e.s[s].win
         /\ 1 <= e.s[s].ready
    BY <1>1, <1>2, <2>1, <2>8, Sizes DEF LiveStates
  <2>11. CASE g = SendDataFrame(e, s, 1)
    <3>1. g.s[s].ready = 1 - 1 /\ (g.s[s].pause => g.s[s].win <= 0) /\ g.s[s].win = e.s[s].win - 1
          /\ g.s[s].state = "connected"
      BY <2>2, <2>8, <2>10, <2>11, SendStep
    <3>2. g.s[s].ready = 0
      BY <3>1
    <3>3. ~Ready(g.s[s])
      BY <1>2, <2>8, <3>1, <3>2, Sizes DEF Ready
    <3> QED
      BY <3>2, <3>3 DEF Settled
  <2>12. CASE g = WantFlush(SendDataFrame(MarkShutdown(e, s), s, 1))
    <3>1. PICK f : f = MarkShutdown(e, s)
      OBVIOUS
    <3>2. /\ Wrote(e, f, s) /\ f.buf = e.buf /\ f.win = e.win
          /\ f.s[s].state = "shutdown" /\ f.s[s].win = e.s[s].win /\ f.s[s].ready = e.s[s].ready
      BY <2>8, <2>10, <3>1, ShutStep
    <3>3. PICK r : r = SendDataFrame(f, s, 1)
      OBVIOUS
    <3>4. Good(f) /\ f.s[s].state \in LiveStates
      BY <3>2 DEF Wrote, LiveStates
    <3>5. Wrote(f, r, s) /\ Good(r) /\ r.s[s].state = "shutdown" /\ r.s[s].ready = 1 - 1
      BY <2>2, <2>8, <2>10, <3>2, <3>3, <3>4, SendStep DEF Wrote
    <3>6. Wrote(r, g, s) /\ g.s = r.s
      BY <2>12, <3>1, <3>3, <3>5, FlagSteps, OutputWrote DEF Good
    <3>7. g.s[s].state = "shutdown" /\ g.s[s].ready = 0
      BY <3>5, <3>6
    <3> QED
      BY <3>7 DEF Settled, Ready
  <2> QED
    BY <2>9, <2>11, <2>12
<1> QED
  BY <1>4, <1>5

LEMMA OneUnitLoop ==
    ASSUME NEW d, Good(d), NEW s \in Streams, d.s[s].state = "connected", d.s[s].ready = 1,
           d.s[s].pause = FALSE
    PROVE  Settled(d, WriteLoop(d, s), s)
<1> DEFINE N == RespSize
           Step(e) == IF e.s[s].pause \/ e.s[s].ready = 0 THEN e
                      ELSE WriteOne(e, s, d.s[s].ready - e.s[s].ready)
           run[k \in 0..RespSize] ==
               IF k = 0 THEN d
               ELSE LET e == run[k - 1]
                    IN  IF e.s[s].pause \/ e.s[s].ready = 0 THEN e
                        ELSE WriteOne(e, s, d.s[s].ready - e.s[s].ready)
<1>1. N \in Nat /\ N >= 1
  BY Sizes
<1>2. PICK y : y = WriteOne(d, s, 0)
  OBVIOUS
<1>3. Settled(d, y, s) /\ (y.s[s].pause \/ y.s[s].ready = 0)
  BY <1>2, OneUnit
<1>4. Step(d) = y /\ Step(y) = y
  <2>1. d.s[s].ready - d.s[s].ready = 0 /\ d.s[s].ready # 0
    OBVIOUS
  <2> QED
    BY <1>2, <1>3, <2>1
<1>5. WriteLoop(d, s) = run[N]
  BY DEF WriteLoop, run, N
<1> DEFINE w == [k \in 0 .. N |-> IF k = 0 THEN d ELSE y]
<1> HIDE DEF N, Step
<1>6. w = [k \in 0 .. N |-> IF k = 0 THEN d ELSE Step(w[k - 1])]
  <2>1. ASSUME NEW k \in 0 .. N, k # 0 PROVE y = Step(w[k - 1])
    <3>1. k - 1 \in 0 .. N
      BY <1>1, <2>1
    <3>2. w[k - 1] \in {d, y}
      BY <3>1
    <3> QED
      BY <1>4, <3>2
  <2> QED
    BY <2>1
<1> HIDE DEF w, run
<1>7. run = [k \in 0 .. N |-> IF k = 0 THEN d ELSE Step(run[k - 1])]
  BY <1>6 DEF run, N, Step
<1> DEFINE P == {i \in Nat : i <= N => run[i] = w[i]}
<1>8. \A i \in Nat : i \in P
  <2>1. 0 \in P
    BY <1>1, <1>6, <1>7
  <2>2. ASSUME NEW i \in Nat, i \in P PROVE i + 1 \in P
    <3> SUFFICES ASSUME i + 1 <= N PROVE run[i + 1] = w[i + 1]
      OBVIOUS
    <3>1. run[i] = w[i] /\ (i + 1) - 1 = i /\ i + 1 \in 0 .. N /\ i + 1 # 0
      BY <1>1, <2>2
    <3>2. run[i + 1] = Step(run[i])
      BY <1>7, <3>1
    <3>3. w[i + 1] = Step(w[i])
      BY <1>6, <3>1
    <3> QED
      BY <3>1, <3>2, <3>3
  <2> HIDE DEF P
  <2> QED
    BY <2>1, <2>2, NatInSet
<1>9. run[N] = y
  <2>1. N \in P /\ N \in 0 .. N /\ N # 0
    BY <1>1, <1>8
  <2>2. run[N] = w[N]
    BY <1>1, <2>1
  <2>3. w[N] = y
    BY <2>1 DEF w
  <2> QED
    BY <2>2, <2>3
<1> QED
  BY <1>3, <1>5, <1>9

LEMMA OneUnitWrite ==
    ASSUME NEW d, Good(d), NEW s \in Streams, d.s[s].state = "connected", d.s[s].ready = 1,
           d.s[s].pause = FALSE
    PROVE  Settled(d, Write(d, s), s)
<1>1. PICK e : e = IF d.s[s].sent = 0 /\ d.s[s].ready >= MaxFrame /\ d.buf > 0 THEN Flush(d) ELSE d
  OBVIOUS
<1>2. Output(d, e)
  BY <1>1, FlagSteps, DrainStep DEF Good
<1>3. e.s = d.s /\ Good(e) /\ (LinkOk(d) => LinkOk(e))
  BY <1>2, OutputGood DEF Output, Link
<1>4. Settled(e, WriteLoop(e, s), s)
  BY <1>3, OneUnitLoop
<1>5. Write(d, s) = WriteLoop(e, s)
  BY <1>1 DEF Write
<1> QED
  BY <1>3, <1>4, <1>5 DEF Settled

\* what its turn does to stream s
Turned(d, e, s) ==
    /\ Good(e)
    /\ Touches(d, e, s)
    /\ e.win <= d.win
    /\ Eager(d.s[s]) => Eager(e.s[s])
    /\ Ready(e.s[s]) => e.s[s].pri = d.s[s].pri

LEMMA TurnedTrans ==
    ASSUME NEW d, Good(d), NEW s \in Streams, NEW e, NEW f, Turned(d, e, s), Turned(e, f, s),
           Ready(f.s[s]) => Ready(e.s[s])
    PROVE  Turned(d, f, s)
<1>1. d \in ConnType /\ e \in ConnType /\ f \in ConnType
  BY DEF Turned, Good
<1>2. d.win \in 0 .. MaxWindow /\ e.win \in 0 .. MaxWindow /\ f.win \in 0 .. MaxWindow
  BY <1>1 DEF ConnType
<1>3. Touches(d, f, s)
  BY <1>1, TouchesTrans DEF Turned
<1>4. f.win <= d.win
  BY <1>2, Sizes DEF Turned
<1> QED
  BY <1>3, <1>4 DEF Turned

LEMMA OnWriteTurned ==
    ASSUME NEW d, Good(d), NEW s \in Streams, d.s[s].state \in LiveStates \ {"init"}, d.s[s].want,
           NEW e, e = OnWrite(d, s)
    PROVE  Turned(d, e, s) /\ e.s[s].state \in LiveStates \ {"init"}
<1>1. Wrote(d, e, s)
  BY OnWriteStep
<1>2. e.s[s].state \in LiveStates \ {"init"}
  BY <1>1 DEF Wrote, LiveStates
<1>3. Eager(e.s[s])
  BY <1>1 DEF Wrote, Eager
<1>4. Ready(e.s[s]) => e.s[s].pri = d.s[s].pri
  BY <1>1, <1>2 DEF Wrote, Ready
<1> QED
  BY <1>1, <1>2, <1>3, <1>4 DEF Wrote, Turned

LEMMA AssignStep ==
    ASSUME NEW d, Good(d), NEW s \in Streams, d.s[s].state = "init",
           NEW r, r = AssignStreamHandler(d, s)
    PROVE  /\ Turned(d, r, s) /\ r.s[s].state \in LiveStates \ {"init"} /\ r.win = d.win
           /\ Eager(d.s[s]) /\ Ready(r.s[s]) => In(r, s)
<1>1. d \in ConnType /\ Fits(d) /\ Clean(d)
  BY DEF Good
<1>2. PICK x \in StreamType : x = d.s[s]
  BY <1>1, QueueTypes
<1>3. x.ready \in 0 .. RespSize /\ d.win \in 0 .. MaxWindow
  BY <1>1, <1>2 DEF StreamType, ConnType
<1>4. CASE x.ready > 0
  <2>1. PICK y : y = [x EXCEPT !.state = "connected", !.want = TRUE]
    OBVIOUS
  <2>2. /\ y \in StreamType /\ y.state = "connected" /\ y.pri = x.pri /\ y.win = x.win
        /\ y.ready = x.ready /\ y.toCome = x.toCome /\ y.want = TRUE
        /\ y.sent = x.sent /\ y.granted = x.granted
    BY <2>1 DEF StreamType
  <2>3. PICK f : f = [d EXCEPT !.s[s] = y]
    OBVIOUS
  <2>4. r = Enqueue(f, s)
    <3>1. PICK e : e = [d EXCEPT !.s[s].state = "connected"]
      OBVIOUS
    <3>2. e.s[s].ready = x.ready
      BY <1>1, <1>2, <3>1 DEF ConnType, StreamType
    <3>3. [e EXCEPT !.s[s].want = TRUE] = f
      BY <1>1, <1>2, <2>1, <2>3, <3>1 DEF ConnType, StreamType
    <3> QED
      BY <1>4, <3>1, <3>2, <3>3 DEF AssignStreamHandler
  <2>5. Sets(d, f, s, y)
    BY <1>1, <2>2, <2>3, SetStream
  <2>6. StreamFits(d.init, d.over, y)
    BY <1>1, <1>2, <2>2 DEF Fits, StreamFits, LiveStates
  <2>7. Fits(f) /\ Clean(f) /\ Touches(d, f, s)
    BY <1>1, <1>2, <2>2, <2>5, <2>6, SetsGood, SetsTouches DEF LiveStates
  <2>8. f \in ConnType /\ f.s[s] = y /\ f.win = d.win /\ f.s[s].state \in LiveStates
    BY <2>2, <2>5 DEF Sets, LiveStates
  <2>9. Places(f, r, s) /\ (\E p \in Priorities : Has(r.que[p], s)) /\ Clean(r)
    BY <2>4, <2>7, <2>8, EnqueueStep
  <2>10. Fits(r) /\ Touches(f, r, s) /\ r.s[s] = y /\ r.win = d.win /\ r \in ConnType
    BY <2>7, <2>8, <2>9, PlacesFits DEF Places, Touches
  <2>11. Touches(d, r, s)
    BY <1>1, <2>7, <2>10, TouchesTrans
  <2>12. Eager(r.s[s]) /\ r.s[s].pri = d.s[s].pri /\ r.s[s].state \in LiveStates \ {"init"} /\ In(r, s)
    BY <1>2, <2>2, <2>9, <2>10 DEF Eager, LiveStates, In
  <2>13. r.win <= d.win
    BY <1>3, <2>10, Sizes
  <2> QED
    BY <2>9, <2>10, <2>11, <2>12, <2>13 DEF Turned, Good
<1>5. CASE ~(x.ready > 0)
  <2>1. PICK y : y = [x EXCEPT !.state = "connected"]
    OBVIOUS
  <2>2. /\ y \in StreamType /\ y.state = "connected" /\ y.pri = x.pri /\ y.win = x.win
        /\ y.ready = x.ready /\ y.toCome = x.toCome /\ y.pause = x.pause
        /\ y.sent = x.sent /\ y.granted = x.granted
    BY <2>1 DEF StreamType
  <2>4. r = [d EXCEPT !.s[s] = y]
    <3>1. PICK e : e = [d EXCEPT !.s[s].state = "connected"]
      OBVIOUS
    <3>2. e.s[s].ready = x.ready /\ e = [d EXCEPT !.s[s] = y]
      BY <1>1, <1>2, <2>1, <3>1 DEF ConnType, StreamType
    <3> QED
      BY <1>5, <3>1, <3>2 DEF AssignStreamHandler
  <2>5. Sets(d, r, s, y)
    BY <1>1, <2>2, <2>4, SetStream
  <2>6. StreamFits(d.init, d.over, y)
    BY <1>1, <1>2, <2>2 DEF Fits, StreamFits, LiveStates
  <2>7. Fits(r) /\ Clean(r) /\ Touches(d, r, s)
    BY <1>1, <1>2, <2>2, <2>5, <2>6, SetsGood, SetsTouches DEF LiveStates
  <2>8. r \in ConnType /\ r.s[s] = y /\ r.win = d.win
    BY <2>5 DEF Sets
  <2>9. ~(r.s[s].ready > 0) /\ r.s[s].state \in LiveStates \ {"init"} /\ r.s[s].pri = d.s[s].pri
    BY <1>2, <1>5, <2>2, <2>8 DEF LiveStates
  <2>10. Eager(r.s[s])
    BY <2>9 DEF Eager
  <2>11. r.win <= d.win
    BY <1>3, <2>8, Sizes
  <2>12. Eager(d.s[s]) => ~Ready(r.s[s])
    BY <1>2, <2>2, <2>8, <2>9 DEF Eager, Ready
  <2> QED
    BY <2>7, <2>8, <2>9, <2>10, <2>11, <2>12 DEF Turned, Good
<1> QED
  BY <1>4, <1>5

LEMMA TurnedSame ==
    ASSUME NEW d, Good(d), NEW s \in Streams
    PROVE  Turned(d, d, s)
<1>1. d \in ConnType /\ d.win \in 0 .. MaxWindow
  BY DEF Good, ConnType
<1>2. Touches(d, d, s)
  BY <1>1, FlagSteps, OutputPlaces DEF Places
<1> QED
  BY <1>1, <1>2, Sizes DEF Turned

LEMMA TurnStep ==
    ASSUME NEW d, Good(d), NEW s \in Streams, d.s[s].state \in LiveStates,
           NEW e, e = Turn(d, s)
    PROVE  Turned(d, e, s) /\ e.s[s].state \in LiveStates \ {"init"}
<1>1. CASE d.s[s].state = "init"
  BY <1>1, AssignStep DEF Turn
<1>2. CASE d.s[s].state # "init" /\ d.s[s].want
  BY <1>2, OnWriteTurned DEF Turn
<1>3. CASE d.s[s].state # "init" /\ ~d.s[s].want
  BY <1>3, TurnedSame DEF Turn
<1> QED
  BY <1>1, <1>2, <1>3

\* From d to e only the queues changed.
Moves(d, e) ==
    /\ e \in ConnType
    /\ e.want = d.want /\ e.pause = d.pause /\ e.buf = d.buf /\ e.wait = d.wait
    /\ e.inEvent = d.inEvent /\ e.flush = d.flush /\ e.late = d.late /\ e.room = d.room
    /\ e.win = d.win /\ e.init = d.init /\ e.s = d.s
    /\ e.total = d.total /\ e.passed = d.passed /\ e.granted = d.granted /\ e.over = d.over
    /\ e.open = d.open /\ e.refused = d.refused /\ e.pending = d.pending

NewQueue(d, e, p, q) ==
    /\ Moves(d, e)
    /\ e.que[p] = q /\ \A o \in Priorities : o # p => e.que[o] = d.que[o]

LEMMA SetQueue ==
    ASSUME NEW d \in ConnType, NEW p \in Priorities, NEW q \in Seq(Streams),
           NEW e, e = [d EXCEPT !.que[p] = q]
    PROVE  NewQueue(d, e, p, q)
<1>1. d.que \in [Priorities -> Seq(Streams)]
  BY QueueTypes
<1>2. PICK y : y = [d.que EXCEPT ![p] = q]
  OBVIOUS
<1>3. /\ y \in [Priorities -> Seq(Streams)] /\ y[p] = q
      /\ \A o \in Priorities : o # p => y[o] = d.que[o]
  BY <1>1, <1>2
<1>4. e = [d EXCEPT !.que = y]
  BY <1>2
<1>5. e \in ConnType /\ e.que = y
  BY <1>3, <1>4 DEF ConnType
<1>6. Moves(d, e)
  BY <1>4, <1>5 DEF Moves, ConnType
<1> QED
  BY <1>2, <1>3, <1>5, <1>6 DEF NewQueue

LEMMA MovesLink ==
    ASSUME NEW d, NEW e, Moves(d, e)
    PROVE  Link(d, e) /\ (Fits(d) => Fits(e))
<1>1. Link(d, e)
  BY DEF Moves, Link, LinkOk
<1>2. Fits(d) => Fits(e)
  BY DEF Moves, Fits
<1> QED
  BY <1>1, <1>2

LEMMA RequeueStep ==
    ASSUME NEW d, Good(d), NEW s \in Streams, d.s[s].state \in LiveStates,
           NEW e, e = Requeue(d, s)
    PROVE  /\ Good(e) /\ Touches(d, e, s) /\ e.s = d.s /\ e.win = d.win /\ e.buf = d.buf
           /\ GoesOn(d, s) => In(e, s)
<1>1. d \in ConnType /\ Fits(d) /\ Clean(d)
  BY DEF Good
<1>2. CASE ~(GoesOn(d, s) /\ ~Queued(d, s))
  <2>1. e = d
    BY <1>2 DEF Requeue
  <2> QED
    BY <1>1, <1>2, <2>1, FlagSteps, OutputPlaces, InQueued DEF Places
<1>3. CASE GoesOn(d, s) /\ ~Queued(d, s)
  <2>1. PICK p \in Priorities : p = d.s[s].pri
    BY <1>1, QueueTypes
  <2>2. PICK q : q = Append(d.que[p], s)
    OBVIOUS
  <2>3. d.que[p] \in Seq(Streams)
    BY <1>1, QueueTypes
  <2>4. q \in Seq(Streams) /\ (\A y : Has(q, y) <=> Has(d.que[p], y) \/ y = s)
        /\ (Once(d.que[p]) /\ ~Has(d.que[p], s) => Once(q))
    BY <2>2, <2>3, AppendHas
  <2>5. Prefix(d.que[p], q, {s})
    BY <2>2, <2>3, PrefixAppend
  <2>6. e = [d EXCEPT !.que[p] = q]
    BY <1>3, <2>1, <2>2 DEF Requeue
  <2>7. /\ Moves(d, e)
        /\ e.que[p] = q /\ \A o \in Priorities : o # p => e.que[o] = d.que[o]
    <3>1. NewQueue(d, e, p, q)
      BY <1>1, <2>4, <2>6, SetQueue
    <3> QED
      BY <3>1 DEF NewQueue
  <2>8. Link(d, e) /\ Fits(e) /\ e \in ConnType /\ e.s = d.s /\ e.win = d.win /\ e.buf = d.buf
    BY <1>1, <2>7, MovesLink DEF Moves
  <2>9. ~Has(d.que[p], s)
    BY <1>3 DEF Queued, Has
  <2>10. Clean(e)
    <3> SUFFICES ASSUME NEW o \in Priorities
                 PROVE  /\ Once(e.que[o])
                        /\ \A t \in Streams : Has(e.que[o], t) => e.s[t].state \in LiveStates /\ e.s[t].pri = o
      BY DEF Clean
    <3>1. CASE o # p
      BY <1>1, <2>7, <2>8, <3>1 DEF Clean
    <3>2. CASE o = p
      BY <1>1, <2>1, <2>4, <2>7, <2>8, <2>9, <3>2 DEF Clean
    <3> QED
      BY <3>1, <3>2
  <2>11. \A o \in Priorities : Prefix(d.que[o], e.que[o], {s})
    BY <1>1, <2>5, <2>7, QueueTypes, PrefixSame
  <2>12. \A o \in Priorities : \A t \in Streams : t # s => (Has(e.que[o], t) <=> Has(d.que[o], t))
    BY <2>4, <2>7
  <2>13. Touches(d, e, s)
    BY <2>8, <2>11, <2>12 DEF Touches
  <2>14. In(e, s)
    BY <2>4, <2>7 DEF In
  <2> QED
    BY <2>8, <2>10, <2>13, <2>14 DEF Good
<1> QED
  BY <1>2, <1>3

\* Recycling takes the stream from the map and from the queues.
LEMMA RecycleStep ==
    ASSUME NEW d, Good(d), NEW s \in Streams, NEW e, e = RecycleStream(d, s)
    PROVE  /\ Turned(d, e, s) /\ e.win = d.win /\ e.buf = d.buf /\ e.s[s].state = "gone"
           /\ e.flush = d.flush /\ e.want = d.want /\ e.wait = d.wait /\ e.pause = d.pause
<1>1. d \in ConnType /\ Fits(d) /\ Clean(d)
  BY DEF Good
<1>2. PICK y : y = [FreshStream EXCEPT !.state = "gone"]
  OBVIOUS
<1>3. y \in StreamType /\ y.state = "gone" /\ y.sent = 0 /\ y.granted = 0 /\ y.ready = 0 /\ y.toCome = 0
  <2>1. /\ 0 \in Priorities /\ 0 \in -(MaxWindow + 1) .. MaxWindow /\ 0 \in 0 .. RespSize
    BY Sizes DEF Priorities
  <2> QED
    BY <1>2, <2>1 DEF FreshStream, StreamType
<1>4. PICK f : f = [d EXCEPT !.s[s] = y]
  OBVIOUS
<1>5. Sets(d, f, s, y)
  BY <1>1, <1>3, <1>4, SetStream
<1>6. StreamFits(d.init, d.over, y)
  BY <1>3, Sizes DEF StreamFits, LiveStates
<1>7. Fits(f) /\ CleanBut(f, s) /\ Touches(d, f, s)
  BY <1>1, <1>5, <1>6, SetsGood, SetsTouches
<1>8. f \in ConnType /\ f.s[s] = y /\ f.que = d.que /\ f.win = d.win /\ f.buf = d.buf
      /\ f.flush = d.flush /\ f.want = d.want /\ f.wait = d.wait /\ f.pause = d.pause
  BY <1>5 DEF Sets
<1>9. PICK que : que = [p \in Priorities |-> Without(d.que[p], s)]
  OBVIOUS
<1>10. \A p \in Priorities : /\ que[p] \in Seq(Streams)
                             /\ \A t : Has(que[p], t) <=> Has(d.que[p], t) /\ t # s
                             /\ Once(d.que[p]) => Once(que[p])
                             /\ Prefix(d.que[p], que[p], {s})
  <2> SUFFICES ASSUME NEW p \in Priorities
               PROVE  /\ que[p] \in Seq(Streams)
                      /\ \A t : Has(que[p], t) <=> Has(d.que[p], t) /\ t # s
                      /\ Once(d.que[p]) => Once(que[p])
                      /\ Prefix(d.que[p], que[p], {s})
    OBVIOUS
  <2>1. d.que[p] \in Seq(Streams) /\ que[p] = Drop(d.que[p], {s})
    BY <1>1, <1>9, QueueTypes DEF Without
  <2> QED
    BY <2>1, DropWorks
<1>11. e = [f EXCEPT !.que = que]
  BY <1>1, <1>2, <1>4, <1>9 DEF RecycleStream, ConnType
<1>12. que \in [Priorities -> Seq(Streams)]
  BY <1>9, <1>10
<1>13. Moves(f, e) /\ e.que = que
  BY <1>8, <1>11, <1>12 DEF Moves, ConnType
<1>14. Link(f, e) /\ Fits(e) /\ e \in ConnType /\ e.s = f.s /\ e.win = d.win /\ e.buf = d.buf
       /\ e.flush = d.flush /\ e.want = d.want /\ e.wait = d.wait /\ e.pause = d.pause
  BY <1>7, <1>8, <1>13, MovesLink DEF Moves
<1>15. Touches(f, e, s)
  BY <1>8, <1>10, <1>13, <1>14 DEF Touches
<1>16. Touches(d, e, s)
  BY <1>1, <1>7, <1>15, TouchesTrans
<1>17. Clean(e)
  <2>1. \A p \in Priorities : Once(e.que[p])
    BY <1>1, <1>10, <1>13 DEF Clean
  <2>2. ASSUME NEW p \in Priorities, NEW t \in Streams, Has(e.que[p], t)
        PROVE  e.s[t].state \in LiveStates /\ e.s[t].pri = p
    <3>1. Has(f.que[p], t) /\ t # s
      BY <1>8, <1>10, <1>13, <2>2
    <3> QED
      BY <1>7, <1>14, <3>1 DEF CleanBut
  <2> QED
    BY <2>1, <2>2 DEF Clean
<1>18. Eager(e.s[s]) /\ ~Ready(e.s[s]) /\ e.s[s].state = "gone"
  BY <1>3, <1>8, <1>14 DEF Eager, Ready
<1>19. d.win \in 0 .. MaxWindow
  BY <1>1 DEF ConnType
<1> QED
  BY <1>14, <1>16, <1>17, <1>18, <1>19, Sizes DEF Turned, Good

\* The front of a queue is taken.
Fronted(d, e, s, p) ==
    /\ Good(e) /\ Link(d, e) /\ Moves(d, e)
    /\ e.que[p] = Tail(d.que[p])
    /\ s \in Streams /\ d.s[s].state \in LiveStates /\ d.s[s].pri = p
    /\ \A o \in Priorities : ~Has(e.que[o], s)
    /\ \A o \in Priorities : \A t \in Streams : t # s => (Has(e.que[o], t) <=> Has(d.que[o], t))
    /\ \A o \in Priorities : \A t \in Streams : Has(e.que[o], t) => Has(d.que[o], t)

LEMMA FrontStep ==
    ASSUME NEW d, Good(d), NEW p \in Priorities, d.que[p] # <<>>,
           NEW s, s = Head(d.que[p]), NEW e, e = [d EXCEPT !.que[p] = Tail(@)]
    PROVE  Fronted(d, e, s, p)
<1>1. d \in ConnType /\ Fits(d) /\ Clean(d)
  BY DEF Good
<1>2. d.que[p] \in Seq(Streams)
  BY <1>1, QueueTypes
<1>4. PICK q : q = Tail(d.que[p])
  OBVIOUS
<1>5. /\ q \in Seq(Streams) /\ s \in Streams /\ Has(d.que[p], s)
      /\ \A y : Has(d.que[p], y) => Has(q, y) \/ y = s
      /\ \A y : Has(q, y) => Has(d.que[p], y)
      /\ Once(d.que[p]) => Once(q) /\ ~Has(q, s)
  BY <1>2, <1>4, TailHas
<1>6. e = [d EXCEPT !.que[p] = q]
  BY <1>4
<1>7. Moves(d, e) /\ e.que[p] = q /\ \A o \in Priorities : o # p => e.que[o] = d.que[o]
  <2>1. NewQueue(d, e, p, q)
    BY <1>1, <1>5, <1>6, SetQueue
  <2> QED
    BY <2>1 DEF NewQueue
<1>8. Link(d, e) /\ Fits(e) /\ e \in ConnType /\ e.s = d.s
  BY <1>1, <1>7, MovesLink DEF Moves
<1>9. d.s[s].state \in LiveStates /\ d.s[s].pri = p
  BY <1>1, <1>5 DEF Clean
<1>10. \A o \in Priorities : ~Has(e.que[o], s)
  BY <1>1, <1>5, <1>7, <1>9 DEF Clean
<1>11. /\ \A o \in Priorities : \A t \in Streams : t # s => (Has(e.que[o], t) <=> Has(d.que[o], t))
       /\ \A o \in Priorities : \A t \in Streams : Has(e.que[o], t) => Has(d.que[o], t)
  BY <1>5, <1>7
<1>12. \A o \in Priorities : Once(e.que[o])
  BY <1>1, <1>5, <1>7 DEF Clean
<1>13. Clean(e)
  BY <1>1, <1>8, <1>11, <1>12 DEF Clean
<1>14. Good(e) /\ e.que[p] = Tail(d.que[p])
  BY <1>4, <1>7, <1>8, <1>13 DEF Good
<1> QED
  BY <1>5, <1>7, <1>8, <1>9, <1>10, <1>11, <1>14 DEF Fronted

-----------------------------------------------------------------------------
(***************************************************************************)
(* processQueue().                                                         *)
(***************************************************************************)

ResultType == [c : ConnType, n : Nat, stop : BOOLEAN]

\* what it means to give stream s, the first of queue p, its turn
Took(d, r, s, n, p) ==
    /\ r \in ResultType /\ Good(r.c) /\ Link(d, r.c) /\ r.c.win <= d.win
    /\ r.n >= n /\ (r.stop => r.n > 0)
    /\ \A t \in Streams : t # s => r.c.s[t] = d.s[t]
    /\ \A o \in Priorities : \A t \in Streams : t # s => (Has(r.c.que[o], t) <=> Has(d.que[o], t))
    /\ Prefix(Tail(d.que[p]), r.c.que[p], {s})
    /\ Eager(d.s[s]) => Eager(r.c.s[s])
    /\ Ready(r.c.s[s]) => r.c.s[s].pri = p
    /\ Eager(d.s[s]) /\ Ready(r.c.s[s]) => r.n > 0 /\ In(r.c, s)

LEMMA AfterTurnStep ==
    ASSUME NEW d, Good(d), NEW s \in Streams, d.s[s].state \in LiveStates \ {"init"}, NEW n \in Nat,
           NEW r, r = AfterTurn(d, s, n)
    PROVE  /\ r \in ResultType /\ Turned(d, r.c, s) /\ r.n >= n /\ (r.stop => r.n > 0)
           /\ Eager(d.s[s]) /\ Ready(r.c.s[s]) => r.n > 0 /\ In(r.c, s)
<1>1. PICK g : g = Requeue(d, s)
  OBVIOUS
<1>2. /\ Good(g) /\ Touches(d, g, s) /\ g.s = d.s /\ g.win = d.win
      /\ GoesOn(d, s) => In(g, s)
  BY <1>1, RequeueStep
<1>3. PICK h : h = Reap(g, s)
  OBVIOUS
<1>4. d.win \in 0 .. MaxWindow
  BY DEF Good, ConnType
<1>5. Turned(d, g, s)
  BY <1>2, <1>4, Sizes DEF Turned, Ready
<1>6. Turned(g, h, s) /\ (Ready(h.s[s]) => h = g)
  <2>1. CASE g.s[s].state = "shutdown"
    <3>1. Turned(g, h, s) /\ h.s[s].state = "gone"
      BY <1>2, <1>3, <2>1, RecycleStep DEF Reap
    <3> QED
      BY <3>1 DEF Ready
  <2>2. CASE g.s[s].state # "shutdown"
    BY <1>2, <1>3, <2>2, TurnedSame DEF Reap
  <2> QED
    BY <2>1, <2>2
<1>7. Turned(d, h, s)
  BY <1>5, <1>6, TurnedTrans
<1>8. PICK full \in BOOLEAN : full = IsOutBufFull(h)
  BY DEF IsOutBufFull
<1>9. PICK m : m = n + (IF GoesOn(d, s) THEN 1 ELSE 0) + (IF full THEN 1 ELSE 0)
  OBVIOUS
<1>10. r = [c |-> h, n |-> m, stop |-> full]
  BY <1>1, <1>3, <1>8, <1>9 DEF AfterTurn
<1>11. m \in Nat /\ m >= n /\ (full => m > 0) /\ (GoesOn(d, s) => m > 0)
  BY <1>9
<1>12. r \in ResultType /\ r.c = h /\ r.n = m /\ (r.stop => m > 0)
  <2>1. h \in ConnType
    BY <1>7 DEF Turned, Good
  <2> QED
    BY <1>10, <1>11, <2>1 DEF ResultType
<1>13. ASSUME Eager(d.s[s]), Ready(h.s[s]) PROVE m > 0 /\ In(h, s)
  <2>1. h = g /\ h.s[s] = d.s[s]
    BY <1>2, <1>6, <1>13
  <2>2. d.s[s].want /\ d.s[s].win > 0
    BY <1>13, <2>1 DEF Eager, Ready
  <2>3. GoesOn(d, s)
    BY <2>2 DEF GoesOn
  <2> QED
    BY <1>2, <1>11, <2>1, <2>3
<1> QED
  BY <1>7, <1>11, <1>12, <1>13

LEMMA TakeOneStep ==
    ASSUME NEW d, Good(d), NEW p \in Priorities, d.que[p] # <<>>, NEW n \in Nat,
           NEW s, s = Head(d.que[p]), NEW r, r = TakeOne(d, n, p)
    PROVE  Took(d, r, s, n, p) /\ s \in Streams /\ d.s[s].pri = p
<1>1. PICK e : e = [d EXCEPT !.que[p] = Tail(@)]
  OBVIOUS
<1>2. /\ Good(e) /\ Link(d, e) /\ Moves(d, e) /\ e.que[p] = Tail(d.que[p])
      /\ s \in Streams /\ d.s[s].state \in LiveStates /\ d.s[s].pri = p
      /\ \A o \in Priorities : \A t \in Streams : t # s => (Has(e.que[o], t) <=> Has(d.que[o], t))
  <2>1. Fronted(d, e, s, p)
    BY <1>1, FrontStep
  <2> QED
    BY <2>1 DEF Fronted
<1>3. e.s = d.s /\ e.win = d.win /\ d.win \in 0 .. MaxWindow
  BY <1>2 DEF Moves, Good, ConnType
<1>4. r = IF e.s[s].state = "shutdown" THEN [c |-> RecycleStream(e, s), n |-> n, stop |-> FALSE]
          ELSE AfterTurn(Turn(e, s), s, n)
  BY <1>1 DEF TakeOne
<1>5. /\ r \in ResultType /\ Turned(e, r.c, s) /\ r.n >= n /\ (r.stop => r.n > 0)
      /\ Eager(d.s[s]) /\ Ready(r.c.s[s]) => r.n > 0 /\ In(r.c, s)
  <2>1. CASE e.s[s].state = "shutdown"
    <3>1. PICK f : f = RecycleStream(e, s)
      OBVIOUS
    <3>2. Turned(e, f, s) /\ f.s[s].state = "gone" /\ f \in ConnType
      BY <1>2, <3>1, RecycleStep DEF Turned, Good
    <3>3. r = [c |-> f, n |-> n, stop |-> FALSE]
      BY <1>4, <2>1, <3>1
    <3>4. r \in ResultType /\ r.c = f /\ r.n = n /\ r.stop = FALSE
      BY <3>2, <3>3 DEF ResultType
    <3>5. ~Ready(f.s[s])
      BY <3>2 DEF Ready
    <3> QED
      BY <3>2, <3>4, <3>5
  <2>2. CASE e.s[s].state # "shutdown"
    <3>1. PICK f : f = Turn(e, s)
      OBVIOUS
    <3>2. Turned(e, f, s) /\ f.s[s].state \in LiveStates \ {"init"} /\ Good(f)
      <4>1. Turned(e, f, s) /\ f.s[s].state \in LiveStates \ {"init"}
        BY <1>2, <1>3, <3>1, TurnStep
      <4> QED
        BY <4>1 DEF Turned
    <3>3. r = AfterTurn(f, s, n)
      BY <1>4, <2>2, <3>1
    <3>4. /\ r \in ResultType /\ Turned(f, r.c, s) /\ r.n >= n /\ (r.stop => r.n > 0)
          /\ Eager(f.s[s]) /\ Ready(r.c.s[s]) => r.n > 0 /\ In(r.c, s)
      BY <1>2, <3>2, <3>3, AfterTurnStep
    <3>5. Ready(r.c.s[s]) => Ready(f.s[s])
      <4>1. r.c = Reap(Requeue(f, s), s)
        BY <3>3 DEF AfterTurn
      <4>2. PICK g : g = Requeue(f, s)
        OBVIOUS
      <4>3. Good(g) /\ g.s = f.s
        BY <1>2, <3>2, <4>2, RequeueStep
      <4>4. CASE g.s[s].state = "shutdown"
        <5>1. PICK h : h = RecycleStream(g, s)
          OBVIOUS
        <5>2. h.s[s].state = "gone"
          BY <1>2, <4>3, <5>1, RecycleStep
        <5> QED
          BY <4>1, <4>2, <4>4, <5>1, <5>2 DEF Reap, Ready
      <4>5. CASE g.s[s].state # "shutdown"
        BY <4>1, <4>2, <4>3, <4>5 DEF Reap
      <4> QED
        BY <4>4, <4>5
    <3>6. Turned(e, r.c, s)
      BY <1>2, <3>2, <3>4, <3>5, TurnedTrans
    <3>7. Eager(d.s[s]) => Eager(f.s[s])
      BY <1>3, <3>2 DEF Turned
    <3> QED
      BY <3>4, <3>6, <3>7
  <2> QED
    BY <2>1, <2>2
<1>6. Touches(e, r.c, s) /\ Good(r.c) /\ r.c.win <= d.win
      /\ (Eager(d.s[s]) => Eager(r.c.s[s])) /\ (Ready(r.c.s[s]) => r.c.s[s].pri = p)
  BY <1>2, <1>3, <1>5 DEF Turned
<1>7. Link(d, r.c)
  <2>1. Link(e, r.c)
    BY <1>6 DEF Touches
  <2> QED
    BY <1>2, <2>1, LinkTrans
<1>8. Prefix(Tail(d.que[p]), r.c.que[p], {s})
  BY <1>2, <1>6 DEF Touches
<1>9. \A t \in Streams : t # s => r.c.s[t] = d.s[t]
  BY <1>3, <1>6 DEF Touches
<1>10. \A o \in Priorities : \A t \in Streams : t # s => (Has(r.c.que[o], t) <=> Has(d.que[o], t))
  BY <1>2, <1>6 DEF Touches
<1> QED
  BY <1>2, <1>5, <1>6, <1>7, <1>8, <1>9, <1>10 DEF Took

LEMMA QueueLength ==
    ASSUME NEW q \in Seq(Streams), Once(q)
    PROVE  Len(q) \in 0 .. NumStreams
<1>1. Len(q) \in Nat /\ q \in [1 .. Len(q) -> Streams] /\ NumStreams \in Nat
  BY Sizes
<1>2. PICK n \in Nat : n = Len(q)
  BY <1>1
<1>3. /\ IsFiniteSet(1 .. n) /\ Cardinality(1 .. n) = n
      /\ IsFiniteSet(Streams) /\ Cardinality(Streams) = NumStreams
  <2>1. ASSUME NEW m \in Nat PROVE IsFiniteSet(1 .. m) /\ Cardinality(1 .. m) = m
    <3>1. /\ IsFiniteSet(1 .. m)
          /\ Cardinality(1 .. m) = IF 1 > m THEN 0 ELSE m - 1 + 1
      BY FS_Interval
    <3> QED
      BY <3>1
  <2> QED
    BY <1>1, <2>1 DEF Streams
<1>4. ASSUME NumStreams < n PROVE FALSE
  <2>1. \E x, y \in 1 .. n : x # y /\ q[x] = q[y]
    BY <1>1, <1>2, <1>3, <1>4, FS_PigeonHole
  <2> QED
    BY <1>2, <2>1 DEF Once
<1> QED
  BY <1>1, <1>2, <1>4

\* w goes on as q does after its first k members
Behind(q, w, k) == \A i \in 1 .. Len(q) - k : i <= Len(w) /\ w[i] = q[i + k]

\* the state of the loop over queue p, which started in d
Goes(d, r, p) ==
    /\ r \in ResultType /\ Good(r.c) /\ Link(d, r.c) /\ r.c.win <= d.win
    /\ r.stop => r.n > 0
    /\ Waiting(d) => Waiting(r.c)
    /\ \A t \in Streams : d.s[t].pri # p => r.c.s[t] = d.s[t]
    /\ \A t \in Streams : Ready(r.c.s[t]) => r.c.s[t].pri = d.s[t].pri

\* While nothing more is to be written, the streams that had their turn are not ready.
Idle(r) == r.n = 0 /\ r.c.win > 0 /\ ~r.c.pause

Rest(d, r, p, k) ==
    Waiting(d) /\ Idle(r) =>
        /\ Behind(d.que[p], r.c.que[p], k)
        /\ \A t \in Streams : Ready(r.c.s[t]) /\ r.c.s[t].pri = p =>
                                 \E i \in k + 1 .. Len(d.que[p]) : d.que[p][i] = t

LEMMA TookGoes ==
    ASSUME NEW d, Good(d), NEW p \in Priorities, NEW r, NEW s \in Streams, NEW e,
           Goes(d, r, p), Took(r.c, e, s, r.n, p), r.c.s[s].pri = p
    PROVE  Goes(d, e, p)
<1>1. r.c \in ConnType /\ d \in ConnType /\ e.c \in ConnType
  BY DEF Goes, Took, Good
<1>2. r.c.win \in 0 .. MaxWindow /\ d.win \in 0 .. MaxWindow /\ e.c.win \in 0 .. MaxWindow
  BY <1>1 DEF ConnType
<1>3. e.c.win <= d.win
  BY <1>2, Sizes DEF Goes, Took
<1>4. Link(d, e.c)
  BY LinkTrans DEF Goes, Took
<1>5. Waiting(d) => Waiting(e.c)
  <2> SUFFICES ASSUME Waiting(r.c), NEW t \in Streams
               PROVE  Eager(e.c.s[t]) /\ (Ready(e.c.s[t]) => In(e.c, t))
    BY DEF Goes, Waiting
  <2>1. CASE t = s
    BY <2>1 DEF Took, Waiting
  <2>2. CASE t # s
    BY <2>2 DEF Took, Waiting, In
  <2> QED
    BY <2>1, <2>2
<1>6. d.s[s].pri = p
  BY DEF Goes
<1>7. \A t \in Streams : d.s[t].pri # p => e.c.s[t] = d.s[t]
  BY <1>6 DEF Goes, Took
<1>8. \A t \in Streams : Ready(e.c.s[t]) => e.c.s[t].pri = d.s[t].pri
  BY <1>6 DEF Goes, Took
<1> QED
  BY <1>3, <1>4, <1>5, <1>7, <1>8 DEF Goes, Took

LEMMA TookRest ==
    ASSUME NEW d, Good(d), NEW p \in Priorities, NEW r, NEW s \in Streams, NEW e, NEW k \in Nat,
           Goes(d, r, p), Rest(d, r, p, k), Took(r.c, e, s, r.n, p),
           r.c.que[p] # <<>>, s = Head(r.c.que[p])
    PROVE  Rest(d, e, p, k + 1)
<1>1. r.c \in ConnType /\ d \in ConnType /\ e.c \in ConnType /\ r.n \in Nat /\ e.n \in Nat
  BY DEF Goes, Took, Good, ResultType
<1>2. r.c.win \in 0 .. MaxWindow /\ e.c.win \in 0 .. MaxWindow
  BY <1>1 DEF ConnType
<1> SUFFICES ASSUME Waiting(d), Idle(e)
             PROVE  /\ Behind(d.que[p], e.c.que[p], k + 1)
                    /\ \A t \in Streams : Ready(e.c.s[t]) /\ e.c.s[t].pri = p =>
                          \E i \in (k + 1) + 1 .. Len(d.que[p]) : d.que[p][i] = t
  BY DEF Rest
<1>3. Idle(r)
  <2>1. r.n = 0
    BY <1>1 DEF Idle, Took
  <2>2. r.c.win > 0
    BY <1>2, Sizes DEF Idle, Took
  <2>3. ~r.c.pause
    BY DEF Idle, Took, Link
  <2> QED
    BY <2>1, <2>2, <2>3 DEF Idle
<1>4. PICK q \in Seq(Streams), w \in Seq(Streams), v \in Seq(Streams) :
          q = d.que[p] /\ w = r.c.que[p] /\ v = e.c.que[p]
  BY <1>1, QueueTypes
<1>5. /\ Behind(q, w, k)
      /\ \A t \in Streams : Ready(r.c.s[t]) /\ r.c.s[t].pri = p => \E i \in k + 1 .. Len(q) : q[i] = t
  BY <1>3, <1>4 DEF Rest
<1>6. /\ Len(q) \in Nat /\ Len(w) \in Nat /\ Len(w) > 0 /\ Len(v) \in Nat /\ Len(Tail(w)) = Len(w) - 1
      /\ s = w[1] /\ \A i \in 1 .. Len(w) - 1 : Tail(w)[i] = w[i + 1]
  <2>1. w # <<>> /\ s = Head(w)
    BY <1>4
  <2>2. Len(q) \in Nat /\ Len(w) \in Nat /\ Len(w) > 0 /\ Len(v) \in Nat
    BY ONLY <2>1, q \in Seq(Streams), w \in Seq(Streams), v \in Seq(Streams)
  <2>3. Len(Tail(w)) = Len(w) - 1 /\ s = w[1] /\ \A i \in 1 .. Len(w) - 1 : Tail(w)[i] = w[i + 1]
    BY ONLY <2>1, w \in Seq(Streams)
  <2> QED
    BY <2>2, <2>3
<1>7. Once(w)
  BY <1>4 DEF Goes, Good, Clean
<1>8. Behind(q, v, k + 1)
  <2> SUFFICES ASSUME NEW i \in 1 .. Len(q) - (k + 1)
               PROVE  i <= Len(v) /\ v[i] = q[i + (k + 1)]
    BY DEF Behind
  <2>0. PICK lq \in Nat : lq = Len(q)
    BY <1>6
  <2>01. i \in 1 .. lq - (k + 1)
    BY <2>0
  <2>02. lq - (k + 1) \in Nat
    BY ONLY <2>01, lq \in Nat, k \in Nat
  <2>1. PICK m \in Nat : m = Len(q) - (k + 1)
    BY <2>0, <2>02, Zenon
  <2>2. \A j \in 1 .. m : j + 1 \in 1 .. Len(q) - k /\ j + 1 <= Len(w) /\ w[j + 1] = q[(j + 1) + k]
    BY <1>5, <1>6, <2>1 DEF Behind
  <2>21. PICK lw \in Nat : lw = Len(w)
    BY <1>6
  <2>22. \A j \in 1 .. m : j + 1 <= lw
    BY <2>2, <2>21
  <2>23. m + 1 <= lw /\ i \in 1 .. m
    <3>1. i \in 1 .. m
      BY <2>1
    <3>2. m \in 1 .. m
      BY <3>1
    <3>3. m + 1 <= lw
      BY <2>22, <3>2
    <3> QED
      BY <3>1, <3>3
  <2>3. m \in 0 .. Len(Tail(w))
    <3>1. Len(Tail(w)) = lw - 1
      BY <1>6, <2>21
    <3> QED
      BY <2>23, <3>1
  <2>4. \A j \in 1 .. m : Tail(w)[j] = q[j + (k + 1)] /\ Tail(w)[j] # s
    <3> TAKE j \in 1 .. m
    <3>1. j + 1 \in 1 .. Len(w) /\ j + 1 # 1 /\ j \in 1 .. Len(w) - 1 /\ (j + 1) + k = j + (k + 1)
      <4>2. j + 1 <= lw
        BY <2>22
      <4>1. j + 1 \in 1 .. lw /\ j + 1 # 1 /\ j \in 1 .. lw - 1 /\ (j + 1) + k = j + (k + 1)
        BY <4>2
      <4> QED
        BY <2>21, <4>1
    <3>2. Tail(w)[j] = w[j + 1] /\ w[j + 1] = q[j + (k + 1)]
      BY <1>6, <2>2, <3>1
    <3>3. w[j + 1] # w[1]
      <4>1. 1 \in 1 .. Len(w)
        BY <2>21, <2>23
      <4> QED
        BY <1>7, <3>1, <4>1 DEF Once
    <3> QED
      BY <1>6, <3>2, <3>3
  <2>5. Free(Tail(w), m, {s})
    BY <2>4 DEF Free
  <2>6. Prefix(Tail(w), v, {s})
    BY <1>4 DEF Took
  <2>7. Ahead(Tail(w), v, m)
    BY <2>3, <2>5, <2>6 DEF Prefix
  <2>8. m <= Len(v) /\ \A j \in 1 .. m : v[j] = Tail(w)[j]
    BY <2>7 DEF Ahead
  <2>9. i <= Len(v)
    BY <1>6, <2>23, <2>8
  <2> QED
    BY <2>23, <2>4, <2>8, <2>9
<1>9. ASSUME NEW t \in Streams, Ready(e.c.s[t]), e.c.s[t].pri = p
      PROVE  \E i \in (k + 1) + 1 .. Len(q) : q[i] = t
  <2>1. t # s
    <3>1. Eager(r.c.s[s])
      BY DEF Goes, Waiting
    <3>2. t = s => e.n > 0
      BY <1>9, <3>1 DEF Took
    <3> QED
      BY <1>1, <3>2 DEF Idle
  <2>2. Ready(r.c.s[t]) /\ r.c.s[t].pri = p
    BY <1>9, <2>1 DEF Took
  <2>3. PICK i \in k + 1 .. Len(q) : q[i] = t
    BY <1>5, <2>2
  <2>4. i # k + 1
    <3> SUFFICES ASSUME i = k + 1 PROVE FALSE
      OBVIOUS
    <3>1. 1 \in 1 .. Len(q) - k
      BY <1>6, <2>3
    <3>2. w[1] = q[1 + k]
      BY <1>5, <3>1 DEF Behind
    <3>3. 1 + k = i
      OBVIOUS
    <3> QED
      BY <1>6, <2>1, <2>3, <3>2, <3>3
  <2> QED
    BY <1>6, <2>3, <2>4
<1> QED
  BY <1>4, <1>8, <1>9

LEMMA StopRest ==
    ASSUME NEW d, Good(d), NEW p \in Priorities, NEW r, NEW k \in Nat,
           Goes(d, r, p), Rest(d, r, p, k),
           r.stop \/ r.c.win <= 0 \/ r.c.pause \/ r.c.que[p] = <<>>
    PROVE  Rest(d, r, p, k + 1)
<1> SUFFICES ASSUME Waiting(d), Idle(r)
             PROVE  /\ Behind(d.que[p], r.c.que[p], k + 1)
                    /\ \A t \in Streams : Ready(r.c.s[t]) /\ r.c.s[t].pri = p =>
                          \E i \in (k + 1) + 1 .. Len(d.que[p]) : d.que[p][i] = t
  BY DEF Rest
<1>1. d \in ConnType /\ r.c \in ConnType /\ r.n \in Nat
  BY DEF Goes, Good, ResultType
<1>2. r.c.win \in 0 .. MaxWindow
  BY <1>1 DEF ConnType
<1>3. ~r.stop /\ ~(r.c.win <= 0) /\ ~r.c.pause
  <2>1. ~r.stop
    BY <1>1 DEF Goes, Idle
  <2>2. ~(r.c.win <= 0)
    BY <1>2, Sizes DEF Idle
  <2> QED
    BY <2>1, <2>2 DEF Idle
<1>4. r.c.que[p] = <<>>
  BY <1>3
<1>5. PICK q \in Seq(Streams) : q = d.que[p]
  BY <1>1, QueueTypes
<1>6. /\ Behind(q, <<>>, k) /\ Len(<<>>) = 0 /\ Len(q) \in Nat
      /\ \A t \in Streams : Ready(r.c.s[t]) /\ r.c.s[t].pri = p => \E i \in k + 1 .. Len(q) : q[i] = t
  BY <1>4, <1>5 DEF Rest
<1>7. Len(q) - k <= 0
  <2> SUFFICES ASSUME Len(q) - k > 0 PROVE FALSE
    BY <1>6
  <2>1. 1 \in 1 .. Len(q) - k
    BY <1>6
  <2>2. 1 <= Len(<<>>)
    BY <1>6, <2>1 DEF Behind
  <2> QED
    BY <1>6, <2>2
<1>8. Behind(q, <<>>, k + 1)
  BY <1>6, <1>7 DEF Behind
<1> QED
  BY <1>4, <1>5, <1>6, <1>7, <1>8

\* The loop over one queue.
LEMMA TakeQueueStep ==
    ASSUME NEW d, Good(d), NEW p \in Priorities
    PROVE  /\ Goes(d, TakeQueue(d, p), p)
           /\ Rest(d, TakeQueue(d, p), p, Len(d.que[p]))
<1> DEFINE N == NumStreams
           Step(r) == IF r.stop \/ r.c.win <= 0 \/ r.c.pause \/ r.c.que[p] = <<>> THEN r
                      ELSE TakeOne(r.c, r.n, p)
           b == [c |-> d, n |-> 0, stop |-> FALSE]
           run[k \in 0..NumStreams] ==
               IF k = 0 THEN [c |-> d, n |-> 0, stop |-> FALSE]
               ELSE LET r == run[k - 1]
                    IN  IF r.stop \/ r.c.win <= 0 \/ r.c.pause \/ r.c.que[p] = <<>> THEN r
                        ELSE TakeOne(r.c, r.n, p)
           S == ResultType
           U(k) == {r \in S : Goes(d, r, p) /\ Rest(d, r, p, k)}
           T == [k \in 0 .. N |-> U(k)]
           g == [k \in 0 .. N - 1 |-> [r \in S |-> Step(r)]]
<1>0. d \in ConnType /\ d.que[p] \in Seq(Streams) /\ Len(d.que[p]) \in Nat
  BY QueueTypes DEF Good
<1>1. N \in Nat
  BY Sizes
<1>2. ASSUME NEW k \in Nat, NEW r \in U(k) PROVE Step(r) \in U(k + 1)
  <2>1. Goes(d, r, p) /\ Rest(d, r, p, k) /\ r \in S /\ Good(r.c) /\ r.n \in Nat
    BY DEF Goes, ResultType
  <2>2. CASE r.stop \/ r.c.win <= 0 \/ r.c.pause \/ r.c.que[p] = <<>>
    BY <2>1, <2>2, StopRest
  <2>3. CASE ~(r.stop \/ r.c.win <= 0 \/ r.c.pause \/ r.c.que[p] = <<>>)
    <3>1. PICK s : s = Head(r.c.que[p])
      OBVIOUS
    <3>2. PICK f : f = r.c
      OBVIOUS
    <3>3. PICK m \in Nat : m = r.n
      BY <2>1
    <3>4. PICK e : e = TakeOne(f, m, p)
      OBVIOUS
    <3>5. Took(f, e, s, m, p) /\ s \in Streams /\ f.s[s].pri = p
      BY <2>1, <2>3, <3>1, <3>2, <3>4, TakeOneStep
    <3>6. Took(r.c, e, s, r.n, p) /\ r.c.s[s].pri = p
      BY <3>2, <3>3, <3>5
    <3>7. Goes(d, e, p)
      BY <2>1, <3>5, <3>6, TookGoes
    <3>8. Rest(d, e, p, k + 1)
      BY <2>1, <2>3, <3>1, <3>5, <3>6, TookRest
    <3>9. e \in S
      BY <3>7 DEF Goes
    <3> QED
      BY <2>3, <3>2, <3>3, <3>4, <3>7, <3>8, <3>9
  <2> QED
    BY <2>2, <2>3
<1>3. b \in U(0)
  <2>1. PICK r : r = b
    OBVIOUS
  <2>2. r \in S /\ r.c = d /\ r.n = 0 /\ r.stop = FALSE
    BY <1>0, <2>1 DEF ResultType
  <2>3. Link(d, d) /\ d.win \in 0 .. MaxWindow
    BY <1>0, FlagSteps DEF Output, ConnType
  <2>4. Goes(d, r, p)
    BY <2>2, <2>3, Sizes DEF Goes
  <2>5. Rest(d, r, p, 0)
    <3> SUFFICES ASSUME Waiting(d)
                 PROVE  /\ Behind(d.que[p], d.que[p], 0)
                        /\ \A t \in Streams : Ready(d.s[t]) /\ d.s[t].pri = p =>
                               \E i \in 0 + 1 .. Len(d.que[p]) : d.que[p][i] = t
      BY <2>2 DEF Rest
    <3>1. Behind(d.que[p], d.que[p], 0)
      BY <1>0 DEF Behind
    <3>2. ASSUME NEW t \in Streams, Ready(d.s[t]), d.s[t].pri = p PROVE Has(d.que[p], t)
      <4>1. PICK o \in Priorities : Has(d.que[o], t)
        BY <3>2 DEF Waiting, In
      <4>2. o = p
        BY <3>2, <4>1 DEF Good, Clean
      <4> QED
        BY <4>1, <4>2
    <3> QED
      BY <1>0, <3>1, <3>2 DEF Has
  <2> QED
    BY <2>1, <2>2, <2>4, <2>5
<1>4. \A i \in 0 .. N : U(i) \subseteq S
  OBVIOUS
<1> HIDE DEF U, N, run, Step, b, S
<1>5. /\ \A i \in 0 .. N : T[i] = U(i)
      /\ \A i \in 0 .. N - 1 : i \in 0 .. N /\ i + 1 \in 0 .. N /\ i \in Nat
      /\ 0 \in 0 .. N
  BY <1>1
<1>6. \A i \in 0 .. N - 1 : \A r \in S : g[i][r] = Step(r)
  OBVIOUS
<1> HIDE DEF T, g
<1>7. Leads(N, T, g)
  <2> SUFFICES ASSUME NEW i \in 0 .. N - 1, NEW r \in T[i] PROVE g[i][r] \in T[i + 1]
    BY DEF Leads
  <2>1. r \in U(i) /\ r \in S /\ T[i + 1] = U(i + 1) /\ i \in Nat
    BY <1>4, <1>5
  <2> QED
    BY <1>2, <1>6, <2>1
<1>8. PICK w : Walk(N, T, g, b, w)
  <2>1. b \in T[0]
    BY <1>3, <1>5
  <2> QED
    BY <1>1, <1>7, <2>1, WalkExists
<1>9. w = [k \in 0 .. N |-> IF k = 0 THEN b ELSE Step(w[k - 1])]
  <2>1. ASSUME NEW i \in 0 .. N, i # 0 PROVE w[i] = Step(w[i - 1])
    <3>1. i - 1 \in 0 .. N - 1 /\ i - 1 \in 0 .. N /\ (i - 1) + 1 = i
      BY <1>1, <2>1
    <3>2. w[i - 1] \in S /\ w[(i - 1) + 1] = g[i - 1][w[i - 1]]
      BY <1>4, <1>5, <1>8, <3>1 DEF Walk
    <3> QED
      BY <1>6, <3>1, <3>2
  <2> QED
    BY <1>8, <2>1 DEF Walk
<1>10. run = [k \in 0 .. N |-> IF k = 0 THEN b ELSE Step(run[k - 1])]
  BY <1>9 DEF run, N, Step, b
<1> DEFINE P == {i \in Nat : i <= N => run[i] \in U(i)}
<1>11. \A i \in Nat : i \in P
  <2>1. 0 \in P
    BY <1>1, <1>3, <1>5, <1>10
  <2>2. ASSUME NEW i \in Nat, i \in P PROVE i + 1 \in P
    <3> SUFFICES ASSUME i + 1 <= N PROVE run[i + 1] \in U(i + 1)
      OBVIOUS
    <3>1. i \in 0 .. N - 1 /\ run[i] \in U(i) /\ (i + 1) - 1 = i /\ i + 1 \in 0 .. N /\ i + 1 # 0
      BY <1>1, <2>2
    <3>2. run[i + 1] = Step(run[i])
      BY <1>10, <3>1
    <3> QED
      BY <1>2, <3>1, <3>2
  <2> HIDE DEF P
  <2> QED
    BY <2>1, <2>2, NatInSet
<1>12. PICK m \in Nat : m = Len(d.que[p])
  BY <1>0
<1>13. m <= N
  <2>1. Once(d.que[p])
    BY DEF Good, Clean
  <2> QED
    BY <1>0, <1>12, <2>1, QueueLength DEF N
<1>14. run[m] \in U(m)
  BY <1>11, <1>13
<1>15. TakeQueue(d, p) = run[m]
  BY <1>12 DEF TakeQueue, run, N
<1> QED
  BY <1>12, <1>14, <1>15 DEF U

NoneReady(d) == \A t \in Streams : ~Ready(d.s[t])

\* what processQueue() and onWriteEx2() return for d
Worked(d, r) ==
    /\ Good(r.c) /\ r.n \in Nat /\ Link(d, r.c) /\ r.c.win <= d.win
    /\ Waiting(d) => Waiting(r.c)
    /\ Waiting(d) /\ Idle(r) => NoneReady(r.c)

LEMMA TakeNextStep ==
    ASSUME NEW d, Good(d)
    PROVE  Worked(d, TakeNext(TakeQueue(d, 0)))
<1>0. 0 \in Priorities /\ 1 \in Priorities /\ Priorities = {0, 1}
  BY DEF Priorities
<1>1. PICK r : r = TakeQueue(d, 0)
  OBVIOUS
<1>2. PICK m : m = Len(d.que[0])
  OBVIOUS
<1>3. Goes(d, r, 0) /\ Rest(d, r, 0, m) /\ m \in Nat
  BY <1>0, <1>1, <1>2, TakeQueueStep, QueueTypes DEF Good
<1>4. Good(r.c) /\ r.n \in Nat /\ Link(d, r.c) /\ r.c.win <= d.win /\ (Waiting(d) => Waiting(r.c))
  BY <1>3 DEF Goes, ResultType
<1>5. ASSUME Waiting(d), Idle(r), NEW t \in Streams, Ready(r.c.s[t]) PROVE r.c.s[t].pri # 0
  <2>1. r.c.s[t].pri = 0 => \E i \in m + 1 .. m : d.que[0][i] = t
    BY <1>2, <1>3, <1>5 DEF Rest
  <2> QED
    BY <1>3, <2>1
<1>6. CASE r.n > 0 \/ r.c.win <= 0
  <2>1. ~Idle(r)
    <3>1. r.c.win \in 0 .. MaxWindow
      BY <1>4 DEF Good, ConnType
    <3> QED
      BY <1>4, <1>6, <3>1, Sizes DEF Idle
  <2> QED
    BY <1>1, <1>4, <1>6, <2>1 DEF Worked, TakeNext
<1>7. CASE ~(r.n > 0 \/ r.c.win <= 0)
  <2>1. PICK e : e = r.c
    OBVIOUS
  <2>2. PICK f : f = TakeQueue(e, 1)
    OBVIOUS
  <2>3. PICK k : k = Len(e.que[1])
    OBVIOUS
  <2>4. Goes(e, f, 1) /\ Rest(e, f, 1, k) /\ k \in Nat
    BY <1>0, <1>4, <2>1, <2>2, <2>3, TakeQueueStep, QueueTypes DEF Good
  <2>5. Good(f.c) /\ f.n \in Nat /\ Link(e, f.c) /\ f.c.win <= e.win /\ (Waiting(e) => Waiting(f.c))
    BY <2>4 DEF Goes, ResultType
  <2>6. Link(d, f.c)
    BY <1>4, <2>1, <2>5, LinkTrans
  <2>7. f.c.win <= d.win
    <3>1. f.c.win \in 0 .. MaxWindow /\ e.win \in 0 .. MaxWindow /\ d.win \in 0 .. MaxWindow
      BY <1>4, <2>1, <2>5 DEF Good, ConnType
    <3> QED
      BY <1>4, <2>1, <2>5, <3>1, Sizes
  <2>8. ASSUME Waiting(d), Idle(f), NEW t \in Streams, Ready(f.c.s[t]) PROVE FALSE
    <3>1. Waiting(e)
      BY <1>4, <2>1, <2>8
    <3>2. f.c.s[t].pri = e.s[t].pri /\ e.s[t].pri \in Priorities
      BY <1>4, <2>1, <2>4, <2>8, QueueTypes DEF Goes, Good
    <3>3. f.c.s[t].pri # 1
      <4>1. f.c.s[t].pri = 1 => \E i \in k + 1 .. k : e.que[1][i] = t
        BY <2>3, <2>4, <2>8, <3>1 DEF Rest
      <4> QED
        BY <2>4, <4>1
    <3>4. e.s[t].pri = 0 /\ f.c.s[t] = e.s[t]
      BY <1>0, <2>4, <3>2, <3>3 DEF Goes
    <3>5. Idle(r)
      <4>1. r.n = 0 /\ r.c.win > 0
        <5>1. r.c.win \in 0 .. MaxWindow
          BY <1>4 DEF Good, ConnType
        <5> QED
          BY <1>4, <1>7, <5>1, Sizes
      <4>2. ~r.c.pause
        BY <2>1, <2>5, <2>8 DEF Link, Idle
      <4> QED
        BY <4>1, <4>2 DEF Idle
    <3> QED
      BY <1>5, <2>1, <2>8, <3>4, <3>5
  <2>9. TakeNext(r) = f
    BY <1>7, <2>1, <2>2 DEF TakeNext
  <2> QED
    BY <1>1, <1>4, <2>1, <2>5, <2>6, <2>7, <2>8, <2>9 DEF Worked, NoneReady
<1> QED
  BY <1>6, <1>7

\* what is buffered is polled for, or will be flushed
SoonOk(d) == d.buf > 0 => d.want \/ d.flush
NowOk(d)  == d.buf > 0 => d.want

LEMMA FlushWantedStep ==
    ASSUME NEW d \in ConnType, NEW e, e = FlushWanted(d)
    PROVE  Output(d, e) /\ (SoonOk(d) => NowOk(e))
<1>1. CASE d.flush
  <2>1. e = Flush(d)
    BY <1>1 DEF FlushWanted
  <2>2. /\ Output(d, e)
        /\ e.buf > 0 => e.want /\ e.pause
        /\ e.buf = 0 => e.pause = d.pause
    BY <2>1, DrainStep
  <2>3. e.buf \in 0 .. FullSize + MaxFrame /\ e.buf \in Nat
    BY <2>2, Sizes DEF Output, ConnType
  <2>4. SoonOk(d) => NowOk(e)
    BY <2>2, <2>3 DEF Output, Link, SoonOk, NowOk
  <2> QED
    BY <2>2, <2>4
<1>2. CASE ~d.flush
  BY <1>2, FlagSteps DEF FlushWanted, SoonOk, NowOk
<1> QED
  BY <1>1, <1>2

LEMMA OutputWorked ==
    ASSUME NEW d, Good(d), NEW e, Output(d, e)
    PROVE  /\ Good(e) /\ Link(d, e) /\ e.win <= d.win
           /\ (Waiting(d) <=> Waiting(e)) /\ (NoneReady(d) <=> NoneReady(e))
<1>1. d.win \in 0 .. MaxWindow
  BY DEF Good, ConnType
<1>2. e.win <= d.win
  BY <1>1, Sizes DEF Output
<1>3. Good(e)
  BY OutputGood
<1>4. (Waiting(d) <=> Waiting(e)) /\ (NoneReady(d) <=> NoneReady(e))
  BY DEF Output, Waiting, NoneReady, In
<1> QED
  BY <1>2, <1>3, <1>4 DEF Output

LEMMA ProcessQueueStep ==
    ASSUME NEW d, Good(d), NEW r, r = ProcessQueue(d)
    PROVE  Worked(d, r) /\ (LinkOk(d) => NowOk(r.c))
<1>1. PICK a : a = TakeNext(TakeQueue(d, 0))
  OBVIOUS
<1>2. Worked(d, a)
  BY <1>1, TakeNextStep
<1>3. PICK f : f = a.c
  OBVIOUS
<1>4. PICK e : e = FlushWanted(f)
  OBVIOUS
<1>5. Good(f) /\ Link(d, f) /\ f.win <= d.win
  BY <1>2, <1>3 DEF Worked
<1>6. Output(f, e) /\ (SoonOk(f) => NowOk(e))
  BY <1>4, <1>5, FlushWantedStep DEF Good
<1>7. /\ Good(e) /\ Link(f, e) /\ e.win <= f.win
      /\ (Waiting(f) <=> Waiting(e)) /\ (NoneReady(f) <=> NoneReady(e))
  BY <1>5, <1>6, OutputWorked
<1>8. r = [a EXCEPT !.c = e]
  BY <1>1, <1>3, <1>4 DEF ProcessQueue, FlushQueue
<1>9. a \in ResultType
  <2>1. 0 \in Priorities /\ 1 \in Priorities
    BY DEF Priorities
  <2>2. PICK u : u = TakeQueue(d, 0)
    OBVIOUS
  <2>3. u \in ResultType /\ Good(u.c)
    BY <2>1, <2>2, TakeQueueStep DEF Goes
  <2>4. PICK w : w = u.c
    OBVIOUS
  <2>5. TakeQueue(w, 1) \in ResultType
    BY <2>1, <2>3, <2>4, TakeQueueStep DEF Goes
  <2> QED
    BY <1>1, <2>2, <2>3, <2>4, <2>5 DEF TakeNext
<1>10. r.c = e /\ r.n = a.n
  BY <1>8, <1>9 DEF ResultType
<1>11. Link(d, e)
  BY <1>5, <1>7, LinkTrans
<1>12. e.win <= d.win
  <2>1. f.win \in 0 .. MaxWindow /\ e.win \in 0 .. MaxWindow /\ d.win \in 0 .. MaxWindow
    BY <1>5, <1>7 DEF Good, ConnType
  <2> QED
    BY <1>5, <1>7, <2>1, Sizes
<1>13. Waiting(d) => Waiting(e)
  BY <1>2, <1>3, <1>7 DEF Worked
<1>14. ASSUME Waiting(d), Idle(r) PROVE NoneReady(e)
  <2>1. Idle(a)
    BY <1>3, <1>6, <1>7, <1>10, <1>14 DEF Idle, Output, Link
  <2> QED
    BY <1>2, <1>3, <1>7, <1>14, <2>1 DEF Worked
<1>15. LinkOk(d) => SoonOk(f)
  BY <1>5 DEF Link, LinkOk, SoonOk
<1>16. a.n \in Nat
  BY <1>2 DEF Worked
<1> QED
  BY <1>6, <1>7, <1>10, <1>11, <1>12, <1>13, <1>14, <1>15, <1>16 DEF Worked

-----------------------------------------------------------------------------
(***************************************************************************)
(* onWriteEx2(), onWriteEx().                                              *)
(***************************************************************************)

\* Nothing ready is left behind when the link is not polled.
Left(e) == e.win > 0 /\ ~e.want => NoneReady(e)

LEMMA OnWriteEx2Step ==
    ASSUME NEW d, Good(d), d.inEvent, NEW r, r = OnWriteEx2(d)
    PROVE  /\ Worked(d, r)
           /\ LinkOk(d) /\ ~d.pause => NowOk(r.c)
           /\ LinkOk(d) /\ Waiting(d) => Left(r.c)
<1>1. PICK e : e = IF d.buf = 0 THEN d
                   ELSE IF d.buf >= FlushSize THEN Flush(d) ELSE [d EXCEPT !.flush = TRUE]
  OBVIOUS
<1>2. d \in ConnType /\ d.buf \in 0 .. FullSize + MaxFrame
  BY DEF Good, ConnType
<1>3. Output(d, e)
  <2>1. WantFlush(d) = [d EXCEPT !.flush = TRUE]
    BY DEF WantFlush
  <2> QED
    BY <1>1, <1>2, <2>1, FlagSteps, DrainStep
<1>4. /\ Good(e) /\ Link(d, e) /\ e.win <= d.win
      /\ (Waiting(d) <=> Waiting(e)) /\ (NoneReady(d) <=> NoneReady(e))
  BY <1>3, OutputWorked
<1>5. e.win \in 0 .. MaxWindow /\ d.win \in 0 .. MaxWindow /\ e.buf \in 0 .. FullSize + MaxFrame
  BY <1>2, <1>4 DEF Good, ConnType
<1>6. LinkOk(d) => LinkOk(e)
  BY <1>4 DEF Link
<1>7. CASE d.buf >= FlushSize /\ e.buf # 0
  <2>1. r = [c |-> e, n |-> 1]
    BY <1>1, <1>7 DEF OnWriteEx2
  <2>2. r.c = e /\ r.n = 1
    BY <2>1
  <2>3. e = Flush(d)
    BY <1>1, <1>2, <1>7, Sizes
  <2>4. e.want
    BY <1>2, <1>5, <1>7, <2>3, DrainStep, Sizes
  <2>5. ~Idle(r)
    BY <2>2 DEF Idle
  <2> QED
    BY <1>4, <2>2, <2>4, <2>5 DEF Worked, NowOk, Left
<1>8. CASE ~(d.buf >= FlushSize /\ e.buf # 0) /\ e.pause
  <2>1. PICK f : f = IF e.win > 0 THEN ContinueWrite(e) ELSE e
    OBVIOUS
  <2>2. r = [c |-> f, n |-> 1]
    BY <1>1, <1>8, <2>1 DEF OnWriteEx2
  <2>3. r.c = f /\ r.n = 1
    BY <2>2
  <2>4. Output(e, f) /\ (e.win > 0 => f.want)
    BY <1>4, <2>1, FlagSteps DEF Good
  <2>5. /\ Good(f) /\ Link(e, f) /\ f.win <= e.win
        /\ (Waiting(e) <=> Waiting(f)) /\ (NoneReady(e) <=> NoneReady(f))
    BY <1>4, <2>4, OutputWorked
  <2>6. Link(d, f)
    BY <1>4, <2>5, LinkTrans
  <2>7. f.win <= d.win /\ f.win = e.win
    BY <1>4, <1>5, <2>4 DEF Output
  <2>8. ~Idle(r)
    BY <2>3 DEF Idle
  <2>9. d.pause
    <3>1. CASE d.buf >= FlushSize
      <4>1. e = Flush(d) /\ e.buf = 0
        BY <1>1, <1>2, <1>8, <3>1, Sizes
      <4> QED
        BY <1>2, <1>8, <4>1, DrainStep
    <3>2. CASE ~(d.buf >= FlushSize)
      <4>1. e = d \/ e = [d EXCEPT !.flush = TRUE]
        BY <1>1, <3>2
      <4> QED
        BY <1>2, <1>8, <4>1 DEF ConnType
    <3> QED
      BY <3>1, <3>2
  <2>10. Left(f)
    BY <2>4, <2>7 DEF Left
  <2> QED
    BY <1>4, <2>3, <2>5, <2>6, <2>7, <2>8, <2>9, <2>10 DEF Worked
<1>9. CASE ~(d.buf >= FlushSize /\ e.buf # 0) /\ ~e.pause
  <2>1. PICK a : a = ProcessQueue(e)
    OBVIOUS
  <2>2. Worked(e, a) /\ (LinkOk(e) => NowOk(a.c))
    BY <1>4, <2>1, ProcessQueueStep
  <2>3. PICK g : g = a.c
    OBVIOUS
  <2>4. PICK f : f = IF a.n > 0 /\ g.win > 0 THEN ContinueWrite(g) ELSE g
    OBVIOUS
  <2>5. r = [c |-> f, n |-> a.n]
    BY <1>1, <1>9, <2>1, <2>3, <2>4 DEF OnWriteEx2, AfterQueue
  <2>6. r.c = f /\ r.n = a.n
    BY <2>5
  <2>7. Good(g) /\ Link(e, g) /\ g.win <= e.win /\ a.n \in Nat
    BY <2>2, <2>3 DEF Worked
  <2>8. Output(g, f) /\ (a.n > 0 /\ g.win > 0 => f.want)
    BY <2>4, <2>7, FlagSteps DEF Good
  <2>9. /\ Good(f) /\ Link(g, f) /\ f.win <= g.win
        /\ (Waiting(g) <=> Waiting(f)) /\ (NoneReady(g) <=> NoneReady(f))
    BY <2>7, <2>8, OutputWorked
  <2>10. Link(d, f)
    BY <1>4, <2>7, <2>9, LinkTrans
  <2>11. f.win <= d.win /\ f.win = g.win /\ f.win \in 0 .. MaxWindow
    <3>1. g.win \in 0 .. MaxWindow /\ f.win \in 0 .. MaxWindow
      BY <2>7, <2>9 DEF Good, ConnType
    <3>2. f.win = g.win
      BY <2>8 DEF Output
    <3> QED
      BY <1>4, <1>5, <2>7, <3>1, <3>2, Sizes
  <2>12. Waiting(d) => Waiting(f)
    BY <1>4, <2>2, <2>3, <2>9 DEF Worked
  <2>13. ASSUME Waiting(d), Idle(r) PROVE NoneReady(f)
    <3>1. Idle(a)
      BY <2>3, <2>6, <2>9, <2>11, <2>13 DEF Idle, Link
    <3> QED
      BY <1>4, <2>2, <2>3, <2>9, <2>13, <3>1 DEF Worked
  <2>14. LinkOk(d) => NowOk(f)
    <3>1. f.buf = g.buf /\ (g.want => f.want) /\ f.pause = g.pause
      <4>1. ContinueWrite(g).buf = g.buf /\ ContinueWrite(g).pause = g.pause
        BY <2>7 DEF ContinueWrite, Good, ConnType
      <4> QED
        BY <2>4, <2>9, <4>1 DEF Link
    <3> QED
      BY <1>6, <2>2, <2>3, <3>1 DEF NowOk
  <2>15. ASSUME LinkOk(d), Waiting(d), f.win > 0, ~f.want PROVE NoneReady(f)
    <3>1. a.n = 0
      BY <2>7, <2>8, <2>11, <2>15
    <3>2. ~f.pause
      <4>1. Link(e, f)
        BY <2>7, <2>9, LinkTrans
      <4> QED
        BY <1>9, <2>15, <4>1 DEF Link
    <3>3. Idle(r)
      BY <2>6, <2>15, <3>1, <3>2 DEF Idle
    <3> QED
      BY <2>13, <2>15, <3>3
  <2> QED
    BY <2>6, <2>7, <2>9, <2>10, <2>11, <2>12, <2>13, <2>14, <2>15 DEF Worked, Left
<1> QED
  BY <1>7, <1>8, <1>9

\* as above, but perhaps for a link that is left paused
Still(e) == e.win > 0 /\ ~e.want => NoneReady(e) \/ e.pause

\* what holds of the connection between events, of wakeups
Awaits(e) == NowOk(e) /\ Waiting(e) /\ Still(e)

\* a state with other flags
Flags(d, e) ==
    /\ e \in ConnType
    /\ e.s = d.s /\ e.que = d.que /\ e.win = d.win /\ e.init = d.init
    /\ e.total = d.total /\ e.passed = d.passed /\ e.granted = d.granted /\ e.over = d.over

LEMMA FlagsGood ==
    ASSUME NEW d, NEW e, Flags(d, e)
    PROVE  /\ Good(d) => Good(e)
           /\ Waiting(d) <=> Waiting(e)
           /\ NoneReady(d) <=> NoneReady(e)
<1>1. Good(d) => Good(e)
  BY DEF Flags, Good, Fits, Clean
<1>2. (Waiting(d) <=> Waiting(e)) /\ (NoneReady(d) <=> NoneReady(e))
  BY DEF Flags, Waiting, NoneReady, In
<1> QED
  BY <1>1, <1>2

LEMMA OnWriteExStep ==
    ASSUME NEW d, Good(d), NEW e, e = OnWriteEx(d)
    PROVE  /\ Good(e) /\ e.inEvent = FALSE /\ e.open = d.open
           /\ d.want /\ Waiting(d) => Awaits(e)
<1>1. PICK f : f = [d EXCEPT !.pause = FALSE, !.inEvent = TRUE]
  OBVIOUS
<1>2. /\ f \in ConnType /\ f.pause = FALSE /\ f.inEvent = TRUE /\ f.want = d.want /\ f.late = d.late
      /\ f.open = d.open /\ f.s = d.s /\ f.que = d.que /\ f.win = d.win /\ f.init = d.init
      /\ f.total = d.total /\ f.passed = d.passed /\ f.granted = d.granted /\ f.over = d.over
  BY <1>1 DEF Good, ConnType
<1>3. Good(f) /\ (Waiting(d) <=> Waiting(f))
  <2>1. Flags(d, f)
    BY <1>2 DEF Flags
  <2> QED
    BY <2>1, FlagsGood
<1>4. PICK r : r = OnWriteEx2(f)
  OBVIOUS
<1>5. /\ Worked(f, r)
      /\ LinkOk(f) /\ ~f.pause => NowOk(r.c)
      /\ LinkOk(f) /\ Waiting(f) => Left(r.c)
  BY <1>2, <1>3, <1>4, OnWriteEx2Step
<1>6. PICK g : g = r.c
  OBVIOUS
<1>7. PICK w \in BOOLEAN : w = (g.want /\ ~((r.n = 0 \/ g.win <= 0) /\ g.buf = 0))
  OBVIOUS
<1>8. g \in ConnType /\ Good(g) /\ Link(f, g) /\ r.n \in Nat
  BY <1>5, <1>6 DEF Worked, Good
<1>9. e = [g EXCEPT !.inEvent = FALSE, !.want = w]
  BY <1>1, <1>4, <1>6, <1>7, <1>8 DEF OnWriteEx, SuspendWrite, ConnType
<1>10. /\ e \in ConnType /\ e.inEvent = FALSE /\ e.want = w /\ e.pause = g.pause /\ e.buf = g.buf
       /\ e.open = g.open /\ e.s = g.s /\ e.que = g.que /\ e.win = g.win /\ e.init = g.init
       /\ e.total = g.total /\ e.passed = g.passed /\ e.granted = g.granted /\ e.over = g.over
  BY <1>8, <1>9 DEF ConnType
<1>11. Flags(g, e)
  BY <1>10 DEF Flags
<1>12. Good(e) /\ e.open = d.open
  BY <1>2, <1>8, <1>10, <1>11, FlagsGood DEF Link
<1>13. ASSUME d.want, Waiting(d) PROVE Awaits(e)
  <2>1. LinkOk(f)
    BY <1>2, <1>13 DEF LinkOk
  <2>2. NowOk(g) /\ Left(g) /\ Waiting(g) /\ (Idle(r) => NoneReady(g))
    BY <1>2, <1>3, <1>5, <1>6, <1>13, <2>1 DEF Worked
  <2>3. g.buf \in Nat /\ g.win \in 0 .. MaxWindow
    BY <1>8, BufNat DEF ConnType
  <2>5. NowOk(e)
    <3>1. g.buf # 0 => (g.want <=> w)
      BY <1>7
    <3> QED
      BY <1>10, <2>2, <2>3, <3>1 DEF NowOk
  <2>6. Waiting(e) /\ (NoneReady(g) <=> NoneReady(e))
    BY <1>11, <2>2, FlagsGood
  <2>7. ASSUME e.win > 0, ~e.want PROVE NoneReady(g) \/ e.pause
    <3>1. CASE ~g.want
      BY <1>10, <2>2, <2>7, <3>1 DEF Left
    <3>2. CASE g.want
      <4>1. (r.n = 0 \/ g.win <= 0) /\ g.buf = 0
        BY <1>7, <1>10, <2>7, <3>2
      <4>2. ~(g.win <= 0)
        BY <1>10, <2>3, <2>7, Sizes
      <4>3. ~g.pause => Idle(r)
        BY <1>6, <1>10, <2>7, <4>1, <4>2 DEF Idle
      <4> QED
        BY <1>10, <2>2, <4>1, <4>3
    <3> QED
      BY <3>1, <3>2
  <2> QED
    BY <2>5, <2>6, <2>7 DEF Awaits, Still
<1> QED
  BY <1>10, <1>12, <1>13

-----------------------------------------------------------------------------
(***************************************************************************)
(* processPendingStreams() and the end of onReadEx().                      *)
(***************************************************************************)

PendType == [c : ConnType, stop : BOOLEAN]

Pended(d, r) ==
    /\ r \in PendType /\ Good(r.c) /\ Link(d, r.c)
    /\ Waiting(d) => Waiting(r.c)

LEMMA PendResult ==
    ASSUME NEW d, NEW f, Good(f), Link(d, f), Waiting(d) => Waiting(f), NEW b \in BOOLEAN,
           NEW r, r = [c |-> f, stop |-> b]
    PROVE  Pended(d, r)
<1>1. r \in PendType /\ r.c = f
  BY DEF PendType, Good
<1> QED
  BY <1>1 DEF Pended

LEMMA PendingOneStep ==
    ASSUME NEW d, Good(d), NEW p \in Priorities, d.que[p] # <<>>, NEW r, r = PendingOne(d, p)
    PROVE  Pended(d, r)
<1>1. PICK s : s = Head(d.que[p])
  OBVIOUS
<1>2. PICK e : e = [d EXCEPT !.que[p] = Tail(@)]
  OBVIOUS
<1>3. Fronted(d, e, s, p)
  BY <1>1, <1>2, FrontStep
<1>4. /\ Good(e) /\ Link(d, e) /\ Moves(d, e) /\ s \in Streams
      /\ d.s[s].state \in LiveStates /\ d.s[s].pri = p
  BY <1>3 DEF Fronted
<1>5. e.s = d.s /\ e \in ConnType
  BY <1>4 DEF Moves
<1>6. PICK f : f = IF e.s[s].state = "init" THEN AssignStreamHandler(e, s)
                   ELSE [e EXCEPT !.que[e.s[s].pri] = <<s>> \o @]
  OBVIOUS
<1>7. r = IF e.s[s].state = "shutdown" THEN [c |-> RecycleStream(e, s), stop |-> FALSE]
          ELSE [c |-> f, stop |-> IsOutBufFull(f)]
  BY <1>1, <1>2, <1>6 DEF PendingOne
\* the other streams stay where they are
<1>8. ASSUME NEW g, Turned(e, g, s), Eager(d.s[s]) /\ Ready(g.s[s]) => In(g, s)
      PROVE  Good(g) /\ Link(d, g) /\ (Waiting(d) => Waiting(g))
  <2>1. Good(g) /\ Touches(e, g, s) /\ (Eager(d.s[s]) => Eager(g.s[s]))
    BY <1>5, <1>8 DEF Turned
  <2>2. Link(d, g)
    <3>1. Link(e, g)
      BY <2>1 DEF Touches
    <3> QED
      BY <1>4, <3>1, LinkTrans
  <2>3. ASSUME Waiting(d), NEW t \in Streams PROVE Eager(g.s[t]) /\ (Ready(g.s[t]) => In(g, t))
    <3>1. CASE t = s
      BY <1>8, <2>1, <2>3, <3>1 DEF Waiting
    <3>2. CASE t # s
      <4>1. g.s[t] = d.s[t] /\ \A o \in Priorities : Has(g.que[o], t) <=> Has(e.que[o], t)
        BY <1>5, <2>1, <3>2 DEF Touches
      <4>2. \A o \in Priorities : Has(e.que[o], t) <=> Has(d.que[o], t)
        BY <1>3, <3>2 DEF Fronted
      <4> QED
        BY <2>3, <4>1, <4>2 DEF Waiting, In
    <3> QED
      BY <3>1, <3>2
  <2> QED
    BY <2>1, <2>2, <2>3 DEF Waiting
<1>9. CASE e.s[s].state = "shutdown"
  <2>1. PICK g : g = RecycleStream(e, s)
    OBVIOUS
  <2>2. Turned(e, g, s) /\ g.s[s].state = "gone"
    BY <1>4, <2>1, RecycleStep
  <2>3. ~Ready(g.s[s])
    BY <2>2 DEF Ready
  <2>4. Good(g) /\ Link(d, g) /\ (Waiting(d) => Waiting(g))
    BY <1>8, <2>2, <2>3
  <2>5. r = [c |-> g, stop |-> FALSE]
    BY <1>7, <1>9, <2>1
  <2> QED
    BY <2>4, <2>5, PendResult
<1>10. CASE e.s[s].state = "init"
  <2>1. f = AssignStreamHandler(e, s)
    BY <1>6, <1>10
  <2>2. Turned(e, f, s) /\ f.s[s].state \in LiveStates \ {"init"}
        /\ (Eager(e.s[s]) /\ Ready(f.s[s]) => In(f, s))
    BY <1>4, <1>10, <2>1, AssignStep
  <2>3. Eager(d.s[s]) /\ Ready(f.s[s]) => In(f, s)
    BY <1>5, <2>2
  <2>4. Good(f) /\ Link(d, f) /\ (Waiting(d) => Waiting(f))
    BY <1>8, <2>2, <2>3
  <2>5. PICK b \in BOOLEAN : b = IsOutBufFull(f)
    BY DEF IsOutBufFull
  <2>6. r = [c |-> f, stop |-> b]
    BY <1>7, <1>10, <2>5
  <2> QED
    BY <2>4, <2>6, PendResult
<1>11. CASE e.s[s].state \notin {"shutdown", "init"}
  <2>1. PICK q : q = <<s>> \o e.que[p]
    OBVIOUS
  <2>2. e.que[p] \in Seq(Streams)
    BY <1>5, QueueTypes
  <2>3. /\ q \in Seq(Streams) /\ (\A y : Has(q, y) <=> Has(e.que[p], y) \/ y = s)
        /\ Once(e.que[p]) /\ ~Has(e.que[p], s) => Once(q)
    BY <1>4, <2>1, <2>2, ConsHas
  <2>4. f = [e EXCEPT !.que[p] = q]
    BY <1>4, <1>5, <1>6, <1>11, <2>1
  <2>5. NewQueue(e, f, p, q)
    BY <1>5, <2>3, <2>4, SetQueue
  <2>6. Moves(e, f) /\ f.que[p] = q /\ \A o \in Priorities : o # p => f.que[o] = e.que[o]
    BY <2>5 DEF NewQueue
  <2>7. Link(e, f) /\ Fits(f) /\ f \in ConnType /\ f.s = d.s
    BY <1>4, <1>5, <2>6, MovesLink DEF Moves, Good
  <2>8. \A o \in Priorities : Once(f.que[o])
    <3>1. ~Has(e.que[p], s)
      BY <1>3 DEF Fronted
    <3> QED
      BY <1>4, <2>3, <2>6, <3>1 DEF Good, Clean
  <2>9. ASSUME NEW o \in Priorities, NEW t \in Streams
        PROVE  Has(f.que[o], t) => Has(e.que[o], t) \/ (t = s /\ o = p)
    BY <2>3, <2>6
  <2>10. Clean(f)
    <3> SUFFICES ASSUME NEW o \in Priorities, NEW t \in Streams, Has(f.que[o], t)
                 PROVE  f.s[t].state \in LiveStates /\ f.s[t].pri = o
      BY <2>8 DEF Clean
    <3>1. CASE Has(e.que[o], t)
      BY <1>4, <1>5, <2>7, <3>1 DEF Good, Clean
    <3>2. CASE t = s /\ o = p
      BY <1>4, <2>7, <3>2
    <3> QED
      BY <2>9, <3>1, <3>2
  <2>11. Good(f)
    BY <2>7, <2>10 DEF Good
  <2>12. Link(d, f)
    BY <1>4, <2>7, LinkTrans
  <2>13. ASSUME NEW t \in Streams, In(d, t) PROVE In(f, t)
    <3>1. CASE t = s
      BY <2>3, <2>6, <3>1 DEF In
    <3>2. CASE t # s
      <4>1. PICK o \in Priorities : Has(d.que[o], t)
        BY <2>13 DEF In
      <4>2. Has(e.que[o], t)
        BY <1>3, <3>2, <4>1 DEF Fronted
      <4>3. Has(f.que[o], t)
        BY <2>3, <2>6, <4>2
      <4> QED
        BY <4>3 DEF In
    <3> QED
      BY <3>1, <3>2
  <2>14. Waiting(d) => Waiting(f)
    BY <2>7, <2>13 DEF Waiting
  <2>15. PICK b \in BOOLEAN : b = IsOutBufFull(f)
    BY DEF IsOutBufFull
  <2>16. r = [c |-> f, stop |-> b]
    BY <1>7, <1>11, <2>15
  <2> QED
    BY <2>11, <2>12, <2>14, <2>16, PendResult
<1> QED
  BY <1>9, <1>10, <1>11

LEMMA PendedTrans ==
    ASSUME NEW d, NEW e, NEW f, Pended(d, e), Pended(e.c, f)
    PROVE  Pended(d, f)
  BY LinkTrans DEF Pended

LEMMA PendingQueueStep ==
    ASSUME NEW d, NEW p \in Priorities, NEW b, Pended(d, b)
    PROVE  Pended(d, PendingQueue(b, p))
<1> DEFINE N == NumStreams
           Step(r) == IF r.stop \/ r.c.win <= 0 \/ r.c.que[p] = <<>> THEN r
                      ELSE PendingOne(r.c, p)
           run[k \in 0..NumStreams] ==
               IF k = 0 THEN b
               ELSE LET r == run[k - 1]
                    IN  IF r.stop \/ r.c.win <= 0 \/ r.c.que[p] = <<>> THEN r
                        ELSE PendingOne(r.c, p)
           S == {r \in PendType : Pended(d, r)}
           T == [k \in 0 .. N |-> S]
           g == [k \in 0 .. N - 1 |-> [r \in S |-> Step(r)]]
<1>1. N \in Nat
  BY Sizes
<1>2. ASSUME NEW r \in S PROVE Step(r) \in S
  <2>1. Pended(d, r) /\ Good(r.c)
    BY DEF Pended
  <2>2. CASE r.stop \/ r.c.win <= 0 \/ r.c.que[p] = <<>>
    BY <2>2
  <2>3. CASE ~(r.stop \/ r.c.win <= 0 \/ r.c.que[p] = <<>>)
    <3>1. PICK f : f = r.c
      OBVIOUS
    <3>2. PICK e : e = PendingOne(f, p)
      OBVIOUS
    <3>3. Pended(f, e)
      BY <2>1, <2>3, <3>1, <3>2, PendingOneStep
    <3>4. Pended(d, e) /\ e \in PendType
      BY <2>1, <3>1, <3>3, PendedTrans DEF Pended
    <3> QED
      BY <2>3, <3>1, <3>2, <3>4
  <2> QED
    BY <2>2, <2>3
<1>3. b \in S
  BY DEF Pended
<1> HIDE DEF S, N, run, Step
<1>5. /\ \A i \in 0 .. N : T[i] = S
      /\ \A i \in 0 .. N - 1 : i \in 0 .. N /\ i + 1 \in 0 .. N
      /\ 0 \in 0 .. N
  BY <1>1
<1>6. \A i \in 0 .. N - 1 : \A r \in S : g[i][r] = Step(r)
  OBVIOUS
<1> HIDE DEF T, g
<1>7. Leads(N, T, g)
  <2> SUFFICES ASSUME NEW i \in 0 .. N - 1, NEW r \in T[i] PROVE g[i][r] \in T[i + 1]
    BY DEF Leads
  <2> QED
    BY <1>2, <1>5, <1>6
<1>8. PICK w : Walk(N, T, g, b, w)
  BY <1>1, <1>3, <1>5, <1>7, WalkExists
<1>9. w = [k \in 0 .. N |-> IF k = 0 THEN b ELSE Step(w[k - 1])]
  <2>1. ASSUME NEW i \in 0 .. N, i # 0 PROVE w[i] = Step(w[i - 1])
    <3>1. i - 1 \in 0 .. N - 1 /\ i - 1 \in 0 .. N /\ (i - 1) + 1 = i
      BY <1>1, <2>1
    <3>2. w[i - 1] \in S /\ w[(i - 1) + 1] = g[i - 1][w[i - 1]]
      BY <1>5, <1>8, <3>1 DEF Walk
    <3> QED
      BY <1>6, <3>1, <3>2
  <2> QED
    BY <1>8, <2>1 DEF Walk
<1>10. run = [k \in 0 .. N |-> IF k = 0 THEN b ELSE Step(run[k - 1])]
  BY <1>9 DEF run, N, Step
<1> DEFINE P == {i \in Nat : i <= N => run[i] \in S}
<1>11. \A i \in Nat : i \in P
  <2>1. 0 \in P
    BY <1>1, <1>3, <1>5, <1>10
  <2>2. ASSUME NEW i \in Nat, i \in P PROVE i + 1 \in P
    <3> SUFFICES ASSUME i + 1 <= N PROVE run[i + 1] \in S
      OBVIOUS
    <3>1. i \in 0 .. N - 1 /\ run[i] \in S /\ (i + 1) - 1 = i /\ i + 1 \in 0 .. N /\ i + 1 # 0
      BY <1>1, <2>2
    <3>2. run[i + 1] = Step(run[i])
      BY <1>10, <3>1
    <3> QED
      BY <1>2, <3>1, <3>2
  <2> HIDE DEF P
  <2> QED
    BY <2>1, <2>2, NatInSet
<1>12. PICK m : m = Len(b.c.que[p])
  OBVIOUS
<1>13. m \in 0 .. N
  <2>1. Once(b.c.que[p]) /\ b.c.que[p] \in Seq(Streams)
    BY QueueTypes DEF Pended, Good, Clean
  <2> QED
    BY <1>12, <2>1, QueueLength DEF N
<1>14. run[m] \in S
  BY <1>1, <1>11, <1>13
<1>15. PendingQueue(b, p) = run[m]
  BY <1>12 DEF PendingQueue, run, N
<1> QED
  BY <1>14, <1>15 DEF S

LEMMA PendingStep ==
    ASSUME NEW d, Good(d), NEW e, e = ProcessPendingStreams(d)
    PROVE  Good(e) /\ Link(d, e) /\ (Waiting(d) => Waiting(e))
<1>0. 0 \in Priorities /\ 1 \in Priorities /\ d \in ConnType
  BY DEF Priorities, Good
<1>1. PICK a : a = [c |-> d, stop |-> FALSE]
  OBVIOUS
<1>2. Pended(d, a)
  <2>1. Link(d, d)
    BY <1>0, FlagSteps DEF Output
  <2> QED
    BY <1>1, <2>1, PendResult
<1>3. PICK b : b = PendingQueue(a, 0)
  OBVIOUS
<1>4. Pended(d, b)
  BY <1>0, <1>2, <1>3, PendingQueueStep
<1>5. PICK r : r = PendingQueue(b, 1)
  OBVIOUS
<1>6. Pended(d, r)
  BY <1>0, <1>4, <1>5, PendingQueueStep
<1>7. PICK f : f = r.c
  OBVIOUS
<1>8. e = FlushWanted(f)
  BY <1>1, <1>3, <1>5, <1>7 DEF ProcessPendingStreams
<1>9. Good(f) /\ Link(d, f) /\ (Waiting(d) => Waiting(f))
  BY <1>6, <1>7 DEF Pended
<1>10. Output(f, e)
  BY <1>8, <1>9, FlushWantedStep DEF Good
<1>11. Good(e) /\ Link(f, e) /\ (Waiting(f) <=> Waiting(e))
  BY <1>9, <1>10, OutputWorked
<1> QED
  BY <1>9, <1>11, LinkTrans

\* what a frame leaves for the end of the read event
ReadOk(d) ==
    /\ LinkOk(d) /\ Waiting(d)
    /\ d.win > 0 /\ ~d.want /\ ~d.wait => NoneReady(d) \/ d.pause

LEMMA AfterReadStep ==
    ASSUME NEW d, Good(d), d.inEvent, NEW e, e = AfterRead(d)
    PROVE  /\ Good(e) /\ e.inEvent = FALSE /\ e.open = d.open
           /\ ReadOk(d) => Awaits(e)
<1>0. d \in ConnType /\ d.win \in 0 .. MaxWindow
  BY DEF Good, ConnType
<1>1. PICK f : f = StartPending(d)
  OBVIOUS
<1>2. Good(f) /\ Link(d, f) /\ (ReadOk(d) => ReadOk(f))
  <2>1. CASE d.pause /\ d.pending
    <3>1. f = ProcessPendingStreams(d)
      BY <1>1, <2>1 DEF StartPending
    <3>2. Good(f) /\ Link(d, f) /\ (Waiting(d) => Waiting(f))
      BY <3>1, PendingStep
    <3>3. f.pause
      BY <2>1, <3>2 DEF Link
    <3> QED
      BY <3>2, <3>3 DEF ReadOk, Link
  <2>2. CASE ~(d.pause /\ d.pending)
    <3>1. f = d
      BY <1>1, <2>2 DEF StartPending
    <3> QED
      BY <1>0, <3>1, FlagSteps DEF Output
  <2> QED
    BY <2>1, <2>2
<1>3. PICK g : g = WriteWaiting(f)
  OBVIOUS
<1>4. Good(g) /\ Link(f, g) /\ (ReadOk(f) => LinkOk(g) /\ Waiting(g) /\ Still(g))
  <2>1. CASE f.wait
    <3>1. PICK r : r = OnWriteEx2(f)
      OBVIOUS
    <3>2. f.inEvent
      BY <1>2 DEF Link
    <3>3. Worked(f, r) /\ (LinkOk(f) /\ Waiting(f) => Left(r.c))
      BY <1>2, <3>1, <3>2, OnWriteEx2Step
    <3>4. g = r.c
      BY <1>3, <2>1, <3>1 DEF WriteWaiting
    <3> QED
      BY <3>3, <3>4 DEF Worked, ReadOk, Link, Left, Still
  <2>2. CASE ~f.wait
    <3>1. g = f
      BY <1>3, <2>2 DEF WriteWaiting
    <3>2. Link(f, f)
      BY <1>2, FlagSteps DEF Output, Good
    <3> QED
      BY <1>2, <2>2, <3>1, <3>2 DEF ReadOk, Still
  <2> QED
    BY <2>1, <2>2
<1>5. PICK h : h = [g EXCEPT !.inEvent = FALSE]
  OBVIOUS
<1>6. /\ h \in ConnType /\ h.inEvent = FALSE /\ h.want = g.want /\ h.pause = g.pause /\ h.buf = g.buf
      /\ h.flush = g.flush
      /\ h.open = g.open /\ h.s = g.s /\ h.que = g.que /\ h.win = g.win /\ h.init = g.init
      /\ h.total = g.total /\ h.passed = g.passed /\ h.granted = g.granted /\ h.over = g.over
  BY <1>4, <1>5 DEF Good, ConnType
<1>7. Flags(g, h)
  BY <1>6 DEF Flags
<1>8. Good(h) /\ (Waiting(g) <=> Waiting(h)) /\ (NoneReady(g) <=> NoneReady(h))
  BY <1>4, <1>7, FlagsGood
<1>9. e = FlushWanted(h)
  BY <1>1, <1>3, <1>5 DEF AfterRead
<1>10. Output(h, e) /\ (SoonOk(h) => NowOk(e))
  BY <1>6, <1>9, FlushWantedStep
<1>11. /\ Good(e) /\ Link(h, e)
       /\ (Waiting(h) <=> Waiting(e)) /\ (NoneReady(h) <=> NoneReady(e))
  BY <1>8, <1>10, OutputWorked
<1>12. e.inEvent = FALSE /\ e.open = d.open
  BY <1>2, <1>4, <1>6, <1>11 DEF Link
<1>13. ASSUME ReadOk(d) PROVE Awaits(e)
  <2>1. LinkOk(g) /\ Waiting(g) /\ Still(g)
    BY <1>2, <1>4, <1>13
  <2>2. SoonOk(h)
    BY <1>6, <2>1 DEF LinkOk, SoonOk
  <2>3. e.win = g.win /\ (g.want => e.want) /\ (g.pause => e.pause)
    BY <1>6, <1>10, <1>11 DEF Output, Link
  <2>4. Still(e)
    BY <1>8, <1>11, <2>1, <2>3 DEF Still
  <2> QED
    BY <1>8, <1>10, <1>11, <2>1, <2>2, <2>4 DEF Awaits
<1> QED
  BY <1>11, <1>12, <1>13

-----------------------------------------------------------------------------
(***************************************************************************)
(* Frames of the client.  Each starts from a connection that is Good and   *)
(* ReadOk, and leaves one that is.                                         *)
(***************************************************************************)

\* A step for stream s keeps the rest, if s itself is queued when it is ready and somebody
\* will look at it.
LEMMA TouchReadOk ==
    ASSUME NEW d, NEW e, NEW s \in Streams, Good(d), Touches(d, e, s), e.win = d.win,
           ReadOk(d), d.inEvent, Eager(e.s[s]),
           Ready(e.s[s]) => In(e, s) /\ (e.wait \/ e.want \/ Ready(d.s[s]))
    PROVE  ReadOk(e)
<1>1. LinkOk(e) /\ (d.want => e.want) /\ (d.wait => e.wait) /\ (d.pause => e.pause)
  BY DEF ReadOk, Touches, Link
<1>2. ASSUME NEW t \in Streams PROVE Eager(e.s[t]) /\ (Ready(e.s[t]) => In(e, t))
  <2>1. CASE t # s
    BY <2>1 DEF ReadOk, Waiting, Touches, In
  <2> QED
    BY <2>1
<1>3. Waiting(e)
  BY <1>2 DEF Waiting
<1>4. ASSUME e.win > 0, ~e.want, ~e.wait, ~e.pause PROVE NoneReady(e)
  <2>1. NoneReady(d)
    BY <1>1, <1>4 DEF ReadOk
  <2>2. ~Ready(e.s[s])
    BY <1>4, <2>1 DEF NoneReady
  <2>3. \A t \in Streams : t # s => e.s[t] = d.s[t]
    BY DEF Touches
  <2> QED
    BY <2>1, <2>2, <2>3 DEF NoneReady
<1> QED
  BY <1>1, <1>3, <1>4 DEF ReadOk

\* RST_STREAM
LEMMA RstFrame ==
    ASSUME NEW d, Good(d), d.inEvent, NEW s \in Streams, NEW e, e = RecycleStream(d, s)
    PROVE  Good(e) /\ e.inEvent /\ e.open = d.open /\ (ReadOk(d) => ReadOk(e))
<1>1. Turned(d, e, s) /\ e.win = d.win /\ e.s[s].state = "gone"
  BY RecycleStep
<1>2. Eager(e.s[s]) /\ ~Ready(e.s[s])
  BY <1>1 DEF Eager, Ready
<1>3. Touches(d, e, s) /\ Good(e)
  BY <1>1 DEF Turned
<1> QED
  BY <1>1, <1>2, <1>3, TouchReadOk DEF Touches, Link

\* PRIORITY
LEMMA PriorityFrame ==
    ASSUME NEW d, Good(d), d.inEvent, NEW s \in Streams, NEW pri \in Priorities,
           d.s[s].state \in LiveStates, NEW e, e = ProcessPriority(d, s, pri)
    PROVE  Good(e) /\ e.inEvent /\ e.open = d.open /\ (ReadOk(d) => ReadOk(e))
<1>1. d \in ConnType /\ Fits(d) /\ Clean(d)
  BY DEF Good
<1>2. PICK x \in StreamType : x = d.s[s]
  BY <1>1, QueueTypes
<1>3. PICK y : y = [x EXCEPT !.pri = pri]
  OBVIOUS
<1>4. /\ y \in StreamType /\ y.state = x.state /\ y.pri = pri /\ y.win = x.win
      /\ y.ready = x.ready /\ y.toCome = x.toCome /\ y.want = x.want /\ y.pause = x.pause
      /\ y.sent = x.sent /\ y.granted = x.granted
  BY <1>3 DEF StreamType
<1>5. PICK f : f = [d EXCEPT !.s[s] = y]
  OBVIOUS
<1>6. [d EXCEPT !.s[s].pri = pri] = f
  BY <1>1, <1>2, <1>3, <1>5 DEF ConnType, StreamType
<1>7. Sets(d, f, s, y)
  BY <1>1, <1>4, <1>5, SetStream
<1>8. StreamFits(d.init, d.over, y)
  BY <1>1, <1>2, <1>4 DEF Fits, StreamFits
<1>9. Fits(f) /\ CleanBut(f, s) /\ Touches(d, f, s)
  BY <1>1, <1>7, <1>8, SetsGood, SetsTouches
<1>10. f \in ConnType /\ f.s[s] = y /\ f.win = d.win /\ f.que = d.que /\ f.inEvent = d.inEvent
  BY <1>7 DEF Sets
<1>11. (Ready(y) <=> Ready(x)) /\ (Eager(y) <=> Eager(x))
  BY <1>4 DEF Ready, Eager
<1>12. CASE Queued(d, s)
  <2>1. e = Add2PriorityQue(f, s)
    BY <1>6, <1>12 DEF ProcessPriority
  <2>2. Places(f, e, s) /\ \A p \in Priorities : Has(e.que[p], s) <=> p = f.s[s].pri
    BY <1>10, <2>1, AddStep
  <2>3. Clean(e)
    BY <1>2, <1>4, <1>9, <1>10, <2>1, AddClean
  <2>4. Fits(e) /\ Touches(f, e, s) /\ e.s = f.s /\ e.win = f.win /\ e \in ConnType
    BY <1>9, <2>2, PlacesFits DEF Places, Touches
  <2>5. Touches(d, e, s)
    BY <1>1, <1>9, <2>4, TouchesTrans
  <2>6. In(e, s)
    BY <1>4, <1>10, <2>2 DEF In
  <2>7. ReadOk(d) => Eager(e.s[s])
    BY <1>2, <1>10, <1>11, <2>4 DEF ReadOk, Waiting
  <2>8. Ready(e.s[s]) => Ready(d.s[s])
    BY <1>2, <1>10, <1>11, <2>4
  <2>9. ReadOk(d) => ReadOk(e)
    BY <1>10, <2>4, <2>5, <2>6, <2>7, <2>8, TouchReadOk
  <2> QED
    BY <2>3, <2>4, <2>5, <2>9 DEF Good, Touches, Link
<1>13. CASE ~Queued(d, s)
  <2>1. e = f
    BY <1>6, <1>13 DEF ProcessPriority
  <2>2. \A p \in Priorities : ~Has(f.que[p], s)
    BY <1>10, <1>13 DEF Queued, Has
  <2>3. Clean(f)
    BY <1>9, <2>2 DEF Clean, CleanBut
  <2>4. ReadOk(d) => Eager(f.s[s]) /\ ~Ready(f.s[s])
    BY <1>2, <1>10, <1>11, <1>13, InQueued DEF ReadOk, Waiting
  <2>5. ReadOk(d) => ReadOk(f)
    BY <1>9, <1>10, <2>4, TouchReadOk
  <2> QED
    BY <1>9, <1>10, <2>1, <2>3, <2>5 DEF Good, Touches, Link
<1> QED
  BY <1>12, <1>13

LEMMA FlagsReadOk ==
    ASSUME NEW d, NEW e, Flags(d, e), e.want = d.want, e.pause = d.pause, e.buf = d.buf,
           e.flush = d.flush, e.inEvent = d.inEvent, e.wait = d.wait
    PROVE  ReadOk(d) => ReadOk(e)
<1>1. /\ Waiting(d) <=> Waiting(e)
      /\ NoneReady(d) <=> NoneReady(e)
  BY FlagsGood
<1>2. LinkOk(d) => LinkOk(e)
  BY DEF LinkOk
<1> QED
  BY <1>1, <1>2 DEF ReadOk, Flags

\* HEADERS
LEMMA HeadersFrame ==
    ASSUME NEW d, Good(d), d.inEvent, NEW s \in Streams, d.s[s].state = "none",
           NEW pri \in Priorities, NEW resp, NEW e, e = DecodeHeaders(d, s, pri, resp)
    PROVE  Good(e) /\ e.inEvent /\ e.open = d.open /\ (ReadOk(d) => ReadOk(e))
<1>1. d \in ConnType /\ Fits(d) /\ Clean(d) /\ d.init \in 0 .. MaxWindow
  BY DEF Good, ConnType
<1>2. PICK g : g = [d EXCEPT !.pending = TRUE]
  OBVIOUS
<1>3. /\ g \in ConnType /\ g.want = d.want /\ g.pause = d.pause /\ g.buf = d.buf /\ g.wait = d.wait
      /\ g.flush = d.flush /\ g.inEvent = d.inEvent /\ g.open = d.open
      /\ g.s = d.s /\ g.que = d.que /\ g.win = d.win /\ g.init = d.init
      /\ g.total = d.total /\ g.passed = d.passed /\ g.granted = d.granted /\ g.over = d.over
  BY <1>1, <1>2 DEF ConnType
<1>4. Flags(d, g)
  BY <1>3 DEF Flags
<1>5. Good(g) /\ (ReadOk(d) => ReadOk(g))
  BY <1>3, <1>4, FlagsGood, FlagsReadOk
<1>6. PICK a : a = IF resp = "now" THEN RespSize ELSE 0
  OBVIOUS
<1>7. PICK b : b = IF resp = "now" THEN 0 ELSE RespSize
  OBVIOUS
<1>8. PICK y : y = [FreshStream EXCEPT !.state = "init", !.pri = pri, !.win = d.init,
                                       !.ready = a, !.toCome = b]
  OBVIOUS
<1>9. /\ y \in StreamType /\ y.state = "init" /\ y.pri = pri /\ y.win = d.init
      /\ y.ready = a /\ y.toCome = b /\ y.sent = 0 /\ y.granted = 0
      /\ y.pause = FALSE
  <2>1. a \in 0 .. RespSize /\ b \in 0 .. RespSize /\ d.init \in -(MaxWindow + 1) .. MaxWindow
    BY <1>1, <1>6, <1>7, Sizes
  <2> QED
    BY <1>8, <2>1 DEF FreshStream, StreamType
<1>10. StreamFits(g.init, g.over, y)
  <2>1. a + b <= RespSize
    BY <1>6, <1>7, Sizes
  <2>2. PICK n \in 0 .. MaxWindow : n = d.init
    BY <1>1
  <2>3. Int32(n) = n /\ n + 0 - 0 = n
    <3>1. n \in Int /\ n \in -(MaxWindow + 1) .. MaxWindow
      BY Sizes
    <3> QED
      BY <3>1, Int32Facts
  <2>4. y.win = Int32(g.init + y.granted - y.sent)
    BY <1>3, <1>9, <2>2, <2>3
  <2> QED
    BY <1>9, <2>1, <2>4, Sizes DEF StreamFits
<1>11. PICK f : f = [g EXCEPT !.s[s] = y]
  OBVIOUS
<1>12. e = Add2PriorityQue(f, s)
  <2>1. [d EXCEPT !.pending = TRUE, !.s[s] = y] = f
    BY <1>1, <1>2, <1>11
  <2> QED
    BY <1>6, <1>7, <1>8, <2>1 DEF DecodeHeaders
<1>13. Sets(g, f, s, y)
  BY <1>3, <1>9, <1>11, SetStream
<1>14. Fits(f) /\ CleanBut(f, s) /\ Touches(g, f, s)
  BY <1>3, <1>5, <1>10, <1>13, SetsGood, SetsTouches DEF Good
<1>15. f \in ConnType /\ f.s[s] = y /\ f.win = g.win /\ f.que = g.que
  BY <1>13 DEF Sets
<1>16. /\ Places(f, e, s) /\ e.wait
       /\ \A p \in Priorities : Has(e.que[p], s) <=> p = f.s[s].pri
  BY <1>12, <1>15, AddStep
<1>17. Clean(e)
  BY <1>9, <1>12, <1>14, <1>15, AddClean DEF LiveStates
<1>18. Fits(e) /\ Touches(f, e, s) /\ e.s = f.s /\ e.win = f.win /\ e \in ConnType
  BY <1>14, <1>16, PlacesFits DEF Places, Touches
<1>19. Touches(g, e, s)
  BY <1>3, <1>14, <1>18, TouchesTrans
<1>20. In(e, s)
  BY <1>9, <1>15, <1>16 DEF In
<1>21. Eager(e.s[s])
  BY <1>9, <1>15, <1>18 DEF Eager
<1>22. ReadOk(g) => ReadOk(e)
  BY <1>3, <1>5, <1>15, <1>16, <1>18, <1>19, <1>20, <1>21, TouchReadOk
<1> QED
  BY <1>3, <1>5, <1>17, <1>18, <1>19, <1>22 DEF Good, Touches, Link

\* WINDOW_UPDATE of the connection
LEMMA WindowFrame ==
    ASSUME NEW d, Good(d), d.inEvent, NEW delta \in 0 .. MaxDelta,
           NEW r, r = ConnWindowUpdate(d, delta)
    PROVE  \/ r = DoGoAway(d)
           \/ Good(r) /\ r.inEvent /\ r.open = d.open /\ (ReadOk(d) => ReadOk(r))
<1>1. d \in ConnType /\ Fits(d) /\ Clean(d) /\ d.win \in 0 .. MaxWindow /\ d.granted \in Nat /\ delta \in Nat
      /\ d.total \in Nat /\ d.win = InitWindow + d.granted - d.total
  BY Sizes DEF Good, ConnType, Fits
<1>2. PICK w, n : w = d.win + delta /\ n = d.granted + delta
  OBVIOUS
<1>3. PICK e : e = [d EXCEPT !.win = w, !.granted = n]
  OBVIOUS
<1>4. e.win = w
  BY <1>1, <1>3 DEF ConnType
<1>5. r = IF delta = 0 \/ e.win > MaxWindow THEN DoGoAway(d)
          ELSE IF d.win <= 0 THEN OnWriteEx2(e).c ELSE e
  BY <1>2, <1>3 DEF ConnWindowUpdate
<1>6. SUFFICES ASSUME ~(delta = 0 \/ w > MaxWindow)
               PROVE  Good(r) /\ r.inEvent /\ r.open = d.open /\ (ReadOk(d) => ReadOk(r))
  BY <1>4, <1>5
<1>7. w \in 0 .. MaxWindow /\ n \in Nat /\ w = InitWindow + n - d.total
  BY <1>1, <1>2, <1>6, Sizes
<1>8. /\ e \in ConnType /\ e.win = w /\ e.granted = n /\ e.want = d.want /\ e.pause = d.pause
      /\ e.buf = d.buf /\ e.wait = d.wait /\ e.flush = d.flush /\ e.inEvent = d.inEvent
      /\ e.open = d.open /\ e.s = d.s /\ e.que = d.que /\ e.init = d.init
      /\ e.total = d.total /\ e.passed = d.passed /\ e.over = d.over
  BY <1>1, <1>3, <1>7 DEF ConnType
<1>9. Fits(e)
  BY <1>1, <1>7, <1>8 DEF Fits
<1>10. Clean(e)
  BY <1>1, <1>8 DEF Clean
<1>11. Good(e) /\ (Waiting(d) <=> Waiting(e)) /\ (NoneReady(d) <=> NoneReady(e))
       /\ (LinkOk(d) <=> LinkOk(e))
  BY <1>8, <1>9, <1>10 DEF Good, Waiting, In, NoneReady, LinkOk
<1>12. CASE d.win <= 0
  <2>1. PICK a : a = OnWriteEx2(e)
    OBVIOUS
  <2>2. Worked(e, a) /\ (LinkOk(e) /\ Waiting(e) => Left(a.c))
    BY <1>8, <1>11, <2>1, OnWriteEx2Step
  <2>3. r = a.c
    BY <1>4, <1>5, <1>6, <1>12, <2>1
  <2>4. Good(r) /\ Link(e, r) /\ (Waiting(e) => Waiting(r))
    BY <2>2, <2>3 DEF Worked
  <2> QED
    BY <1>8, <1>11, <2>2, <2>3, <2>4 DEF Link, ReadOk, Left
<1>13. CASE ~(d.win <= 0)
  <2>1. r = e /\ d.win > 0
    BY <1>1, <1>4, <1>5, <1>6, <1>13, Sizes
  <2> QED
    BY <1>8, <1>11, <2>1 DEF ReadOk
<1> QED
  BY <1>12, <1>13

\* what adjWindowOut() does to a stream: its window becomes w
Adjusted(d, e, s, w) ==
    /\ Clean(e) /\ Touches(d, e, s)
    /\ e.win = d.win /\ e.total = d.total /\ e.passed = d.passed
    /\ e.s[s].win = w /\ e.s[s].state = d.s[s].state /\ e.s[s].pri = d.s[s].pri
    /\ e.s[s].ready = d.s[s].ready /\ e.s[s].toCome = d.s[s].toCome
    /\ e.s[s].sent = d.s[s].sent /\ e.s[s].granted = d.s[s].granted
    /\ d.inEvent /\ ReadOk(d) => ReadOk(e)

Windowed(d, f, s, w, b) ==
    /\ Clean(f) /\ Touches(d, f, s) /\ f.que = d.que
    /\ f.win = d.win /\ f.total = d.total /\ f.passed = d.passed
    /\ f.s[s].win = w /\ f.s[s].state = d.s[s].state /\ f.s[s].pri = d.s[s].pri
    /\ f.s[s].ready = d.s[s].ready /\ f.s[s].toCome = d.s[s].toCome
    /\ f.s[s].sent = d.s[s].sent /\ f.s[s].granted = d.s[s].granted
    /\ f.s[s].want = d.s[s].want /\ f.s[s].pause = b

\* The stream's window and its pause flag change.
LEMMA WindowSet ==
    ASSUME NEW d \in ConnType, Clean(d), NEW s \in Streams, d.s[s].state \in LiveStates,
           NEW w \in -(MaxWindow + 1) .. MaxWindow, NEW b \in BOOLEAN,
           NEW f, f = [d EXCEPT !.s[s] = [d.s[s] EXCEPT !.win = w, !.pause = b]]
    PROVE  Windowed(d, f, s, w, b)
<1>1. PICK x \in StreamType : x = d.s[s]
  BY QueueTypes
<1>2. PICK y : y = [x EXCEPT !.win = w, !.pause = b]
  OBVIOUS
<1>3. /\ y \in StreamType /\ y.state = x.state /\ y.pri = x.pri /\ y.win = w
      /\ y.ready = x.ready /\ y.toCome = x.toCome /\ y.want = x.want /\ y.pause = b
      /\ y.sent = x.sent /\ y.granted = x.granted
  BY <1>2 DEF StreamType
<1>4. Sets(d, f, s, y)
  BY <1>1, <1>2, <1>3, SetStream
<1>5. Clean(f) /\ Touches(d, f, s)
  BY <1>1, <1>3, <1>4, SetsGood, SetsTouches
<1>6. f.s[s] = y /\ f.que = d.que /\ f.win = d.win /\ f.total = d.total /\ f.passed = d.passed
  BY <1>4 DEF Sets
<1> QED
  BY <1>1, <1>3, <1>5, <1>6 DEF Windowed

LEMMA AdjStep ==
    ASSUME NEW d \in ConnType, Clean(d), NEW s \in Streams, d.s[s].state \in LiveStates,
           NEW n \in Int, NEW w, w = Int32(d.s[s].win + n),
           NEW r, r = AdjWindowOut(d, s, n)
    PROVE  Adjusted(d, r.c, s, w) /\ (r.ok <=> ~(w < 0))
<1>1. d.s[s].win \in -(MaxWindow + 1) .. MaxWindow /\ d.s[s].pause \in BOOLEAN
  BY StreamFields
<1>2. w \in -(MaxWindow + 1) .. MaxWindow
  <2>1. d.s[s].win + n \in Int
    BY <1>1, Sizes
  <2> QED
    BY <2>1, Int32Type
<1>3. PICK e : e = [d EXCEPT !.s[s].win = w]
  OBVIOUS
<1>4. PICK f : f = [e EXCEPT !.s[s].pause = FALSE]
  OBVIOUS
<1>5. /\ e = [d EXCEPT !.s[s] = [d.s[s] EXCEPT !.win = w, !.pause = d.s[s].pause]]
      /\ f = [d EXCEPT !.s[s] = [d.s[s] EXCEPT !.win = w, !.pause = FALSE]]
  BY <1>3, <1>4 DEF ConnType, StreamType
<1>6. r = IF w < 0 THEN [c |-> e, ok |-> FALSE]
          ELSE [c |-> IF f.s[s].want THEN StreamContinueWrite(f, s) ELSE f, ok |-> TRUE]
  BY <1>3, <1>4 DEF AdjWindowOut
\* without a call of continueWrite()
<1>7. ASSUME NEW g, Clean(g), Touches(d, g, s), g.que = d.que, g.win = d.win,
             g.s[s].state = d.s[s].state, g.s[s].ready = d.s[s].ready, g.s[s].want = d.s[s].want,
             g.s[s].win <= 0 \/ ~g.s[s].want, g.s[s].win \in Int, g.s[s].pause => d.s[s].pause,
             d.inEvent, ReadOk(d)
      PROVE  ReadOk(g)
  <2>1. Eager(d.s[s]) /\ (Ready(d.s[s]) => In(d, s))
    BY <1>7 DEF ReadOk, Waiting
  <2>2. Eager(g.s[s])
    BY <1>7, <2>1 DEF Eager
  <2>3. Ready(g.s[s]) => g.s[s].state = "init"
    BY <1>7, <2>2 DEF Eager, Ready
  <2>4. Ready(g.s[s]) => Ready(d.s[s]) /\ In(g, s)
    BY <1>7, <2>1, <2>3 DEF Ready, In
  <2>5. LinkOk(g) /\ (d.want => g.want) /\ (d.wait => g.wait) /\ (d.pause => g.pause)
    BY <1>7 DEF ReadOk, Touches, Link
  <2>6. ASSUME NEW t \in Streams PROVE Eager(g.s[t]) /\ (Ready(g.s[t]) => In(g, t))
    <3>1. CASE t # s
      BY <1>7, <3>1 DEF ReadOk, Waiting, Touches, In
    <3> QED
      BY <2>2, <2>4, <3>1
  <2>7. ASSUME g.win > 0, ~g.want, ~g.wait, ~g.pause PROVE NoneReady(g)
    <3>1. NoneReady(d)
      BY <1>7, <2>5, <2>7 DEF ReadOk
    <3>2. ~Ready(g.s[s])
      BY <2>4, <3>1 DEF NoneReady
    <3>3. \A t \in Streams : t # s => g.s[t] = d.s[t]
      BY <1>7 DEF Touches
    <3> QED
      BY <3>1, <3>2, <3>3 DEF NoneReady
  <2> QED
    BY <2>5, <2>6, <2>7 DEF ReadOk, Waiting
<1>8. CASE w < 0
  <2>1. r.c = e /\ r.ok = FALSE
    BY <1>6, <1>8
  <2>2. /\ Clean(e) /\ Touches(d, e, s) /\ e.que = d.que
        /\ e.win = d.win /\ e.total = d.total /\ e.passed = d.passed
        /\ e.s[s].win = w /\ e.s[s].state = d.s[s].state /\ e.s[s].pri = d.s[s].pri
        /\ e.s[s].ready = d.s[s].ready /\ e.s[s].toCome = d.s[s].toCome
        /\ e.s[s].sent = d.s[s].sent /\ e.s[s].granted = d.s[s].granted
        /\ e.s[s].want = d.s[s].want /\ e.s[s].pause = d.s[s].pause
    <3>0. PICK b \in BOOLEAN : b = d.s[s].pause
      BY <1>1
    <3>1. Windowed(d, e, s, w, b)
      BY <1>2, <1>5, <3>0, WindowSet
    <3> QED
      BY <3>0, <3>1 DEF Windowed
  <2>3. w <= 0 /\ w \in Int
    BY <1>2, <1>8, Sizes
  <2>4. d.inEvent /\ ReadOk(d) => ReadOk(e)
    BY <1>7, <2>2, <2>3
  <2> QED
    BY <1>8, <2>1, <2>2, <2>4 DEF Adjusted
<1>9. CASE ~(w < 0)
  <2>1. /\ Clean(f) /\ Touches(d, f, s) /\ f.que = d.que
        /\ f.win = d.win /\ f.total = d.total /\ f.passed = d.passed
        /\ f.s[s].win = w /\ f.s[s].state = d.s[s].state /\ f.s[s].pri = d.s[s].pri
        /\ f.s[s].ready = d.s[s].ready /\ f.s[s].toCome = d.s[s].toCome
        /\ f.s[s].sent = d.s[s].sent /\ f.s[s].granted = d.s[s].granted
        /\ f.s[s].want = d.s[s].want /\ f.s[s].pause = FALSE
    <3>1. Windowed(d, f, s, w, FALSE)
      BY <1>2, <1>5, WindowSet
    <3> QED
      BY <3>1 DEF Windowed
  <2>2. w \in Int
    BY <1>2, Sizes
  <2>3. CASE ~f.s[s].want
    <3>1. r.c = f /\ r.ok = TRUE
      BY <1>6, <1>9, <2>3
    <3>2. d.inEvent /\ ReadOk(d) => ReadOk(f)
      BY <1>7, <2>1, <2>2, <2>3
    <3> QED
      BY <1>9, <2>1, <3>1, <3>2 DEF Adjusted
  <2>4. CASE f.s[s].want
    <3>1. PICK g : g = StreamContinueWrite(f, s)
      OBVIOUS
    <3>2. r.c = g /\ r.ok = TRUE
      BY <1>6, <1>9, <2>4, <3>1
    <3>3. f \in ConnType
      BY <2>1 DEF Touches
    <3>4. PICK b : b = f.s[s].pause
      OBVIOUS
    <3>5. Asks(f, g, s, b)
      BY <2>1, <3>1, <3>3, <3>4, ContStep
    <3>6. /\ Clean(g) /\ Touches(f, g, s) /\ g.win = f.win /\ g.total = f.total /\ g.passed = f.passed
          /\ g.s[s] = [f.s[s] EXCEPT !.want = TRUE, !.pause = b]
          /\ In(g, s) /\ (LinkOk(f) => Awake(g))
      BY <3>5 DEF Asks, In
    <3>7. /\ g.s[s].want = TRUE /\ g.s[s].win = f.s[s].win /\ g.s[s].state = f.s[s].state
          /\ g.s[s].pri = f.s[s].pri /\ g.s[s].ready = f.s[s].ready /\ g.s[s].toCome = f.s[s].toCome
          /\ g.s[s].sent = f.s[s].sent /\ g.s[s].granted = f.s[s].granted
          /\ g.s[s].pause = FALSE
      <4>1. f.s[s] \in StreamType
        BY <3>3, QueueTypes
      <4> QED
        BY <2>1, <3>4, <3>6, <4>1 DEF StreamType
    <3>8. Touches(d, g, s)
      BY <2>1, <3>6, TouchesTrans
    <3>9. ASSUME d.inEvent, ReadOk(d) PROVE ReadOk(g)
      <4>1. LinkOk(f) /\ g.inEvent
        BY <2>1, <3>8, <3>9 DEF ReadOk, Touches, Link
      <4>2. g.wait
        BY <3>6, <4>1 DEF Awake
      <4>3. Eager(g.s[s])
        BY <3>7 DEF Eager
      <4>4. LinkOk(g)
        BY <3>8, <3>9 DEF ReadOk, Touches, Link
      <4>5. ASSUME NEW t \in Streams PROVE Eager(g.s[t]) /\ (Ready(g.s[t]) => In(g, t))
        <5>1. CASE t # s
          BY <3>8, <3>9, <5>1 DEF ReadOk, Waiting, Touches, In
        <5> QED
          BY <3>6, <4>3, <5>1
      <4> QED
        BY <4>2, <4>4, <4>5 DEF ReadOk, Waiting
    <3> QED
      BY <1>9, <2>1, <3>2, <3>6, <3>7, <3>8, <3>9 DEF Adjusted
  <2> QED
    BY <2>3, <2>4
<1> QED
  BY <1>8, <1>9

\* WINDOW_UPDATE of a stream
LEMMA StreamWindowFrame ==
    ASSUME NEW d, Good(d), d.inEvent, NEW s \in Streams, d.s[s].state \in LiveStates,
           NEW delta \in 0 .. MaxDelta, NEW e, e = StreamWindowUpdate(d, s, delta)
    PROVE  Good(e) /\ e.inEvent /\ e.open = d.open /\ (ReadOk(d) => ReadOk(e))
<1>1. d \in ConnType /\ Fits(d) /\ Clean(d) /\ delta \in Nat /\ d.init \in 0 .. MaxWindow
  BY Sizes DEF Good, ConnType
<1>2. PICK x \in StreamType : x = d.s[s]
  BY <1>1, QueueTypes
<1>3. /\ x.win \in -(MaxWindow + 1) .. MaxWindow /\ x.sent \in Nat /\ x.granted \in Nat
      /\ ~d.over => x.win = Int32(d.init + x.granted - x.sent) /\ x.sent <= MaxWindow + x.granted
      /\ x.ready + x.toCome <= RespSize
  BY <1>1, <1>2 DEF StreamType, Fits, StreamFits
<1>4. PICK m \in Nat : m = x.granted + delta
  BY <1>1, <1>3
<1>5. PICK y : y = [x EXCEPT !.granted = m]
  OBVIOUS
<1>6. /\ y \in StreamType /\ y.state = x.state /\ y.pri = x.pri /\ y.win = x.win
      /\ y.ready = x.ready /\ y.toCome = x.toCome /\ y.want = x.want
      /\ y.sent = x.sent /\ y.granted = m /\ y.pause = x.pause
  BY <1>5 DEF StreamType
<1>7. PICK f : f = [d EXCEPT !.s[s] = y]
  OBVIOUS
<1>8. [d EXCEPT !.s[s].granted = @ + delta] = f
  BY <1>1, <1>2, <1>4, <1>5, <1>7 DEF ConnType, StreamType
<1>9. Sets(d, f, s, y)
  BY <1>1, <1>6, <1>7, SetStream
<1>10. Clean(f) /\ Touches(d, f, s)
  BY <1>1, <1>2, <1>6, <1>9, SetsGood, SetsTouches
<1>11. /\ f \in ConnType /\ f.s[s] = y /\ f.que = d.que /\ f.win = d.win /\ f.total = d.total
       /\ f.passed = d.passed /\ f.inEvent
  BY <1>9 DEF Sets
<1>12. ReadOk(d) => ReadOk(f)
  <2>1. (Ready(y) <=> Ready(x)) /\ (Eager(y) <=> Eager(x))
    BY <1>6 DEF Ready, Eager
  <2>2. ReadOk(d) => Eager(f.s[s]) /\ (Ready(f.s[s]) => In(f, s) /\ Ready(d.s[s]))
    BY <1>2, <1>11, <2>1 DEF ReadOk, Waiting, In
  <2> QED
    BY <1>10, <1>11, <2>2, TouchReadOk
<1>13. PICK r : r = AdjWindowOut(f, s, delta)
  OBVIOUS
<1>14. PICK w : w = Int32(f.s[s].win + delta)
  OBVIOUS
<1>15. Adjusted(f, r.c, s, w) /\ (r.ok <=> ~(w < 0))
  BY <1>1, <1>2, <1>6, <1>10, <1>11, <1>13, <1>14, AdjStep
<1>16. e = IF delta = 0 THEN RecycleStream(d, s)
           ELSE IF ~r.ok THEN Refuse(d, s, delta)
           ELSE IF r.c.s[s].win <= delta THEN StreamContinueWrite(r.c, s) ELSE r.c
  BY <1>8, <1>13 DEF StreamWindowUpdate
<1>17. PICK g : g = RecycleStream(d, s)
  OBVIOUS
<1>18. Good(g) /\ g.inEvent /\ g.open = d.open /\ (ReadOk(d) => ReadOk(g))
  BY <1>17, RstFrame
<1>19. CASE delta = 0
  BY <1>16, <1>17, <1>18, <1>19
<1>20. CASE delta # 0 /\ ~r.ok
  <2>1. PICK z : z = IF g.refused = "negative" \/ d.s[s].win + delta <= MaxWindow
                     THEN "negative" ELSE "overflow"
    OBVIOUS
  <2>2. e = [g EXCEPT !.refused = z]
    BY <1>16, <1>17, <1>20, <2>1 DEF Refuse
  <2>3. z \in {"none", "negative", "overflow"}
    BY <2>1
  <2>4. /\ e \in ConnType /\ e.want = g.want /\ e.pause = g.pause /\ e.buf = g.buf /\ e.wait = g.wait
        /\ e.flush = g.flush /\ e.inEvent = g.inEvent /\ e.open = g.open
        /\ e.s = g.s /\ e.que = g.que /\ e.win = g.win /\ e.init = g.init
        /\ e.total = g.total /\ e.passed = g.passed /\ e.granted = g.granted /\ e.over = g.over
    BY <1>18, <2>2, <2>3 DEF Good, ConnType
  <2>5. Flags(g, e)
    BY <2>4 DEF Flags
  <2>6. Good(e) /\ (ReadOk(g) => ReadOk(e))
    BY <1>18, <2>4, <2>5, FlagsGood, FlagsReadOk
  <2> QED
    BY <1>18, <2>4, <2>6
<1>21. CASE delta # 0 /\ r.ok
  <2>1. PICK h : h = r.c
    OBVIOUS
  <2>2. /\ Clean(h) /\ Touches(f, h, s)
        /\ h.win = d.win /\ h.total = d.total /\ h.passed = d.passed
        /\ h.s[s].win = w /\ h.s[s].state = x.state
        /\ h.s[s].ready = x.ready /\ h.s[s].toCome = x.toCome
        /\ h.s[s].sent = x.sent /\ h.s[s].granted = m
        /\ ReadOk(d) => ReadOk(h)
    BY <1>6, <1>11, <1>12, <1>15, <2>1 DEF Adjusted
  <2>3. Touches(d, h, s) /\ h \in ConnType
    BY <1>1, <1>10, <2>2, TouchesTrans DEF Touches
  <2>4. h.init = d.init /\ h.granted = d.granted /\ h.over = d.over /\ h.open = d.open /\ h.inEvent
    BY <2>3 DEF Touches, Link
  <2>5. StreamFits(h.init, h.over, h.s[s])
    <3>1. PICK a \in Int : a = d.init + x.granted - x.sent
      BY <1>1, <1>3
    <3>2. Int32(Int32(a) + delta) = Int32(a + delta)
      BY <1>1, Int32Facts
    <3>3. a + delta = d.init + m - x.sent
      BY <1>1, <1>3, <1>4, <3>1
    <3>4. ~d.over => w = Int32(d.init + m - x.sent)
      BY <1>3, <1>6, <1>11, <1>14, <3>1, <3>2, <3>3
    <3>5. ~d.over => x.sent <= MaxWindow + m
      BY <1>1, <1>3, <1>4, Sizes
    <3> QED
      BY <1>3, <2>2, <2>4, <3>4, <3>5 DEF StreamFits
  <2>6. Fits(h)
    <3>1. ASSUME NEW t \in Streams PROVE StreamFits(h.init, h.over, h.s[t])
      <4>1. CASE t # s
        BY <1>1, <2>3, <2>4, <4>1 DEF Fits, Touches
      <4> QED
        BY <2>5, <4>1
    <3> QED
      BY <1>1, <2>2, <2>4, <3>1 DEF Fits
  <2>7. Good(h)
    BY <2>2, <2>3, <2>6 DEF Good
  <2>8. CASE ~(h.s[s].win <= delta)
    <3>1. e = h
      BY <1>16, <1>21, <2>1, <2>8
    <3> QED
      BY <2>2, <2>4, <2>7, <3>1
  <2>9. CASE h.s[s].win <= delta
    <3>1. e = StreamContinueWrite(h, s)
      BY <1>16, <1>21, <2>1, <2>9
    <3>2. PICK b : b = h.s[s].pause
      OBVIOUS
    <3>3. Asks(h, e, s, b)
      BY <1>2, <2>2, <2>3, <3>1, <3>2, ContStep
    <3>4. /\ Good(e) /\ Touches(h, e, s) /\ e.win = h.win
          /\ e.s[s] = [h.s[s] EXCEPT !.want = TRUE, !.pause = b]
          /\ In(e, s) /\ (LinkOk(h) => Awake(e))
      BY <2>7, <3>3 DEF Asks, In
    <3>5. e.s[s].want = TRUE /\ e.s[s].pause = h.s[s].pause /\ e.s[s].state = h.s[s].state
      <4>1. h.s[s] \in StreamType
        BY <2>3, QueueTypes
      <4> QED
        BY <3>2, <3>4, <4>1 DEF StreamType
    <3>6. (ReadOk(h) => Eager(e.s[s])) /\ e.inEvent /\ e.open = d.open
      BY <2>4, <3>4, <3>5 DEF Eager, Touches, Link, ReadOk, Waiting
    <3>7. ReadOk(h) => e.wait
      BY <3>4, <3>6 DEF ReadOk, Awake
    <3>8. ReadOk(h) => ReadOk(e)
      BY <2>4, <2>7, <3>4, <3>6, <3>7, TouchReadOk
    <3> QED
      BY <2>2, <3>4, <3>6, <3>8
  <2> QED
    BY <2>8, <2>9
<1> QED
  BY <1>19, <1>20, <1>21

\* SETTINGS: when the first n streams are adjusted.  v is the new value, o says whether a
\* difference was lost.
Half(d, v, o, e, n) ==
    /\ e \in ConnType /\ Clean(e)
    /\ e.init = v /\ e.win = d.win /\ e.total = d.total /\ e.passed = d.passed
    /\ e.granted = d.granted /\ e.over = o /\ e.open = d.open /\ e.inEvent
    /\ \A t \in Streams : IF t <= n THEN StreamFits(v, o, e.s[t]) ELSE e.s[t] = d.s[t]
    /\ ReadOk(d) => ReadOk(e)

LEMMA HalfStep ==
    ASSUME NEW d, Good(d), NEW v \in 0 .. MaxWindow, NEW o \in BOOLEAN, NEW k \in Int,
           ~o => ~d.over /\ k = v - d.init, NEW b, b.s = d.s, NEW n \in 0 .. NumStreams - 1,
           NEW e, Half(d, v, o, e, n), NEW f,
           f = IF k = 0 \/ ~Live(b, n + 1) THEN e ELSE AdjWindowOut(e, n + 1, k).c
    PROVE  Half(d, v, o, f, n + 1)
<1>1. d \in ConnType /\ Fits(d) /\ d.init \in 0 .. MaxWindow /\ MaxWindow \in Nat
  BY Sizes DEF Good, ConnType
<1>2. PICK s \in Streams : s = n + 1
  BY Sizes DEF Streams
<1>3. \A t \in Streams : t \in Nat /\ (t <= n <=> t <= s /\ t # s)
  BY <1>2, Sizes DEF Streams
<1>4. ~(s <= n) /\ s <= s
  BY <1>2
<1>5. e.s[s] = d.s[s]
  BY <1>4 DEF Half
<1>6. PICK x \in StreamType : x = d.s[s]
  BY <1>1, QueueTypes
<1>7. x.win \in -(MaxWindow + 1) .. MaxWindow /\ x.sent \in Nat /\ x.granted \in Nat
      /\ StreamFits(d.init, d.over, x)
  BY <1>1, <1>6 DEF StreamType, Fits
<1>8. CASE k = 0 \/ ~Live(b, s)
  <2>1. f = e
    BY <1>2, <1>8
  <2>2. StreamFits(v, o, x)
    <3>1. CASE k = 0
      <4>1. ~o => v = d.init /\ ~d.over
        BY <1>1, <3>1
      <4> QED
        BY <1>7, <4>1 DEF StreamFits
    <3>2. CASE ~Live(b, s)
      <4>1. x.state \notin LiveStates
        BY <1>6, <3>2 DEF Live, LiveStates
      <4> QED
        BY <1>7, <4>1 DEF StreamFits
    <3> QED
      BY <1>8, <3>1, <3>2
  <2>3. \A t \in Streams : IF t <= s THEN StreamFits(v, o, e.s[t]) ELSE e.s[t] = d.s[t]
    BY <1>3, <1>5, <1>6, <2>2 DEF Half
  <2> QED
    BY <1>2, <2>1, <2>3 DEF Half
<1>9. CASE ~(k = 0 \/ ~Live(b, s))
  <2>1. x.state \in LiveStates
    BY <1>6, <1>9 DEF Live, LiveStates
  <2>3. PICK r : r = AdjWindowOut(e, s, k)
    OBVIOUS
  <2>4. PICK w : w = Int32(e.s[s].win + k)
    OBVIOUS
  <2>5. Adjusted(e, r.c, s, w)
    BY <1>5, <1>6, <2>1, <2>3, <2>4, AdjStep DEF Half
  <2>6. f = r.c
    BY <1>2, <1>9, <2>3
  <2>7. /\ Clean(f) /\ Touches(e, f, s)
        /\ f.win = d.win /\ f.total = d.total /\ f.passed = d.passed
        /\ f.s[s].win = w /\ f.s[s].ready = x.ready /\ f.s[s].toCome = x.toCome
        /\ f.s[s].sent = x.sent /\ f.s[s].granted = x.granted
        /\ ReadOk(d) => ReadOk(f)
    BY <1>5, <1>6, <2>5, <2>6 DEF Adjusted, Half
  <2>8. /\ f \in ConnType /\ f.init = v /\ f.granted = d.granted /\ f.over = o /\ f.open = d.open /\ f.inEvent
        /\ \A t \in Streams : t # s => f.s[t] = e.s[t]
    BY <2>7 DEF Touches, Link, Half
  <2>9. StreamFits(v, o, f.s[s])
    <3>1. ASSUME ~o PROVE f.s[s].win = Int32(v + x.granted - x.sent)
      <4>1. PICK a \in Int : a = d.init + x.granted - x.sent
        BY <1>1, <1>7
      <4>2. Int32(Int32(a) + k) = Int32(a + k)
        BY Int32Facts
      <4>3. a + k = v + x.granted - x.sent
        BY <1>1, <1>7, <3>1, <4>1
      <4>4. x.win = Int32(a)
        BY <1>7, <2>1, <3>1, <4>1 DEF StreamFits
      <4> QED
        BY <1>5, <1>6, <2>4, <2>7, <4>2, <4>3, <4>4
    <3> QED
      BY <1>7, <2>7, <3>1 DEF StreamFits
  <2>10. \A t \in Streams : IF t <= s THEN StreamFits(v, o, f.s[t]) ELSE f.s[t] = d.s[t]
    <3> TAKE t \in Streams
    <3>1. CASE t = s
      BY <1>4, <2>9, <3>1
    <3>2. CASE t # s
      BY <1>3, <2>8, <3>2 DEF Half
    <3> QED
      BY <3>1, <3>2
  <2> QED
    BY <1>2, <2>7, <2>8, <2>10 DEF Half
<1> QED
  BY <1>8, <1>9

\* b has the new value, and k is what the streams will get
Renewed(d, b, v, o, k) ==
    /\ ~o => ~d.over /\ k = v - d.init
    /\ b = [d EXCEPT !.init = v, !.over = o]

LEMMA AdjustAllStep ==
    ASSUME NEW d, Good(d), d.inEvent, NEW v \in 0 .. MaxWindow, NEW o \in BOOLEAN, NEW k \in Int,
           NEW b, Renewed(d, b, v, o, k), NEW r, r = AdjustAll(b, k)
    PROVE  Good(r) /\ r.inEvent /\ r.open = d.open /\ (ReadOk(d) => ReadOk(r))
<1>0. (~o => ~d.over /\ k = v - d.init) /\ b = [d EXCEPT !.init = v, !.over = o]
  BY DEF Renewed
<1> USE <1>0
<1> DEFINE N == NumStreams
           Step(e, n) == IF k = 0 \/ ~Live(b, n) THEN e
                         ELSE AdjWindowOut(e, n, k).c
           run[n \in 0..NumStreams] ==
               IF n = 0 THEN b
               ELSE IF k = 0 \/ ~Live(b, n) THEN run[n - 1]
               ELSE AdjWindowOut(run[n - 1], n, k).c
           S(n) == {e \in ConnType : Half(d, v, o, e, n)}
           T == [n \in 0 .. N |-> S(n)]
           g == [n \in 0 .. N - 1 |-> [e \in S(n) |-> Step(e, n + 1)]]
<1>1. N \in Nat /\ N \in Nat \ {0}
  BY Sizes
<1>b. b.s = d.s
  BY DEF Good, ConnType
<1>2. ASSUME NEW n \in 0 .. N - 1, NEW e \in S(n) PROVE Step(e, n + 1) \in S(n + 1)
  <2>1. PICK f : f = IF k = 0 \/ ~Live(b, n + 1) THEN e
                     ELSE AdjWindowOut(e, n + 1, k).c
    OBVIOUS
  <2>2. Half(d, v, o, f, n + 1)
    BY <1>b, <1>2, <2>1, HalfStep
  <2>3. f \in ConnType
    BY <2>2 DEF Half
  <2> QED
    BY <2>1, <2>2, <2>3
<1>3. b \in S(0)
  <2>1. PICK e : e = b
    OBVIOUS
  <2>2. d \in ConnType /\ Clean(d) /\ Fits(d)
    BY DEF Good
  <2>3. /\ e \in ConnType /\ e.init = v /\ e.win = d.win /\ e.total = d.total /\ e.passed = d.passed
        /\ e.granted = d.granted /\ e.over = o /\ e.open = d.open /\ e.inEvent = d.inEvent /\ e.s = d.s
        /\ e.que = d.que /\ e.want = d.want /\ e.pause = d.pause /\ e.buf = d.buf
        /\ e.flush = d.flush /\ e.wait = d.wait
    BY <2>1, <2>2 DEF ConnType
  <2>4. Clean(e)
    BY <2>2, <2>3 DEF Clean
  <2>5. ReadOk(d) => ReadOk(e)
    BY <2>3 DEF ReadOk, LinkOk, Waiting, NoneReady, In
  <2>6. \A t \in Streams : ~(t <= 0)
    BY Sizes DEF Streams
  <2>7. Half(d, v, o, e, 0)
    BY <2>3, <2>4, <2>5, <2>6 DEF Half
  <2> QED
    BY <2>1, <2>3, <2>7
<1> HIDE DEF S, N, run, Step
<1>5. /\ \A i \in 0 .. N : T[i] = S(i)
      /\ \A i \in 0 .. N - 1 : i \in 0 .. N /\ i + 1 \in 0 .. N /\ i \in Nat
      /\ 0 \in 0 .. N
  BY <1>1
<1>6. \A i \in 0 .. N - 1 : \A e \in S(i) : g[i][e] = Step(e, i + 1)
  OBVIOUS
<1> HIDE DEF T, g
<1>7. Leads(N, T, g)
  <2> SUFFICES ASSUME NEW i \in 0 .. N - 1, NEW e \in T[i] PROVE g[i][e] \in T[i + 1]
    BY DEF Leads
  <2> QED
    BY <1>2, <1>5, <1>6
<1>8. PICK w : Walk(N, T, g, b, w)
  BY <1>1, <1>3, <1>5, <1>7, WalkExists
<1>9. w = [n \in 0 .. N |-> IF n = 0 THEN b ELSE Step(w[n - 1], n)]
  <2>1. ASSUME NEW i \in 0 .. N, i # 0 PROVE w[i] = Step(w[i - 1], i)
    <3>1. i - 1 \in 0 .. N - 1 /\ i - 1 \in 0 .. N /\ (i - 1) + 1 = i
      BY <1>1, <2>1
    <3>2. w[i - 1] \in S(i - 1) /\ w[(i - 1) + 1] = g[i - 1][w[i - 1]]
      BY <1>5, <1>8, <3>1 DEF Walk
    <3> QED
      BY <1>6, <3>1, <3>2
  <2> QED
    BY <1>8, <2>1 DEF Walk
<1>10. run = [n \in 0 .. N |-> IF n = 0 THEN b ELSE Step(run[n - 1], n)]
  BY <1>9 DEF run, N, Step
<1> DEFINE P == {i \in Nat : i <= N => run[i] \in S(i)}
<1>11. \A i \in Nat : i \in P
  <2>1. 0 \in P
    BY <1>1, <1>3, <1>5, <1>10
  <2>2. ASSUME NEW i \in Nat, i \in P PROVE i + 1 \in P
    <3> SUFFICES ASSUME i + 1 <= N PROVE run[i + 1] \in S(i + 1)
      OBVIOUS
    <3>1. i \in 0 .. N - 1 /\ run[i] \in S(i) /\ (i + 1) - 1 = i /\ i + 1 \in 0 .. N /\ i + 1 # 0
      BY <1>1, <2>2
    <3>2. run[i + 1] = Step(run[i], i + 1)
      BY <1>10, <3>1
    <3> QED
      BY <1>2, <3>1, <3>2
  <2> HIDE DEF P
  <2> QED
    BY <2>1, <2>2, NatInSet
<1>12. run[N] \in S(N)
  BY <1>1, <1>11
<1>13. r = run[N]
  BY DEF AdjustAll, run, N
<1>14. Half(d, v, o, r, N)
  BY <1>12, <1>13 DEF S
<1>15. \A t \in Streams : t <= N
  BY <1>1 DEF Streams, N
<1>16. /\ d.win = InitWindow + d.granted - d.total
       /\ ~d.passed
  BY DEF Good, Fits
<1>17. Fits(r)
  BY <1>14, <1>15, <1>16 DEF Half, Fits
<1> QED
  BY <1>14, <1>17 DEF Half, Good

LEMMA SettingsFrame ==
    ASSUME NEW d, Good(d), d.inEvent, NEW vs \in Entries, NEW r, r = ProcessSettingFrame(d, vs)
    PROVE  \/ r = DoGoAway(d)
           \/ Good(r) /\ r.inEvent /\ r.open = d.open /\ (ReadOk(d) => ReadOk(r))
<1>1. PICK n \in 1 .. MaxEntries : vs \in [1 .. n -> InitSizes]
  BY DEF Entries
<1>2. n \in Nat /\ n >= 1 /\ vs \in Seq(InitSizes) /\ Len(vs) = n
  <2>1. n \in Nat /\ n >= 1
    BY Sizes
  <2> QED
    BY <1>1, <2>1
<1>3. \A i \in 1 .. n : vs[i] \in Nat
  BY <1>1, Sizes
<1>4. SUFFICES ASSUME ~ \E i \in 1 .. Len(vs) : vs[i] > MaxWindow
               PROVE  Good(r) /\ r.inEvent /\ r.open = d.open /\ (ReadOk(d) => ReadOk(r))
  BY DEF ProcessSettingFrame
<1>5. PICK v \in 0 .. MaxWindow : v = vs[Len(vs)]
  <2>1. n \in 1 .. n
    BY <1>2
  <2>2. vs[n] \in Nat /\ ~(vs[n] > MaxWindow)
    BY <1>2, <1>3, <1>4, <2>1
  <2> QED
    BY <1>2, <2>2, Sizes
<1>6. d.init \in 0 .. MaxWindow /\ d.over \in BOOLEAN /\ MaxWindow \in Nat
  BY Sizes DEF Good, ConnType
<1>7. PICK k \in Int : k = Difference(d, vs)
  <2>1. CASE n = 1
    BY <1>2, <1>5, <1>6, <2>1 DEF Difference
  <2>2. CASE n # 1
    <3>1. n - 1 \in 1 .. n
      BY <1>2, <2>2
    <3>2. vs[n - 1] \in Nat
      BY <1>3, <3>1
    <3> QED
      BY <1>2, <1>5, <1>6, <2>2, <3>2 DEF Difference
  <2> QED
    BY <2>1, <2>2
<1>8. PICK o \in BOOLEAN : o = (d.over \/ Loses(d, vs))
  OBVIOUS
<1>9. ~o => ~d.over /\ k = v - d.init
  BY <1>5, <1>7, <1>8 DEF Loses
<1>10. PICK b : b = [d EXCEPT !.init = v, !.over = o]
  OBVIOUS
<1>11. [d EXCEPT !.init = vs[Len(vs)], !.over = @ \/ Loses(d, vs)] = b
  BY <1>5, <1>8, <1>10 DEF Good, ConnType
<1>12. r = AdjustAll(b, k)
  BY <1>4, <1>7, <1>11 DEF ProcessSettingFrame
<1>13. Renewed(d, b, v, o, k)
  BY <1>9, <1>10 DEF Renewed
<1>14. Good(d) /\ d.inEvent /\ v \in 0 .. MaxWindow /\ o \in BOOLEAN /\ k \in Int
  BY <1>5, <1>7, <1>8
<1> QED
  BY <1>12, <1>13, <1>14, AdjustAllStep

-----------------------------------------------------------------------------
(***************************************************************************)
(* GOAWAY, and the start of an event.                                      *)
(***************************************************************************)

LEMMA FreshGood ==
    Good(Fresh) /\ Fresh.open = TRUE /\ Awaits(Fresh)
<1>1. FreshStream \in StreamType
  BY Sizes DEF FreshStream, StreamType, Priorities
<1>2. PICK x \in StreamType : x = FreshStream
  BY <1>1
<1>3. /\ x.state = "none" /\ x.sent = 0 /\ x.granted = 0 /\ x.ready = 0 /\ x.toCome = 0
  BY <1>2 DEF FreshStream
<1>4. PICK y : y = [s \in Streams |-> x]
  OBVIOUS
<1>5. PICK q : q = [p \in Priorities |-> <<>>]
  OBVIOUS
<1>6. q \in [Priorities -> Seq(Streams)]
  BY <1>5
<1>7. PICK e : e = Fresh
  OBVIOUS
<1>8. /\ e.win = InitWindow /\ e.init = InitWindow /\ e.que = q /\ e.want = FALSE /\ e.pause = FALSE
      /\ e.buf = 0 /\ e.open = TRUE /\ e.total = 0 /\ e.granted = 0 /\ e.over = FALSE
      /\ e.passed = FALSE /\ e.s = y
  BY <1>2, <1>4, <1>5, <1>7 DEF Fresh
<1>9. e \in ConnType
  <2>1. InitWindow \in 0 .. MaxWindow /\ 0 \in 0 .. FullSize + MaxFrame
    BY Sizes
  <2>2. y \in [Streams -> StreamType]
    BY <1>4
  <2> QED
    BY <1>2, <1>4, <1>5, <1>6, <1>7, <2>1, <2>2 DEF Fresh, ConnType
<1>10. \A s \in Streams : e.s[s] = x
  BY <1>4, <1>8
<1>11. StreamFits(InitWindow, FALSE, x)
  BY <1>3, Sizes DEF StreamFits, LiveStates
<1>12. Fits(e)
  <2>1. InitWindow = InitWindow + 0 - 0
    BY Sizes
  <2> QED
    BY <1>8, <1>10, <1>11, <2>1 DEF Fits
<1>13. \A p \in Priorities : e.que[p] = <<>>
  BY <1>5, <1>8
<1>14. Once(<<>>) /\ \A s : ~Has(<<>>, s)
  BY DEF Once, Has
<1>15. Clean(e)
  BY <1>13, <1>14 DEF Clean
<1>16. Eager(x) /\ ~Ready(x)
  BY <1>3 DEF Eager, Ready
<1>17. Awaits(e)
  BY <1>8, <1>10, <1>16 DEF Awaits, NowOk, Waiting, Still, NoneReady
<1> QED
  BY <1>7, <1>8, <1>9, <1>12, <1>15, <1>17 DEF Good

LEMMA GoAwayStep ==
    ASSUME NEW d \in ConnType, NEW e, e = DoGoAway(d)
    PROVE  Good(e) /\ e.open = FALSE /\ e.inEvent = FALSE /\ e.room = 0 /\ e.late = 0
<1>1. PICK f : f = Fresh
  OBVIOUS
<1>2. Good(f) /\ f \in ConnType
  BY <1>1, FreshGood DEF Good
<1>3. PICK x : x = d.refused
  OBVIOUS
<1>4. x \in {"none", "negative", "overflow"}
  BY <1>3 DEF ConnType
<1>5. e = [f EXCEPT !.open = FALSE, !.refused = x]
  BY <1>1, <1>3 DEF DoGoAway
<1>6. f.inEvent = FALSE /\ f.room = 0 /\ f.late = 0 /\ f.pause = FALSE /\ f.wait = FALSE /\ f.flush = FALSE
  BY <1>1 DEF Fresh
<1>7. /\ e \in ConnType /\ e.open = FALSE /\ e.inEvent = FALSE /\ e.room = 0 /\ e.late = 0
      /\ e.pause = FALSE /\ e.wait = FALSE /\ e.flush = FALSE
      /\ e.s = f.s /\ e.que = f.que /\ e.win = f.win /\ e.init = f.init
      /\ e.total = f.total /\ e.passed = f.passed /\ e.granted = f.granted /\ e.over = f.over
  BY <1>2, <1>4, <1>5, <1>6 DEF ConnType
<1>8. Good(e)
  <2>1. Flags(f, e)
    BY <1>7 DEF Flags
  <2> QED
    BY <1>2, <2>1, FlagsGood
<1> QED
  BY <1>7, <1>8

\* What holds of an open connection for its wakeups: during a read event and between events.
Calm(d) == d.open => (d.inEvent => ReadOk(d)) /\ (~d.inEvent => Awaits(d))

\* the inductive invariant
Steady(d) == Good(d) /\ d.room = 0 /\ d.late = 0 /\ Calm(d)

\* The flags that no handler reads between two events may change.
LEMMA Rested ==
    ASSUME NEW d, NEW e, Good(d), Flags(d, e), e.open = d.open, e.want = d.want, e.pause = d.pause,
           e.buf = d.buf, e.inEvent = d.inEvent
    PROVE  /\ Good(e) /\ (Awaits(d) => Awaits(e)) /\ (Waiting(d) <=> Waiting(e))
           /\ e.flush = d.flush /\ e.wait = d.wait /\ ReadOk(d) => ReadOk(e)
<1>1. Good(e) /\ (Waiting(d) <=> Waiting(e)) /\ (NoneReady(d) <=> NoneReady(e)) /\ e.win = d.win
  BY FlagsGood DEF Flags
<1>2. Awaits(d) => Awaits(e)
  BY <1>1 DEF Awaits, NowOk, Still
<1> QED
  BY <1>1, <1>2, FlagsReadOk

\* A step of the socket begins.
Opens(d, e, k) == e = [d EXCEPT !.room = k.room, !.late = k.late]

LEMMA AtStep ==
    ASSUME NEW d, Good(d), NEW k \in Socket, NEW e, Opens(d, e, k)
    PROVE  /\ Good(e) /\ e.s = d.s /\ e.open = d.open /\ e.want = d.want /\ e.inEvent = d.inEvent
           /\ Waiting(d) <=> Waiting(e)
           /\ Awaits(d) => Awaits(e)
           /\ ReadOk(d) => ReadOk(e)
<1>1. d \in ConnType
  BY DEF Good
<1>2. PICK m, n : m = k.room /\ n = k.late
  OBVIOUS
<1>3. m \in Nat /\ n \in Nat
  BY <1>2, Sizes, H2Assumption DEF Socket
<1>4. /\ e \in ConnType /\ e.s = d.s /\ e.open = d.open /\ e.want = d.want /\ e.inEvent = d.inEvent
      /\ e.pause = d.pause /\ e.buf = d.buf /\ e.flush = d.flush /\ e.wait = d.wait
      /\ e.que = d.que /\ e.win = d.win /\ e.init = d.init
      /\ e.total = d.total /\ e.passed = d.passed /\ e.granted = d.granted /\ e.over = d.over
  BY <1>1, <1>2, <1>3 DEF ConnType, Opens
<1>5. Flags(d, e)
  BY <1>4 DEF Flags
<1> QED
  BY <1>4, <1>5, Rested

\* It ends, in a read event or with the event.
LEMMA QuietStep ==
    ASSUME NEW d, Good(d), Calm(d), NEW e, e = Quiet(d)
    PROVE  Steady(e)
<1>1. d \in ConnType
  BY DEF Good
<1>2. /\ e \in ConnType /\ e.s = d.s /\ e.open = d.open /\ e.want = d.want /\ e.inEvent = d.inEvent
      /\ e.pause = d.pause /\ e.buf = d.buf /\ e.flush = d.flush /\ e.wait = d.wait
      /\ e.que = d.que /\ e.win = d.win /\ e.init = d.init
      /\ e.total = d.total /\ e.passed = d.passed /\ e.granted = d.granted /\ e.over = d.over
      /\ e.room = 0 /\ e.late = 0
  BY <1>1 DEF ConnType, Quiet
<1>3. Flags(d, e)
  BY <1>2 DEF Flags
<1>4. Good(e) /\ (Awaits(d) => Awaits(e)) /\ (ReadOk(d) => ReadOk(e))
  BY <1>2, <1>3, Rested
<1>5. Calm(e)
  BY <1>2, <1>4 DEF Calm
<1> QED
  BY <1>2, <1>4, <1>5 DEF Steady

LEMMA DoneStep ==
    ASSUME NEW d, Good(d), d.inEvent = FALSE, d.open => Awaits(d), NEW e, e = Done(d)
    PROVE  Steady(e)
<1>1. d \in ConnType
  BY DEF Good
<1>2. PICK f : f = Quiet(d)
  OBVIOUS
<1>3. f \in ConnType /\ f.inEvent = FALSE
  BY <1>1, <1>2 DEF ConnType, Quiet
<1>4. Steady(f)
  BY <1>2, QuietStep DEF Calm
<1>5. e = [f EXCEPT !.wait = FALSE, !.pending = FALSE]
  BY <1>2 DEF Done
<1>6. /\ e \in ConnType /\ e.s = f.s /\ e.open = f.open /\ e.want = f.want /\ e.inEvent = FALSE
      /\ e.pause = f.pause /\ e.buf = f.buf
      /\ e.que = f.que /\ e.win = f.win /\ e.init = f.init
      /\ e.total = f.total /\ e.passed = f.passed /\ e.granted = f.granted /\ e.over = f.over
      /\ e.room = f.room /\ e.late = f.late
  BY <1>3, <1>5 DEF ConnType
<1>7. Flags(f, e)
  BY <1>6 DEF Flags
<1>8. Good(f) /\ f.room = 0 /\ f.late = 0 /\ (f.open => Awaits(f))
  BY <1>3, <1>4 DEF Steady, Calm
<1>9. Good(e) /\ (Awaits(f) => Awaits(e))
  BY <1>3, <1>6, <1>7, <1>8, Rested
<1>10. Calm(e)
  BY <1>6, <1>8, <1>9 DEF Calm
<1> QED
  BY <1>6, <1>8, <1>9, <1>10 DEF Steady

\* A read event begins.
LEMMA StartStep ==
    ASSUME NEW d, Steady(d), d.open, d.inEvent = FALSE, NEW e, e = [d EXCEPT !.inEvent = TRUE]
    PROVE  Steady(e)
<1>1. d \in ConnType /\ Good(d) /\ Awaits(d) /\ d.room = 0 /\ d.late = 0
  BY DEF Steady, Good, Calm
<1>2. /\ e \in ConnType /\ e.s = d.s /\ e.open = d.open /\ e.want = d.want /\ e.inEvent = TRUE
      /\ e.pause = d.pause /\ e.buf = d.buf /\ e.flush = d.flush /\ e.wait = d.wait
      /\ e.que = d.que /\ e.win = d.win /\ e.init = d.init
      /\ e.total = d.total /\ e.passed = d.passed /\ e.granted = d.granted /\ e.over = d.over
      /\ e.room = d.room /\ e.late = d.late
  BY <1>1, ZenonT(60) DEF ConnType
<1>3. Flags(d, e)
  BY <1>2 DEF Flags
<1>4. Good(e) /\ (Waiting(d) <=> Waiting(e)) /\ (NoneReady(d) <=> NoneReady(e))
  BY <1>1, <1>3, FlagsGood
<1>5. ReadOk(e)
  BY <1>1, <1>2, <1>4 DEF Awaits, NowOk, Still, ReadOk, LinkOk
<1> QED
  BY <1>1, <1>2, <1>4, <1>5 DEF Steady, Calm

\* what a frame does to the connection b that it finds
Framed(b, f) ==
    \/ f = DoGoAway(b)
    \/ Good(f) /\ f.inEvent /\ f.open = b.open /\ (ReadOk(b) => ReadOk(f))

LEMMA FrameStep ==
    ASSUME NEW b, Good(b), ReadOk(b), NEW f, Framed(b, f), NEW e, e = Quiet(f)
    PROVE  Steady(e)
<1>1. CASE f = DoGoAway(b)
  <2>1. b \in ConnType
    BY DEF Good
  <2>2. Good(f) /\ f.open = FALSE
    BY <1>1, <2>1, GoAwayStep
  <2> QED
    BY <2>2, QuietStep DEF Calm
<1>2. CASE Good(f) /\ f.inEvent /\ f.open = b.open /\ (ReadOk(b) => ReadOk(f))
  BY <1>2, QuietStep DEF Calm
<1> QED
  BY <1>1, <1>2 DEF Framed

\* A backend has data.
Arrived(d, s) == [d EXCEPT !.s[s].toCome = @ - 1, !.s[s].ready = @ + 1]
AskForRest(e, s) == IF e.s[s].ready > 0 THEN WantWrite(e, s) ELSE e

LEMMA ProduceStep ==
    ASSUME NEW d, Good(d), d.inEvent = FALSE, NEW s \in Streams, d.s[s].state = "connected",
           d.s[s].toCome > 0,
           NEW f, f = Arrived(d, s), NEW g, g = Write(f, s), NEW e, e = AskForRest(g, s)
    PROVE  Good(e) /\ e.inEvent = FALSE /\ e.open = d.open /\ (Awaits(d) => Awaits(e))
<1>1. d \in ConnType /\ Fits(d) /\ Clean(d)
  BY DEF Good
<1>2. PICK x \in StreamType : x = d.s[s]
  BY <1>1, QueueTypes
<1>3. x.ready \in 0 .. RespSize /\ x.toCome \in 0 .. RespSize /\ StreamFits(d.init, d.over, x)
      /\ x.state = "connected"
  BY <1>1, <1>2 DEF StreamType, Fits
<1>4. PICK m, n : m = x.toCome - 1 /\ n = x.ready + 1
  OBVIOUS
<1>5. m \in 0 .. RespSize /\ n \in 0 .. RespSize /\ n + m <= RespSize
  BY <1>2, <1>3, <1>4, Sizes DEF StreamFits
<1>6. PICK y : y = [x EXCEPT !.toCome = m, !.ready = n]
  OBVIOUS
<1>7. /\ y \in StreamType /\ y.state = x.state /\ y.pri = x.pri /\ y.win = x.win
      /\ y.ready = n /\ y.toCome = m /\ y.want = x.want /\ y.pause = x.pause
      /\ y.sent = x.sent /\ y.granted = x.granted
  BY <1>5, <1>6 DEF StreamType
<1>8. f = [d EXCEPT !.s[s] = y]
  BY <1>1, <1>2, <1>4, <1>6 DEF Arrived, ConnType, StreamType
<1>9. Sets(d, f, s, y)
  BY <1>1, <1>7, <1>8, SetStream
<1>10. StreamFits(d.init, d.over, y)
  BY <1>3, <1>5, <1>7 DEF StreamFits
<1>11. Fits(f) /\ Clean(f) /\ Touches(d, f, s)
  <2>1. y.state \in LiveStates
    BY <1>3, <1>7 DEF LiveStates
  <2> QED
    BY <1>1, <1>2, <1>7, <1>9, <1>10, <2>1, SetsGood, SetsTouches
<1>12. f \in ConnType /\ f.s[s] = y /\ f.win = d.win /\ f.que = d.que /\ f.inEvent = FALSE
       /\ f.open = d.open
  BY <1>9 DEF Sets
<1>13. Good(f) /\ f.s[s].state \in LiveStates
  BY <1>3, <1>7, <1>11, <1>12 DEF Good, LiveStates
<1>14. Wrote(f, g, s) /\ Good(g) /\ g.s[s].state \in {"connected", "shutdown"}
       /\ g \in ConnType /\ Clean(g)
  <2>1. Wrote(f, g, s)
    BY <1>13, WriteStep
  <2> QED
    BY <1>3, <1>7, <1>12, <2>1 DEF Wrote, Good
<1>15. Wrote(g, e, s) /\ (e.s[s].ready > 0 => e.s[s].want) /\ (g.s[s].ready = 0 => e = g)
  <2>1. CASE g.s[s].ready > 0 /\ ~g.s[s].want
    <3>1. e = StreamContinueWrite(g, s)
      BY <2>1 DEF AskForRest, WantWrite
    <3>2. g.s[s].state \in LiveStates
      BY <1>14 DEF LiveStates
    <3>3. PICK b : b = g.s[s].pause
      OBVIOUS
    <3>4. Asks(g, e, s, b)
      BY <1>14, <3>1, <3>2, <3>3, ContStep
    <3> QED
      BY <1>14, <2>1, <3>4, AskWrote
  <2>2. CASE ~(g.s[s].ready > 0 /\ ~g.s[s].want)
    <3>1. e = g
      BY <2>2 DEF AskForRest, WantWrite
    <3> QED
      BY <1>14, <2>2, <3>1, FlagSteps, OutputWrote
  <2> QED
    BY <2>1, <2>2
<1>16. Wrote(f, e, s)
  BY <1>13, <1>14, <1>15, WroteTrans
<1>17. /\ Good(e) /\ Touches(f, e, s) /\ e.win <= d.win /\ e.s[s].state \in {"connected", "shutdown"}
       /\ e.s[s].win <= x.win
  <2>1. /\ Good(e) /\ Touches(f, e, s) /\ e.win <= f.win /\ e.s[s].state \in {f.s[s].state, "shutdown"}
        /\ e.s[s].win <= f.s[s].win
    BY <1>16 DEF Wrote
  <2>2. f.win = d.win /\ f.s[s].state = "connected" /\ f.s[s].win = x.win
    BY <1>3, <1>7, <1>12
  <2> QED
    BY <2>1, <2>2
<1>18. Touches(d, e, s) /\ Link(d, f) /\ Link(d, e)
  <2>1. Touches(d, e, s)
    BY <1>1, <1>11, <1>17, TouchesTrans
  <2> QED
    BY <1>11, <2>1 DEF Touches
<1>19. /\ e.inEvent = FALSE /\ e.open = d.open /\ (d.want => e.want) /\ (LinkOk(d) => LinkOk(e))
       /\ (LinkOk(d) => LinkOk(f)) /\ (d.pause => e.pause) /\ \A t \in Streams : t # s => e.s[t] = d.s[t]
  BY <1>18 DEF Touches, Link
<1>20. ASSUME Awaits(d) PROVE Awaits(e)
  <2>1. LinkOk(d) /\ LinkOk(f) /\ Waiting(d) /\ Eager(x) /\ (Ready(x) => In(d, s))
    BY <1>2, <1>19, <1>20 DEF Awaits, NowOk, LinkOk, Waiting
  <2>2. NowOk(e)
    BY <1>19, <2>1 DEF LinkOk, NowOk
  <2>3. d.win \in Int /\ e.win \in Int /\ x.win \in Int /\ e.s[s].win \in Int /\ g.s[s].win \in Int
    <3>1. e \in ConnType
      BY <1>17 DEF Good
    <3>2. d.win \in 0 .. MaxWindow /\ e.win \in 0 .. MaxWindow
      BY <1>1, <3>1 DEF ConnType
    <3> QED
      BY <1>1, <1>2, <1>14, <3>1, <3>2, StreamFields, Sizes
  <2>4. Eager(e.s[s])
    <3>1. e.s[s].ready > 0 => e.s[s].want
      BY <1>15
    <3> QED
      BY <1>17, <3>1 DEF Eager
  \* a stream that is ready now is queued, and will be looked at
  <2>5. ASSUME Ready(e.s[s]) PROVE In(e, s) /\ (Awake(e) \/ Ready(x))
    <3>0. x.win > 0 /\ e.s[s].want
      BY <1>15, <1>17, <2>3, <2>5 DEF Ready
    <3>1. CASE Ready(x)
      <4>1. In(f, s)
        BY <1>12, <2>1, <3>1 DEF In
      <4> QED
        BY <1>16, <3>1, <4>1 DEF Wrote
    <3>2. CASE ~Ready(x)
      <4>1. x.ready = 0 /\ ~(x.want /\ x.pause)
        BY <1>3, <3>0, <3>2, Sizes DEF Ready
      <4>2. CASE ~x.want
        BY <1>7, <1>12, <1>16, <2>1, <3>0, <4>2 DEF Wrote
      <4>3. CASE x.want
        <5>1. x.pause = FALSE
          <6>1. x.pause \in BOOLEAN
            BY <1>2 DEF StreamType
          <6> QED
            BY <4>1, <4>3, <6>1
        <5>2. f.s[s].state = "connected" /\ f.s[s].ready = 1 /\ f.s[s].pause = FALSE
          BY <1>3, <1>4, <1>7, <1>12, <4>1, <5>1
        <5>3. Settled(f, g, s)
          BY <1>13, <5>2, OneUnitWrite
        <5>4. CASE ~Ready(g.s[s])
          <6>1. g.s[s].state = "connected" /\ g.s[s].win > 0
            <7>1. e.s[s].state \in {g.s[s].state, "shutdown"} /\ e.s[s].win <= g.s[s].win
              BY <1>15 DEF Wrote
            <7>2. e.s[s].state = "connected" /\ e.s[s].win > 0
              BY <1>17, <2>5 DEF Ready
            <7> QED
              BY <2>3, <7>1, <7>2
          <6>2. g.s[s].ready = 0
            BY <1>14, <5>4, <6>1, StreamFields, Sizes DEF Ready
          <6> QED
            BY <1>15, <2>5, <5>4, <6>2
        <5>5. CASE In(g, s) /\ (LinkOk(f) => Awake(g))
          <6>1. Link(g, e)
            BY <1>15 DEF Wrote, Touches
          <6> QED
            BY <1>15, <2>1, <5>5, <6>1, LinkAwake DEF Wrote
        <5> QED
          BY <5>3, <5>4, <5>5 DEF Settled
      <4> QED
        BY <4>2, <4>3
    <3> QED
      BY <3>1, <3>2
  <2>6. Waiting(e)
    <3> SUFFICES ASSUME NEW t \in Streams PROVE Eager(e.s[t]) /\ (Ready(e.s[t]) => In(e, t))
      BY DEF Waiting
    <3>1. CASE t # s
      BY <1>18, <1>19, <2>1, <3>1 DEF Waiting, Touches, In
    <3> QED
      BY <2>4, <2>5, <3>1
  <2>7. ASSUME e.win > 0, ~e.want, ~e.pause PROVE NoneReady(e)
    <3>1. d.win > 0
      BY <1>17, <2>3, <2>7
    <3>2. NoneReady(d)
      BY <1>19, <1>20, <2>7, <3>1 DEF Awaits, Still
    <3>3. ~Ready(x)
      BY <1>2, <3>2 DEF NoneReady
    <3>4. ~Awake(e)
      BY <1>19, <2>7 DEF Awake
    <3>5. ~Ready(e.s[s])
      BY <2>5, <3>3, <3>4
    <3> QED
      BY <1>19, <3>2, <3>5 DEF NoneReady
  <2> QED
    BY <2>2, <2>6, <2>7 DEF Awaits, Still
<1> QED
  BY <1>17, <1>19, <1>20

\* The timer recycles the streams that are done.
Timed(d, gone) ==
    [d EXCEPT !.que = [p \in Priorities |-> Drop(@[p], gone)],
              !.s = [s \in Streams |-> IF s \in gone THEN RecycleStream(d, s).s[s] ELSE @[s]]]

LEMMA TimerStep ==
    ASSUME NEW d, Steady(d), d.open, d.inEvent = FALSE, NEW gone, gone = {s \in Streams : d.s[s].state = "shutdown"},
           NEW e, e = Timed(d, gone)
    PROVE  Steady(e)
<1>1. d \in ConnType /\ Fits(d) /\ Clean(d) /\ d.que \in [Priorities -> Seq(Streams)]
      /\ d.s \in [Streams -> StreamType]
  BY DEF Steady, Good, ConnType
<1>2. PICK z : z = [FreshStream EXCEPT !.state = "gone"]
  OBVIOUS
<1>3. z \in StreamType /\ z.state = "gone" /\ z.sent = 0 /\ z.granted = 0 /\ z.ready = 0 /\ z.toCome = 0
  <2>1. /\ 0 \in Priorities /\ 0 \in -(MaxWindow + 1) .. MaxWindow /\ 0 \in 0 .. RespSize
    BY Sizes DEF Priorities
  <2> QED
    BY <1>2, <2>1 DEF FreshStream, StreamType
<1>4. \A s \in Streams : RecycleStream(d, s).s[s] = z
  BY <1>1, <1>2 DEF RecycleStream, ConnType
<1>5. PICK y : y = [s \in Streams |-> IF s \in gone THEN z ELSE d.s[s]]
  OBVIOUS
<1>6. PICK q : q = [p \in Priorities |-> Drop(d.que[p], gone)]
  OBVIOUS
<1>7. e = [d EXCEPT !.que = q, !.s = y]
  BY <1>1, <1>4, <1>5, <1>6 DEF Timed, ConnType
<1>8. \A p \in Priorities : /\ q[p] \in Seq(Streams)
                            /\ \A x : Has(q[p], x) <=> Has(d.que[p], x) /\ x \notin gone
                            /\ Once(d.que[p]) => Once(q[p])
  BY <1>1, <1>6, DropWorks
<1>9. q \in [Priorities -> Seq(Streams)] /\ y \in [Streams -> StreamType]
  <2>1. q \in [Priorities -> Seq(Streams)]
    BY <1>6, <1>8
  <2>2. y \in [Streams -> StreamType]
    BY <1>1, <1>3, <1>5
  <2> QED
    BY <2>1, <2>2
<1>10. /\ e \in ConnType /\ e.s = y /\ e.que = q /\ e.win = d.win /\ e.init = d.init
       /\ e.total = d.total /\ e.passed = d.passed /\ e.granted = d.granted /\ e.over = d.over /\ e.open = d.open
       /\ e.want = d.want /\ e.pause = d.pause /\ e.buf = d.buf
       /\ e.room = d.room /\ e.late = d.late /\ e.inEvent = d.inEvent
  BY <1>1, <1>7, <1>9 DEF ConnType
<1>11. \A s \in Streams : e.s[s] = IF s \in gone THEN z ELSE d.s[s]
  BY <1>5, <1>10
<1>12. StreamFits(d.init, d.over, z)
  BY <1>3, Sizes DEF StreamFits, LiveStates
<1>13. Fits(e)
  BY <1>1, <1>10, <1>11, <1>12 DEF Fits
<1>14. Clean(e)
  <2>1. \A p \in Priorities : Once(e.que[p])
    BY <1>1, <1>8, <1>10 DEF Clean
  <2>2. ASSUME NEW p \in Priorities, NEW t \in Streams, Has(e.que[p], t)
        PROVE  e.s[t].state \in LiveStates /\ e.s[t].pri = p
    <3>1. Has(d.que[p], t) /\ t \notin gone
      BY <1>8, <1>10, <2>2
    <3> QED
      BY <1>1, <1>11, <3>1 DEF Clean
  <2> QED
    BY <2>1, <2>2 DEF Clean
<1>15. Good(e) /\ e.room = 0 /\ e.late = 0 /\ e.inEvent = FALSE
  BY <1>10, <1>13, <1>14 DEF Steady, Good
<1>16. Eager(z) /\ ~Ready(z)
  BY <1>3 DEF Eager, Ready
<1>17. Awaits(d)
  BY DEF Steady, Calm
<1>18. Awaits(e)
  <2>1. NowOk(e)
    BY <1>10, <1>17 DEF Awaits, NowOk
  <2>2. Waiting(e)
    <3> SUFFICES ASSUME NEW t \in Streams PROVE Eager(e.s[t]) /\ (Ready(e.s[t]) => In(e, t))
      BY DEF Waiting
    <3>1. CASE t \in gone
      BY <1>11, <1>16, <3>1
    <3>2. CASE t \notin gone
      BY <1>8, <1>10, <1>11, <1>17, <3>2 DEF Awaits, Waiting, In
    <3> QED
      BY <3>1, <3>2
  <2>3. NoneReady(d) => NoneReady(e)
    BY <1>11, <1>16 DEF NoneReady
  <2> QED
    BY <1>10, <1>17, <2>1, <2>2, <2>3 DEF Awaits, Still
<1> QED
  BY <1>15, <1>18 DEF Steady, Calm

-----------------------------------------------------------------------------
(***************************************************************************)
(* The events.                                                             *)
(***************************************************************************)

\* A frame of the client.
LEMMA ClientStep ==
    ASSUME Steady(c), Client
    PROVE  Steady(c')
<1>1. PICK b, e : b = c /\ e = c'
  OBVIOUS
<1>2. ASSUME NEW d, Good(d), ReadOk(d), NEW f, Framed(d, f), e = Quiet(f) PROVE Steady(e)
  BY <1>2, FrameStep
<1>3. b.open /\ b.inEvent => Good(b) /\ ReadOk(b)
  BY <1>1 DEF Steady, Calm
<1>4. ASSUME NEW f, Frame(f) PROVE Good(b) /\ ReadOk(b) /\ b.inEvent /\ e = Quiet(f)
  BY <1>1, <1>3, <1>4 DEF Frame
<1>5. \A s \in Streams : Live(b, s) => b.s[s].state \in LiveStates
  BY DEF Live, LiveStates
<1>6. ASSUME NEW s \in Streams, NEW pri \in Priorities, NEW resp \in {"now", "later"},
             Headers(s, pri, resp)
      PROVE  Steady(e)
  <2>1. PICK f : f = DecodeHeaders(b, s, pri, resp)
    OBVIOUS
  <2>2. Frame(f)
    BY <1>1, <1>6, <2>1 DEF Headers
  <2>3. Good(b) /\ ReadOk(b) /\ b.inEvent /\ e = Quiet(f)
    BY <1>4, <2>2
  <2>4. b.s[s].state = "none"
    <3>1. ~(s < s)
      BY Sizes DEF Streams
    <3> QED
      BY <1>1, <1>6, <3>1 DEF Headers
  <2>5. Framed(b, f)
    BY <2>1, <2>3, <2>4, HeadersFrame DEF Framed
  <2> QED
    BY <1>2, <2>3, <2>5
<1>7. ASSUME NEW delta \in 0 .. MaxDelta, NEW k \in Socket, WindowUpdate0(delta, k) PROVE Steady(e)
  <2>1. PICK a, f : a = At(k) /\ f = ConnWindowUpdate(a, delta)
    OBVIOUS
  <2>2. Frame(f)
    BY <1>7, <2>1 DEF WindowUpdate0
  <2>3. Good(b) /\ ReadOk(b) /\ b.inEvent /\ e = Quiet(f)
    BY <1>4, <2>2
  <2>4. Good(a) /\ ReadOk(a) /\ a.inEvent
    <3>1. Opens(b, a, k)
      BY <1>1, <2>1 DEF At, Opens
    <3> QED
      BY <2>3, <3>1, AtStep
  <2>5. Framed(a, f)
    BY <2>1, <2>4, WindowFrame DEF Framed
  <2> QED
    BY <1>2, <2>3, <2>4, <2>5
<1>8. ASSUME NEW s \in Streams, NEW delta \in 0 .. MaxDelta, WindowUpdate(s, delta) PROVE Steady(e)
  <2>1. PICK f : f = StreamWindowUpdate(b, s, delta)
    OBVIOUS
  <2>2. Frame(f) /\ b.s[s].state \in LiveStates
    BY <1>1, <1>5, <1>8, <2>1 DEF WindowUpdate
  <2>3. Good(b) /\ ReadOk(b) /\ b.inEvent /\ e = Quiet(f)
    BY <1>4, <2>2
  <2>4. Framed(b, f)
    BY <2>1, <2>2, <2>3, StreamWindowFrame DEF Framed
  <2> QED
    BY <1>2, <2>3, <2>4
<1>9. ASSUME NEW vs \in Entries, Settings(vs) PROVE Steady(e)
  <2>1. PICK f : f = ProcessSettingFrame(b, vs)
    OBVIOUS
  <2>2. Frame(f)
    BY <1>1, <1>9, <2>1 DEF Settings
  <2>3. Good(b) /\ ReadOk(b) /\ b.inEvent /\ e = Quiet(f)
    BY <1>4, <2>2
  <2>4. Framed(b, f)
    BY <2>1, <2>3, SettingsFrame DEF Framed
  <2> QED
    BY <1>2, <2>3, <2>4
<1>10. ASSUME NEW s \in Streams, RstStream(s) PROVE Steady(e)
  <2>1. PICK f : f = RecycleStream(b, s)
    OBVIOUS
  <2>2. Frame(f)
    BY <1>1, <1>10, <2>1 DEF RstStream
  <2>3. Good(b) /\ ReadOk(b) /\ b.inEvent /\ e = Quiet(f)
    BY <1>4, <2>2
  <2>4. Framed(b, f)
    BY <2>1, <2>3, RstFrame DEF Framed
  <2> QED
    BY <1>2, <2>3, <2>4
<1>11. ASSUME NEW s \in Streams, NEW pri \in Priorities, Priority(s, pri) PROVE Steady(e)
  <2>1. PICK f : f = ProcessPriority(b, s, pri)
    OBVIOUS
  <2>2. Frame(f) /\ b.s[s].state \in LiveStates
    BY <1>1, <1>5, <1>11, <2>1 DEF Priority
  <2>3. Good(b) /\ ReadOk(b) /\ b.inEvent /\ e = Quiet(f)
    BY <1>4, <2>2
  <2>4. Framed(b, f)
    BY <2>1, <2>2, <2>3, PriorityFrame DEF Framed
  <2> QED
    BY <1>2, <2>3, <2>4
<1> QED
  BY <1>1, <1>6, <1>7, <1>8, <1>9, <1>10, <1>11 DEF Client

\* Every step keeps the connection steady.
LEMMA NextStep ==
    ASSUME Steady(c), [Next]_vars
    PROVE  Steady(c')
<1>1. PICK d, e : d = c /\ e = c'
  OBVIOUS
<1>2. Good(d) /\ (d.open /\ ~d.inEvent => Awaits(d)) /\ (d.open /\ d.inEvent => ReadOk(d))
      /\ Steady(d) /\ d.inEvent \in BOOLEAN
  BY <1>1 DEF Steady, Calm, Good, ConnType
<1>3. CASE ReadStart
  <2>1. d.open /\ d.inEvent = FALSE /\ e = [d EXCEPT !.inEvent = TRUE]
    BY <1>1, <1>2, <1>3 DEF ReadStart
  <2> QED
    BY <1>1, <1>2, <2>1, StartStep
<1>4. CASE Client
  BY <1>4, ClientStep
<1>5. CASE Timer
  <2>0. d.open /\ d.inEvent = FALSE
    BY <1>1, <1>2, <1>5 DEF Timer
  <2>1. CASE e = DoGoAway(d)
    <3>1. d \in ConnType
      BY <1>2 DEF Good
    <3>2. Steady(e)
      BY <2>1, <3>1, GoAwayStep DEF Steady, Calm
    <3> QED
      BY <1>1, <3>2
  <2>2. CASE e # DoGoAway(d)
    <3>1. PICK gone : gone = {s \in Streams : d.s[s].state = "shutdown"}
      OBVIOUS
    <3>2. e = Timed(d, gone)
      BY <1>1, <1>5, <2>2, <3>1 DEF Timer, Timed
    <3> QED
      BY <1>1, <1>2, <2>0, <3>1, <3>2, TimerStep
  <2> QED
    BY <2>1, <2>2
<1>6. ASSUME NEW k \in Socket, ReadEnd(k) PROVE Steady(c')
  <2>1. PICK a, f : a = At(k) /\ f = AfterRead(a)
    OBVIOUS
  <2>2. d.open /\ d.inEvent /\ e = Done(f)
    BY <1>1, <1>6, <2>1 DEF ReadEnd
  <2>3. Opens(d, a, k)
    BY <1>1, <2>1 DEF At, Opens
  <2>4. Good(a) /\ a.inEvent /\ ReadOk(a)
    BY <1>2, <2>2, <2>3, AtStep
  <2>5. Good(f) /\ f.inEvent = FALSE /\ Awaits(f)
    BY <2>1, <2>4, AfterReadStep
  <2> QED
    BY <1>1, <2>2, <2>5, DoneStep
<1>7. ASSUME NEW k \in Socket, Writable(k) PROVE Steady(c')
  <2>1. PICK a, f : a = At(k) /\ f = OnWriteEx(a)
    OBVIOUS
  <2>2. d.open /\ ~d.inEvent /\ d.want /\ e = Done(f)
    BY <1>1, <1>7, <2>1 DEF Writable
  <2>3. Opens(d, a, k)
    BY <1>1, <2>1 DEF At, Opens
  <2>4. Good(a) /\ a.want /\ Waiting(a)
    BY <1>2, <2>2, <2>3, AtStep DEF Awaits
  <2>5. Good(f) /\ f.inEvent = FALSE /\ Awaits(f)
    BY <2>1, <2>4, OnWriteExStep
  <2> QED
    BY <1>1, <2>2, <2>5, DoneStep
<1>8. ASSUME NEW k \in Socket, NEW s \in Streams, Produce(s, k) PROVE Steady(c')
  <2>1. PICK a, f : a = At(k) /\ f = Arrived(a, s)
    OBVIOUS
  <2>2. PICK g : g = Write(f, s)
    OBVIOUS
  <2>3. PICK h : h = AskForRest(g, s)
    OBVIOUS
  <2>4. d.open /\ ~d.inEvent /\ d.s[s].state = "connected" /\ d.s[s].toCome > 0
    BY <1>1, <1>8 DEF Produce
  <2>5. Good(a) /\ a.inEvent = FALSE /\ a.s = d.s /\ Awaits(a)
    <3>1. Opens(d, a, k)
      BY <1>1, <2>1 DEF At, Opens
    <3> QED
      BY <1>2, <2>4, <3>1, AtStep
  <2>6. e = Done(h)
    <3>1. c' = Done(AskForRest(Write(Arrived(At(k), s), s), s))
      BY <1>8 DEF Produce, Arrived, AskForRest
    <3> QED
      BY <1>1, <2>1, <2>2, <2>3, <3>1
  <2>7. Good(h) /\ h.inEvent = FALSE /\ Awaits(h)
    BY <2>1, <2>2, <2>3, <2>4, <2>5, ProduceStep
  <2> QED
    BY <1>1, <2>6, <2>7, DoneStep
<1>9. CASE UNCHANGED vars
  BY <1>9 DEF vars
<1> QED
  BY <1>3, <1>4, <1>5, <1>6, <1>7, <1>8, <1>9 DEF Next

LEMMA SteadyTypes ==
    ASSUME Steady(c)
    PROVE  TypeOK /\ WindowExact /\ WithinWindows /\ QueueClean
<1>1. c \in ConnType /\ Fits(c) /\ Clean(c) /\ c.room = 0 /\ c.late = 0
  BY DEF Steady, Good
<1>2. ASSUME NEW s \in Streams PROVE StreamOK(c.s[s])
  BY <1>1, StreamFields DEF StreamOK
<1>3. TypeOK
  <2>1. /\ c.win \in 0 .. MaxWindow /\ c.init \in 0 .. MaxWindow
        /\ c.que \in [Priorities -> Seq(Streams)] /\ c.buf \in 0 .. FullSize + MaxFrame
    BY <1>1 DEF ConnType
  <2> QED
    BY <1>1, <1>2, <2>1 DEF TypeOK
<1>4. WindowExact
  BY <1>1 DEF Fits, StreamFits, LiveStates, WindowExact, Live
<1>5. WithinWindows
  BY <1>1 DEF Fits, WithinWindows
<1>6. QueueClean
  <2>1. ASSUME NEW s \in Streams, Queued(c, s) PROVE Live(c, s)
    BY <1>1, <2>1 DEF Queued, Live, Clean, Has, LiveStates
  <2>2. ASSUME NEW p \in Priorities, NEW i \in 1 .. Len(c.que[p])
        PROVE  /\ c.s[c.que[p][i]].pri = p
               /\ \A j \in 1 .. Len(c.que[p]) : c.que[p][i] = c.que[p][j] => i = j
    <3>1. c.que[p] \in Seq(Streams)
      BY <1>1 DEF ConnType
    <3>2. c.que[p][i] \in Streams
      BY <3>1
    <3>3. Has(c.que[p], c.que[p][i])
      BY DEF Has
    <3> QED
      BY <1>1, <3>2, <3>3 DEF Clean, Once
  <2> QED
    BY <2>1, <2>2 DEF QueueClean
<1> QED
  BY <1>3, <1>4, <1>5, <1>6

-----------------------------------------------------------------------------
(***************************************************************************)
(* The theorems.                                                           *)
(***************************************************************************)

\* The inductive invariant: the connection is good (its fields have their types, the windows
\* are the client's, the queues are clean), and its wakeups are safe, during a read event and
\* between events.
THEOREM SteadyAlways == Spec => []Steady(c)
<1>1. Init => Steady(c)
  <2>1. Fresh.room = 0 /\ Fresh.late = 0 /\ Fresh.inEvent = FALSE
    BY DEF Fresh
  <2> QED
    BY <2>1, FreshGood DEF Init, Steady, Calm
<1>2. Steady(c) /\ [Next]_vars => Steady(c)'
  BY NextStep
<1> QED
  BY <1>1, <1>2, PTL DEF Spec

\* The fields of H2ConnBase and of its streams keep their types whatever frames, write
\* events, backends and timers do: m_iWindowOut never leaves an int32_t, and the buffer never
\* holds more than a frame above its limit.
THEOREM H2TypesHold == Spec => []TypeOK
<1>1. Steady(c) => TypeOK
  BY SteadyTypes
<1> QED
  BY <1>1, SteadyAlways, PTL

\* m_iCurDataOutWindow and every m_iWindowOut are what the client computes, for every number
\* of streams and every order of DATA, WINDOW_UPDATE and SETTINGS frames, those with several
\* values included, until processSettingFrame() overwrites windowsSizeDiff and loses one: from
\* then on it is the connection's window only.
THEOREM WindowsExact == Spec => []WindowExact
<1>1. Steady(c) => WindowExact
  BY SteadyTypes
<1> QED
  BY <1>1, SteadyAlways, PTL

\* sendDataFrame() never gets a frame larger than what the client has left of the connection's
\* window and, unless SETTINGS lost a difference before, of the stream's: the cap of
\* getDataFrameSize() is enough for every size of frames and windows.
THEOREM NothingBeyondWindows == Spec => []WithinWindows
<1>1. Steady(c) => WithinWindows
  BY SteadyTypes
<1> QED
  BY <1>1, SteadyAlways, PTL

\* The priority queues of H2ConnBase hold live streams only, each once and in the queue of
\* its priority: recycleStream(), add2PriorityQue() and processQueue() never leave one behind.
THEOREM QueuesClean == Spec => []QueueClean
<1>1. Steady(c) => QueueClean
  BY SteadyTypes
<1> QED
  BY <1>1, SteadyAlways, PTL

\* No wakeup is lost, however much the socket takes and when: between events a stream that
\* could send is queued, buffered output is polled for, and so is what waits in the queues,
\* but for the link that onWriteEx() left paused with all its output gone.
THEOREM WakeupsKept == Spec => []NoLostWakeup
<1>1. Steady(c) => NoLostWakeup
  <2> SUFFICES ASSUME Steady(c), ~c.inEvent PROVE NoLostWakeup
    BY DEF NoLostWakeup
  <2>1. c.open => Awaits(c)
    BY DEF Steady, Calm
  <2>2. c.buf \in Nat
    BY BufNat DEF Steady, Good
  <2>3. ASSUME NEW s \in Streams, Sendable(s) PROVE Queued(c, s) /\ (c.want \/ Stranded)
    <3>1. Awaits(c) /\ c.win > 0 /\ Ready(c.s[s])
      BY <2>1, <2>3 DEF Sendable, Ready
    <3>2. In(c, s)
      BY <3>1 DEF Awaits, Waiting
    <3>3. ~NoneReady(c)
      BY <3>1 DEF NoneReady
    <3>4. c.want \/ c.pause
      BY <3>1, <3>3 DEF Awaits, Still
    <3>5. ~c.want => c.buf = 0
      BY <2>2, <3>1 DEF Awaits, NowOk
    <3> QED
      BY <3>2, <3>4, <3>5 DEF In, Has, Queued, Stranded
  <2>4. c.open /\ c.buf > 0 => c.want
    BY <2>1 DEF Awaits, NowOk
  <2> QED
    BY <2>3, <2>4 DEF NoLostWakeup
<1> QED
  BY <1>1, SteadyAlways, PTL
=============================================================================
