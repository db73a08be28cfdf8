---------------------------- MODULE LfQueueProofs ----------------------------
(***************************************************************************)
(* Proofs about LfQueue, for any number of threads and nodes.              *)
(*                                                                         *)
(* LfTypes and AtNode hold always.  LfInv holds until a node is put again  *)
(* while another get looks at it; a sole consumer never sees that happen.  *)
(* The queue is a chain of places: the base, then the nodes of items.  The *)
(* base is tail itself or, while a get that took the last node has not yet *)
(* repaired phead or tail, that node.  Between two places there is a link  *)
(* or a put that is about to store it.                                     *)
(***************************************************************************)
EXTENDS LfQueue, Iteration, FiniteSetTheorems, SequenceTheorems

USE LfAssumption

-----------------------------------------------------------------------------
(***************************************************************************)
(* The inductive invariant.                                                *)
(***************************************************************************)

LfTypes ==
    /\ next \in [Nodes \cup {TAIL} -> Nodes \cup {NULL}]
    /\ seq \in Nat /\ phead \in Nodes \cup {TAIL}
    /\ pc \in [Threads -> PutterAt \cup GetterAt]
    /\ \A t \in Putters : pc[t] \in PutterAt
    /\ \A t \in Getters : pc[t] \in GetterAt
    /\ data \in [Putters -> (Nodes \cup {NULL}) \X (Nodes \cup {NULL})]
    /\ \A t \in Putters : pc[t] \in {"xchg", "link"} => data[t] \in Nodes \X Nodes
    /\ prev \in [Putters -> Nodes \cup {TAIL, NULL}]
    /\ tail \in [Getters -> [ptr : Nodes \cup {NULL}, seq : Nat]]
    /\ xchg \in [Getters -> Nodes \cup {NULL}]
    /\ free \subseteq Nodes /\ puts \in 0 .. MaxPuts
    /\ items \in Seq(Nodes) /\ got \in [Getters -> Nodes \cup {NULL}]

\* the gets that have emptied tail and not yet repaired it
Takers == {t \in Getters : pc[t] \in {"cashead", "spin", "store"}}

Base == IF Takers = {} THEN TAIL ELSE tail[CHOOSE t \in Takers : TRUE].ptr

Place(i) == IF i = 0 THEN Base ELSE items[i]

\* There is at most one of them, and tail is NULL meanwhile.
OneTaker ==
    \A t \in Takers :
        /\ Takers = {t}
        /\ next[TAIL] = NULL
        /\ tail[t].ptr \in Nodes \ free

\* No node is in two places of the queue, and phead is the last of them.
Places ==
    /\ \A i, j \in 0 .. Len(items) : Place(i) = Place(j) => i = j
    /\ \A i \in 1 .. Len(items) : items[i] \notin free
    /\ phead = Place(Len(items))

\* put t is about to store the link behind place i
Gap(t, i) == pc[t] = "link" /\ prev[t] = Place(i) /\ data[t][1] = items[i + 1]

Links ==
    /\ next[Place(Len(items))] = NULL
    /\ \A i \in 0 .. Len(items) - 1 :
          \/ next[Place(i)] = items[i + 1]
          \/ next[Place(i)] = NULL /\ \E t \in Putters : Gap(t, i)

\* Every put that is about to store a link has a place of its own to store it in.
Gaps ==
    /\ \A t \in Putters : pc[t] = "link" =>
          \E i \in 0 .. Len(items) - 1 : Gap(t, i) /\ next[Place(i)] = NULL
    /\ \A t, u \in Putters : pc[t] = "link" /\ pc[u] = "link" /\ prev[t] = prev[u] => t = u

Carries(t, n) == pc[t] = "xchg" /\ (n = data[t][1] \/ n = data[t][2])

\* The nodes that a put has taken and not yet put are its own, and linked.
Carried ==
    /\ \A t \in Putters : pc[t] = "xchg" =>
          /\ data[t] \in Nodes \X Nodes
          /\ next[data[t][2]] = NULL
          /\ data[t][1] # data[t][2] => next[data[t][1]] = data[t][2]
    /\ \A t \in Putters, n \in Nodes : Carries(t, n) =>
          /\ n \notin free
          /\ \A i \in 0 .. Len(items) : Place(i) # n
          /\ \A u \in Putters : Carries(u, n) => u = t

\* A get that has seen a node in tail has it, and a put that is to link knows where.
AtNode ==
    /\ \A t \in Getters :
          pc[t] \in {"next", "dcas", "head", "dcas0", "cashead", "spin", "store"}
              => tail[t].ptr \in Nodes
    /\ \A t \in Putters : pc[t] = "link" => prev[t] \in Nodes \cup {TAIL}

Typed == LfTypes /\ AtNode /\ reused \in BOOLEAN

\* What a get has read of the node it looks at is still so.
Looking ==
    \A t \in Getters :
        /\ pc[t] \in {"next", "dcas", "head", "dcas0", "cashead", "spin", "store"}
               => tail[t].ptr \in Nodes
        /\ pc[t] = "next" => next[tail[t].ptr] # NULL
        /\ pc[t] \in {"dcas", "store"} => xchg[t] # NULL /\ next[tail[t].ptr] = xchg[t]

LfInv == LfTypes /\ OneTaker /\ Places /\ Links /\ Gaps /\ Carried /\ Looking

\* Nodes that were taken were put before, two at most by a call.
Carrying == {t \in Putters : pc[t] = "xchg"}
Counted ==
    /\ IsFiniteSet(Carrying)
    /\ seq + Len(items) + 2 * Cardinality(Carrying) <= 2 * puts

-----------------------------------------------------------------------------
(***************************************************************************)
(* Reading the invariant.                                                  *)
(***************************************************************************)

LEMMA BaseIs ==
    /\ Takers = {} => Base = TAIL
    /\ \A t : Takers = {t} => Base = tail[t].ptr
  BY DEF Base

LEMMA PlaceTypes ==
    ASSUME LfInv
    PROVE  /\ Len(items) \in Nat
           /\ \A i \in 1 .. Len(items) : items[i] \in Nodes
           /\ \A i \in 0 .. Len(items) : Place(i) \in (Nodes \cup {TAIL}) \ free
           /\ Base \in Nodes \cup {TAIL}
<1> USE DEF LfInv
<1>1. Len(items) \in Nat /\ \A i \in 1 .. Len(items) : items[i] \in Nodes
  BY DEF LfTypes
<1>2. Base \in (Nodes \cup {TAIL}) \ free
  <2>1. CASE Takers = {}
    BY <2>1, BaseIs DEF LfTypes
  <2>2. CASE Takers # {}
    <3>1. PICK t \in Takers : TRUE
      BY <2>2
    <3>2. Takers = {t} /\ tail[t].ptr \in Nodes \ free
      BY <3>1 DEF OneTaker
    <3> QED
      BY <3>2, BaseIs
  <2> QED
    BY <2>1, <2>2
<1>3. ASSUME NEW i \in 0 .. Len(items) PROVE Place(i) \in (Nodes \cup {TAIL}) \ free
  <2>1. CASE i = 0
    BY <1>2, <2>1 DEF Place
  <2>2. CASE i # 0
    <3>1. i \in 1 .. Len(items)
      BY <1>1, <2>2
    <3> QED
      BY <1>1, <2>2, <3>1 DEF Place, Places
  <2> QED
    BY <2>1, <2>2
<1> QED
  BY <1>1, <1>2, <1>3

\* As long as tail.m_ptr is not NULL it is the oldest node, and nobody repairs it.
LEMMA TailIsFirst ==
    ASSUME LfInv, next[TAIL] # NULL
    PROVE  /\ Takers = {} /\ Base = TAIL
           /\ Len(items) \in Nat \ {0}
           /\ next[TAIL] = items[1]
<1> USE DEF LfInv
<1>1. Takers = {}
  BY DEF OneTaker
<1>2. Base = TAIL /\ Place(0) = TAIL
  BY <1>1, BaseIs DEF Place
<1>3. Len(items) \in Nat /\ Len(items) # 0
  BY <1>2, PlaceTypes DEF Links
<1>4. next[TAIL] = items[1]
  <2>1. 0 \in 0 .. Len(items) - 1
    BY <1>3
  <2>2. next[Place(0)] = items[0 + 1] \/ next[Place(0)] = NULL
    BY <2>1 DEF Links
  <2> QED
    BY <1>2, <2>2
<1> QED
  BY <1>1, <1>2, <1>3, <1>4

LEMMA LfInit == Init => LfInv
<1> SUFFICES ASSUME Init PROVE LfInv
  OBVIOUS
<1>1. LfTypes
  BY DEF Init, LfTypes, NoTail, PutterAt, GetterAt, Threads
<1>2. Takers = {}
  BY DEF Init, Takers, Threads
<1>3. Base = TAIL
  BY <1>2, BaseIs
<1>4. Len(items) = 0 /\ Place(0) = TAIL
  BY <1>3 DEF Init, Place
<1>5. Places /\ Links
  BY <1>4 DEF Init, Places, Links
<1>6. OneTaker
  BY <1>2 DEF OneTaker
<1>7. Gaps /\ Carried /\ Looking
  BY DEF Init, Gaps, Carried, Carries, Looking, Threads
<1> QED
  BY <1>1, <1>5, <1>6, <1>7 DEF LfInv

-----------------------------------------------------------------------------
(***************************************************************************)
(* Steps that leave the chain as it is.                                    *)
(***************************************************************************)

Chained == OneTaker /\ Places /\ Links /\ Gaps /\ Carried

LEMMA BaseKept ==
    ASSUME OneTaker, Takers' = Takers, \A t \in Takers : tail'[t] = tail[t]
    PROVE  Base' = Base
<1>1. CASE Takers = {}
  BY <1>1 DEF Base
<1>2. CASE Takers # {}
  <2>1. PICK t \in Takers : TRUE
    BY <1>2
  <2>2. Takers = {t}
    BY <2>1 DEF OneTaker
  <2> QED
    BY <2>1, <2>2 DEF Base
<1> QED
  BY <1>1, <1>2

LEMMA ChainKept ==
    ASSUME LfInv,
           UNCHANGED <<next, phead, free, items, data, prev>>,
           Takers' = Takers,
           \A t \in Takers : tail'[t] = tail[t],
           \A t \in Putters : /\ pc'[t] = "link" <=> pc[t] = "link"
                              /\ pc'[t] = "xchg" <=> pc[t] = "xchg"
    PROVE  Chained'
<1> USE DEF LfInv
<1>1. Base' = Base
  BY BaseKept
<1>2. \A i : Place(i)' = Place(i)
  BY <1>1 DEF Place
<1>3. OneTaker'
  BY DEF OneTaker
<1>4. Places'
  BY <1>2 DEF Places
<1>5. \A t \in Putters : \A i : Gap(t, i)' <=> Gap(t, i)
  BY <1>2 DEF Gap
<1>6. Links'
  BY <1>2, <1>5 DEF Links
<1>7. Gaps'
  BY <1>2, <1>5 DEF Gaps
<1>8. \A t \in Putters : \A n : Carries(t, n)' <=> Carries(t, n)
  BY DEF Carries
<1>9. Carried'
  BY <1>2, <1>8 DEF Carried
<1> QED
  BY <1>3, <1>4, <1>6, <1>7, <1>9 DEF Chained

\* A get moves from one place to another, neither of which is a repair of tail.
Quiet == GetterAt \ {"cashead", "spin", "store"}

LEMMA GetMoves ==
    ASSUME LfInv, NEW t \in Getters, NEW l \in Quiet,
           pc[t] \in Quiet,
           pc' = [pc EXCEPT ![t] = l],
           UNCHANGED <<next, phead, free, items, data, prev>>,
           \A u \in Getters : u # t => tail'[u] = tail[u]
    PROVE  Chained'
<1> USE DEF LfInv, LfTypes, Quiet, Threads
<1>1. Takers' = Takers /\ \A u \in Takers : tail'[u] = tail[u]
  BY DEF Takers
<1>2. \A u \in Putters : pc'[u] = pc[u]
  OBVIOUS
<1> QED
  BY <1>1, <1>2, ChainKept

LEMMA GetStartStep ==
    ASSUME LfInv, NEW t \in Getters, GetStart(t) PROVE LfInv'
<1> USE DEF GetStart, Goto, queue, locals
<1>1. LfTypes'
  BY DEF LfInv, LfTypes, GetterAt, PutterAt, Threads
<1>2. Chained'
  BY GetMoves DEF Quiet, GetterAt
<1>3. Looking'
  BY DEF LfInv, LfTypes, Looking, Threads
<1> QED
  BY <1>1, <1>2, <1>3 DEF LfInv, Chained

LEMMA GetLoadStep ==
    ASSUME LfInv, NEW t \in Getters, GetLoad(t) PROVE LfInv'
<1> USE DEF GetLoad, Goto, queue, history
<1>0. tail' \in [Getters -> [ptr : Nodes \cup {NULL}, seq : Nat]]
  <2>0. tail[t] \in [ptr : Nodes \cup {NULL}, seq : Nat] /\ next[TAIL] \in Nodes \cup {NULL}
    BY DEF LfInv, LfTypes
  <2>1. [tail[t] EXCEPT !.ptr = next[TAIL]] \in [ptr : Nodes \cup {NULL}, seq : Nat]
    BY <2>0
  <2> QED
    BY <2>1 DEF LfInv, LfTypes
<1>1. LfTypes'
  BY <1>0 DEF LfInv, LfTypes, GetterAt, PutterAt, Threads
<1>2. Chained'
  BY GetMoves DEF LfInv, LfTypes, Quiet, GetterAt
<1>3. Looking'
  BY DEF LfInv, LfTypes, Looking, Threads
<1> QED
  BY <1>1, <1>2, <1>3 DEF LfInv, Chained

LEMMA GetSeqStep ==
    ASSUME LfInv, NEW t \in Getters, GetSeq(t) PROVE LfInv'
<1> USE DEF GetSeq, Goto, queue, history
<1>0. tail' \in [Getters -> [ptr : Nodes \cup {NULL}, seq : Nat]]
  <2>0. tail[t] \in [ptr : Nodes \cup {NULL}, seq : Nat] /\ seq \in Nat
    BY DEF LfInv, LfTypes
  <2>1. [tail[t] EXCEPT !.seq = seq] \in [ptr : Nodes \cup {NULL}, seq : Nat]
    BY <2>0
  <2> QED
    BY <2>1 DEF LfInv, LfTypes
<1>1. LfTypes'
  BY <1>0 DEF LfInv, LfTypes, GetterAt, PutterAt, Threads
<1>2. Chained'
  BY GetMoves DEF LfInv, LfTypes, Quiet, GetterAt
<1>3. Looking'
  BY DEF LfInv, LfTypes, Looking, Threads
<1> QED
  BY <1>1, <1>2, <1>3 DEF LfInv, Chained

LEMMA GetTestStep ==
    ASSUME LfInv, NEW t \in Getters, GetTest(t) PROVE LfInv'
<1> USE DEF queue, history
<1>1. CASE tail[t].ptr = NULL /\ (Return(t, "idle") \/ Return(t, "wait"))
  <2>1. PICK l \in {"idle", "wait"} : Return(t, l)
    BY <1>1
  <2>2. free' = free
    BY <1>1, <2>1 DEF Return
  <2>3. LfTypes'
    BY <2>1, <2>2 DEF GetTest, Return, Goto, NoTail, LfInv, LfTypes, GetterAt, PutterAt, Threads
  <2>4. Chained'
    BY <2>1, <2>2, GetMoves DEF GetTest, Return, Goto, LfInv, LfTypes, Quiet, GetterAt
  <2>5. Looking'
    BY <2>1 DEF GetTest, Return, Goto, LfInv, LfTypes, Looking, Threads
  <2> QED
    BY <2>3, <2>4, <2>5 DEF LfInv, Chained
<1>2. CASE /\ tail[t].ptr # NULL
           /\ Goto(t, IF next[tail[t].ptr] # NULL THEN "next" ELSE "head")
           /\ UNCHANGED <<tail, xchg, free>>
  <2>1. LfTypes'
    BY <1>2 DEF GetTest, Goto, LfInv, LfTypes, GetterAt, PutterAt, Threads
  <2>2. Chained'
    BY <1>2, GetMoves DEF GetTest, Goto, Quiet, GetterAt
  <2>3. tail[t].ptr \in Nodes
    BY <1>2 DEF LfInv, LfTypes
  <2>4. Looking'
    BY <1>2, <2>3 DEF GetTest, Goto, LfInv, LfTypes, Looking, Threads
  <2> QED
    BY <2>1, <2>2, <2>4 DEF LfInv, Chained
<1> QED
  BY <1>1, <1>2 DEF GetTest

LEMMA GetNextStep ==
    ASSUME LfInv, NEW t \in Getters, GetNext(t) PROVE LfInv'
<1> USE DEF GetNext, Goto, queue, history
<1>1. tail[t].ptr \in Nodes /\ next[tail[t].ptr] \in Nodes
  BY DEF LfInv, LfTypes, Looking
<1>2. LfTypes'
  BY <1>1 DEF LfInv, LfTypes, GetterAt, PutterAt, Threads
<1>3. Chained'
  BY GetMoves DEF Quiet, GetterAt
<1>4. Looking'
  BY <1>1 DEF LfInv, LfTypes, Looking, Threads
<1> QED
  BY <1>2, <1>3, <1>4 DEF LfInv, Chained

LEMMA RetryStep ==
    ASSUME LfInv, NEW t \in Getters, pc[t] \in {"dcas", "dcas0"}, Retry(t),
           UNCHANGED <<phead, data, prev, puts>>
    PROVE  LfInv'
<1> USE DEF Retry, Goto, history
<1>1. LfTypes'
  BY DEF LfInv, LfTypes, GetterAt, PutterAt, Threads
<1>2. Chained'
  BY GetMoves DEF LfInv, LfTypes, Quiet, GetterAt
<1>3. Looking'
  BY DEF LfInv, LfTypes, Looking, Threads
<1> QED
  BY <1>1, <1>2, <1>3 DEF LfInv, Chained

LEMMA GetHeadStep ==
    ASSUME LfInv, NEW t \in Getters, GetHead(t) PROVE LfInv'
<1> USE DEF GetHead, Goto, queue, locals, history
<1>1. LfTypes'
  BY DEF LfInv, LfTypes, GetterAt, PutterAt, Threads
<1>2. Chained'
  BY GetMoves DEF Quiet, GetterAt
<1>3. Looking'
  BY DEF LfInv, LfTypes, Looking, Threads
<1> QED
  BY <1>1, <1>2, <1>3 DEF LfInv, Chained

LEMMA GetWaitStep ==
    ASSUME LfInv, NEW t \in Getters, GetWait(t) \/ GetTimeout(t) PROVE LfInv'
<1>1. PICK l \in {"sleep", "load", "idle"} : pc' = [pc EXCEPT ![t] = l]
  BY DEF GetWait, GetTimeout, Goto
<1>2. pc[t] \in {"wait", "sleep"} /\ UNCHANGED <<queue, locals, free, puts, history>>
  BY DEF GetWait, GetTimeout
<1> USE DEF queue, locals, history
<1>3. LfTypes'
  BY <1>1, <1>2 DEF LfInv, LfTypes, GetterAt, PutterAt, Threads
<1>4. Chained'
  BY <1>1, <1>2, GetMoves DEF Quiet, GetterAt
<1>5. Looking'
  BY <1>1, <1>2 DEF LfInv, LfTypes, Looking, Threads
<1> QED
  BY <1>3, <1>4, <1>5 DEF LfInv, Chained

LEMMA PutWakeStep ==
    ASSUME LfInv, NEW t \in Putters, PutWake(t) PROVE LfInv'
<1> USE DEF queue, locals, history
<1>1. /\ pc' \in [Threads -> PutterAt \cup GetterAt]
      /\ \A u \in Putters : u # t => pc'[u] = pc[u]
      /\ pc'[t] = "idle" /\ pc[t] = "wake"
      /\ \A g \in Getters : pc'[g] = pc[g] \/ (pc[g] = "sleep" /\ pc'[g] = "load")
  <2>0. pc[t] = "wake" /\ t \notin Getters /\ "idle" \in PutterAt /\ "load" \in GetterAt
    BY DEF PutWake, PutterAt, GetterAt
  <2>1. CASE pc' = [pc EXCEPT ![t] = "idle"]
    BY <2>0, <2>1 DEF LfInv, LfTypes, Threads
  <2>2. CASE \E g \in Getters : pc[g] = "sleep" /\ pc' = [pc EXCEPT ![t] = "idle", ![g] = "load"]
    <3>1. PICK g \in Getters : pc[g] = "sleep" /\ pc' = [pc EXCEPT ![t] = "idle", ![g] = "load"]
      BY <2>2
    <3> QED
      BY <2>0, <3>1 DEF LfInv, LfTypes, Threads
  <2> QED
    BY <2>1, <2>2 DEF PutWake, Goto
<1>2. UNCHANGED <<queue, locals, free, puts, history>>
  BY DEF PutWake
<1>3. LfTypes'
  BY <1>1, <1>2 DEF LfInv, LfTypes, PutterAt, GetterAt
<1>4. Takers' = Takers
  BY <1>1 DEF Takers
<1>5. Chained'
  BY <1>1, <1>2, <1>4, ChainKept
<1>6. Looking'
  BY <1>1, <1>2 DEF LfInv, Looking
<1> QED
  BY <1>3, <1>5, <1>6 DEF LfInv, Chained

\* The repair of tail is put off: phead has moved on.
LEMMA GoSpinStep ==
    ASSUME LfInv, NEW t \in Getters, pc[t] = "cashead", Goto(t, "spin"),
           UNCHANGED <<phead, tail, xchg, free, next, seq, data, prev, puts, history>>
    PROVE  LfInv'
<1> USE DEF Goto, history
<1>1. LfTypes'
  BY DEF LfInv, LfTypes, GetterAt, PutterAt, Threads
<1>2. Takers' = Takers /\ \A u \in Putters : pc'[u] = pc[u]
  BY DEF LfInv, LfTypes, Takers, Threads
<1>3. Chained'
  BY <1>2, ChainKept
<1>4. Looking'
  BY DEF LfInv, LfTypes, Looking, Threads
<1> QED
  BY <1>1, <1>3, <1>4 DEF LfInv, Chained

-----------------------------------------------------------------------------
(***************************************************************************)
(* put and putn.                                                           *)
(***************************************************************************)

LEMMA PutStartStep ==
    ASSUME LfInv, NEW t \in Putters, NEW n \in Nodes, NEW m \in Nodes,
           PutStart(t, n, m), ~InUse(n), ~InUse(m)
    PROVE  LfInv'
<1> USE DEF history
<1>1. /\ pc[t] = "idle" /\ n \in free /\ m \in free
      /\ pc' = [pc EXCEPT ![t] = "xchg"]
      /\ data' = [data EXCEPT ![t] = <<n, m>>]
      /\ free' = free \ {n, m}
      /\ UNCHANGED <<seq, phead, prev, tail, xchg, items, got>>
  BY DEF PutStart, Goto
<1>2. /\ next' \in [Nodes \cup {TAIL} -> Nodes \cup {NULL}]
      /\ next'[m] = NULL /\ (n # m => next'[n] = m)
      /\ \A x \in Nodes \cup {TAIL} : x # n /\ x # m => next'[x] = next[x]
  BY DEF PutStart, LfInv, LfTypes
<1>3. LfTypes'
  BY <1>1, <1>2 DEF PutStart, LfInv, LfTypes, PutterAt, GetterAt, Threads
<1>4. /\ \A u \in Getters : pc'[u] = pc[u]
      /\ \A u \in Putters : u # t => pc'[u] = pc[u] /\ data'[u] = data[u]
      /\ pc'[t] = "xchg" /\ data'[t] = <<n, m>>
  BY <1>1 DEF LfInv, LfTypes, Threads
<1>5. Takers' = Takers /\ Base' = Base
  <2>1. Takers' = Takers
    BY <1>4 DEF Takers
  <2> QED
    BY <1>1, <2>1, BaseKept DEF LfInv
<1>6. \A i : Place(i)' = Place(i)
  BY <1>1, <1>5 DEF Place
<1>7. \A i \in 0 .. Len(items) : Place(i) # n /\ Place(i) # m /\ next'[Place(i)] = next[Place(i)]
  BY <1>1, <1>2, PlaceTypes
<1>8. OneTaker'
  BY <1>1, <1>2, <1>5 DEF LfInv, OneTaker, LfTypes
<1>9. Places'
  BY <1>1, <1>6 DEF LfInv, Places
<1>10. \A u \in Putters : \A i : Gap(u, i)' <=> Gap(u, i)
  BY <1>1, <1>4, <1>6 DEF Gap
<1>11. Links'
  <2>1. next'[Place(Len(items))] = NULL
    BY <1>7, PlaceTypes DEF LfInv, Links
  <2>2. ASSUME NEW i \in 0 .. Len(items) - 1
        PROVE  \/ next'[Place(i)] = items[i + 1]
               \/ next'[Place(i)] = NULL /\ \E u \in Putters : Gap(u, i)'
    BY <1>7, <1>10, <2>2, PlaceTypes DEF LfInv, Links
  <2> QED
    BY <1>1, <1>6, <2>1, <2>2 DEF Links
<1>12. Gaps'
  <2>1. ASSUME NEW u \in Putters, pc'[u] = "link"
        PROVE  \E i \in 0 .. Len(items) - 1 : Gap(u, i)' /\ next'[Place(i)] = NULL
    <3>1. pc[u] = "link"
      BY <1>4, <2>1
    <3>2. PICK i \in 0 .. Len(items) - 1 : Gap(u, i) /\ next[Place(i)] = NULL
      BY <3>1 DEF LfInv, Gaps
    <3> QED
      BY <1>7, <1>10, <3>2, PlaceTypes
  <2>2. \A u, v \in Putters : pc'[u] = "link" /\ pc'[v] = "link" /\ prev'[u] = prev'[v] => u = v
    BY <1>1, <1>4 DEF LfInv, Gaps
  <2> QED
    BY <1>1, <1>6, <2>1, <2>2 DEF Gaps
<1>13. Carried'
  <2>1. ASSUME NEW u \in Putters, pc'[u] = "xchg"
        PROVE  /\ data'[u] \in Nodes \X Nodes
               /\ next'[data'[u][2]] = NULL
               /\ data'[u][1] # data'[u][2] => next'[data'[u][1]] = data'[u][2]
    <3>1. CASE u = t
      BY <1>2, <1>4, <3>1
    <3>2. CASE u # t
      <4>1. pc[u] = "xchg" /\ data'[u] = data[u] /\ data[u] \in Nodes \X Nodes
        BY <1>4, <2>1, <3>2 DEF LfInv, Carried
      <4>2. data[u][1] \notin free /\ data[u][2] \notin free
        BY <4>1 DEF LfInv, Carried, Carries
      <4>3. next'[data[u][1]] = next[data[u][1]] /\ next'[data[u][2]] = next[data[u][2]]
        BY <1>1, <1>2, <4>1, <4>2
      <4> QED
        BY <4>1, <4>3 DEF LfInv, Carried
    <3> QED
      BY <3>1, <3>2
  <2>2. ASSUME NEW u \in Putters, NEW x \in Nodes, Carries(u, x)'
        PROVE  /\ x \notin free'
               /\ \A i \in 0 .. Len(items) : Place(i) # x
               /\ \A v \in Putters : Carries(v, x)' => v = u
    <3>1. \A v \in Putters : v # t => (Carries(v, x)' <=> Carries(v, x))
      BY <1>4 DEF Carries
    <3>2. Carries(t, x)' <=> x \in {n, m}
      BY <1>4 DEF Carries
    <3>3. CASE u = t
      <4>1. x \in free
        BY <1>1, <2>2, <3>2, <3>3
      <4> QED
        BY <1>1, <1>7, <2>2, <3>1, <3>2, <3>3, <4>1 DEF LfInv, Carried
    <3>4. CASE u # t
      BY <1>1, <2>2, <3>1, <3>2, <3>4 DEF LfInv, Carried
    <3> QED
      BY <3>3, <3>4
  <2> QED
    BY <1>1, <1>6, <2>1, <2>2 DEF Carried
<1>14. Looking'
  <2>1. ASSUME NEW u \in Getters, pc[u] \in {"next", "dcas", "store"}
        PROVE  next'[tail[u].ptr] = next[tail[u].ptr]
    <3>1. tail[u].ptr \in Nodes
      BY <2>1 DEF LfInv, Looking
    <3>2. tail[u].ptr # n /\ tail[u].ptr # m
      BY <2>1 DEF InUse
    <3> QED
      BY <1>2, <3>1, <3>2
  <2> QED
    BY <1>1, <1>4, <2>1 DEF LfInv, Looking
<1> QED
  BY <1>3, <1>8, <1>9, <1>11, <1>12, <1>13, <1>14 DEF LfInv

\* What putn appends to the queue.
LEMMA Appended ==
    ASSUME NEW q \in Seq(Nodes), NEW n \in Nodes, NEW m \in Nodes,
           NEW r, r = q \o (IF n = m THEN <<n>> ELSE <<n, m>>)
    PROVE  /\ r \in Seq(Nodes)
           /\ Len(r) = Len(q) + (IF n = m THEN 1 ELSE 2)
           /\ \A i \in 1 .. Len(q) : r[i] = q[i]
           /\ r[Len(q) + 1] = n
           /\ n # m => r[Len(q) + 2] = m
<1>1. CASE n = m
  BY <1>1
<1>2. CASE n # m
  BY <1>2
<1> QED
  BY <1>1, <1>2

LEMMA PutXchgStep ==
    ASSUME LfInv, NEW t \in Putters, PutXchg(t)
    PROVE  LfInv'
<1>0. PICK n \in Nodes, m \in Nodes, L \in Nat : data[t] = <<n, m>> /\ L = Len(items)
  <2>1. data[t] \in Nodes \X Nodes /\ Len(items) \in Nat
    BY DEF PutXchg, LfInv, LfTypes, Carried
  <2>2. data[t] = <<data[t][1], data[t][2]>> /\ data[t][1] \in Nodes /\ data[t][2] \in Nodes
    BY <2>1
  <2> QED
    BY <2>1, <2>2
<1>1. /\ pc[t] = "xchg" /\ pc' = [pc EXCEPT ![t] = "link"]
      /\ prev' = [prev EXCEPT ![t] = phead]
      /\ phead' = m
      /\ UNCHANGED <<next, seq, data, tail, xchg, free, puts, got>>
  BY <1>0 DEF PutXchg, Goto
<1>2. /\ next[m] = NULL /\ (n # m => next[n] = m)
      /\ n \notin free /\ m \notin free
      /\ \A i \in 0 .. L : Place(i) # n /\ Place(i) # m
  BY <1>0, <1>1 DEF LfInv, Carried, Carries
<1>3. /\ items' \in Seq(Nodes)
      /\ Len(items') = L + (IF n = m THEN 1 ELSE 2)
      /\ \A i \in 1 .. L : items'[i] = items[i]
      /\ items'[L + 1] = n
      /\ n # m => items'[L + 2] = m
  <2>1. items' = items \o (IF n = m THEN <<n>> ELSE <<n, m>>)
    BY <1>0 DEF PutXchg
  <2> QED
    BY <1>0, <2>1, Appended DEF LfInv, LfTypes
<1>4. items \in Seq(Nodes) /\ L = Len(items)
  BY <1>0 DEF LfInv, LfTypes
<1>5. LfTypes'
  BY <1>1, <1>2, <1>3 DEF LfInv, LfTypes, PutterAt, GetterAt, Threads
<1>6. /\ \A u \in Getters : pc'[u] = pc[u]
      /\ \A u \in Putters : u # t => pc'[u] = pc[u] /\ prev'[u] = prev[u]
      /\ pc'[t] = "link" /\ prev'[t] = phead
  BY <1>1 DEF LfInv, LfTypes, Threads
<1>7. Takers' = Takers /\ Base' = Base
  <2>1. Takers' = Takers
    BY <1>6 DEF Takers
  <2> QED
    BY <1>1, <2>1, BaseKept DEF LfInv
<1>8. /\ \A i \in 0 .. L : Place(i)' = Place(i)
      /\ Place(L + 1)' = n
      /\ n # m => Place(L + 2)' = m
      /\ Place(Len(items))' = m
  BY <1>3, <1>4, <1>7 DEF Place
<1>9. OneTaker'
  BY <1>1, <1>7 DEF LfInv, OneTaker
<1>10. phead = Place(L)
  BY <1>0 DEF LfInv, Places
<1>11. \A i \in 0 .. Len(items') : i \in 0 .. L \/ i = L + 1 \/ (n # m /\ i = L + 2)
  BY <1>3, <1>4
<1>12. Places'
  <2>1. ASSUME NEW i \in 0 .. Len(items'), NEW j \in 0 .. Len(items'), Place(i)' = Place(j)'
        PROVE  i = j
    <3>1. CASE i \in 0 .. L /\ j \in 0 .. L
      BY <1>0, <1>8, <2>1, <3>1 DEF LfInv, Places
    <3>2. CASE i \in 0 .. L /\ j \notin 0 .. L
      BY <1>2, <1>8, <1>11, <2>1, <3>2
    <3>3. CASE i \notin 0 .. L /\ j \in 0 .. L
      BY <1>2, <1>8, <1>11, <2>1, <3>3
    <3>4. CASE i \notin 0 .. L /\ j \notin 0 .. L
      BY <1>8, <1>11, <2>1, <3>4
    <3> QED
      BY <3>1, <3>2, <3>3, <3>4
  <2>2. ASSUME NEW i \in 1 .. Len(items') PROVE items'[i] \notin free'
    <3>1. CASE i \in 1 .. L
      BY <1>0, <1>1, <1>3, <3>1 DEF LfInv, Places
    <3>2. CASE i \notin 1 .. L
      <4>1. i = L + 1 \/ (n # m /\ i = L + 2)
        BY <1>3, <1>4, <3>2
      <4> QED
        BY <1>1, <1>2, <1>3, <4>1
    <3> QED
      BY <3>1, <3>2
  <2> QED
    BY <1>1, <1>8, <2>1, <2>2 DEF Places
<1>13. \A u \in Putters, i \in 0 .. L - 1 : Gap(u, i) => u # t /\ Gap(u, i)'
  BY <1>1, <1>3, <1>4, <1>6, <1>8 DEF Gap
<1>14. Gap(t, L)'
  BY <1>0, <1>1, <1>3, <1>4, <1>6, <1>8, <1>10 DEF Gap
<1>15. \A i \in 0 .. L : Place(i) \in Nodes \cup {TAIL}
  BY <1>0, PlaceTypes
<1>16. Links'
  <2>1. next'[Place(Len(items))'] = NULL
    BY <1>1, <1>2, <1>8
  <2>2. ASSUME NEW i \in 0 .. Len(items') - 1
        PROVE  \/ next'[Place(i)'] = items'[i + 1]
               \/ next'[Place(i)'] = NULL /\ \E u \in Putters : Gap(u, i)'
    <3>1. CASE i \in 0 .. L - 1
      <4>1. i \in 0 .. L /\ i + 1 \in 1 .. L
        BY <1>4, <3>1
      <4>2. next'[Place(i)'] = next[Place(i)] /\ items'[i + 1] = items[i + 1]
        BY <1>1, <1>3, <1>8, <4>1
      <4>3. \/ next[Place(i)] = items[i + 1]
            \/ next[Place(i)] = NULL /\ \E u \in Putters : Gap(u, i)
        BY <1>0, <3>1 DEF LfInv, Links
      <4> QED
        BY <1>13, <3>1, <4>2, <4>3
    <3>2. CASE i = L
      <4>1. next'[Place(i)'] = NULL
        BY <1>0, <1>1, <1>4, <1>8, <3>2 DEF LfInv, Links
      <4> QED
        BY <1>14, <3>2, <4>1
    <3>3. CASE n # m /\ i = L + 1
      BY <1>1, <1>2, <1>3, <1>4, <1>8, <3>3
    <3> QED
      BY <1>3, <1>4, <3>1, <3>2, <3>3
  <2> QED
    BY <2>1, <2>2 DEF Links
<1>17. Gaps'
  <2>1. ASSUME NEW u \in Putters, pc'[u] = "link"
        PROVE  \E i \in 0 .. Len(items') - 1 : Gap(u, i)' /\ next'[Place(i)'] = NULL
    <3>1. CASE u = t
      <4>1. next'[Place(L)'] = NULL /\ L \in 0 .. Len(items') - 1
        BY <1>0, <1>1, <1>3, <1>4, <1>8 DEF LfInv, Links
      <4> QED
        BY <1>14, <3>1, <4>1
    <3>2. CASE u # t
      <4>1. PICK i \in 0 .. L - 1 : Gap(u, i) /\ next[Place(i)] = NULL
        BY <1>0, <1>6, <2>1, <3>2 DEF LfInv, Gaps
      <4>2. i \in 0 .. L /\ i \in 0 .. Len(items') - 1
        BY <1>3, <1>4, <4>1
      <4> QED
        BY <1>1, <1>8, <1>13, <4>1, <4>2
    <3> QED
      BY <3>1, <3>2
  <2>2. ASSUME NEW u \in Putters, pc[u] = "link" PROVE prev[u] # phead
    <3>1. PICK i \in 0 .. L - 1 : Gap(u, i)
      BY <1>0, <2>2 DEF LfInv, Gaps
    <3>2. i \in 0 .. L /\ L \in 0 .. L /\ i # L
      BY <1>4, <3>1
    <3> QED
      BY <1>0, <1>10, <3>1, <3>2 DEF LfInv, Places, Gap
  <2>3. ASSUME NEW u \in Putters, NEW v \in Putters,
               pc'[u] = "link", pc'[v] = "link", prev'[u] = prev'[v]
        PROVE  u = v
    BY <1>6, <2>2, <2>3 DEF LfInv, Gaps
  <2> QED
    BY <2>1, <2>3 DEF Gaps
<1>18. Carried'
  <2>1. \A u \in Putters, x \in Nodes : Carries(u, x)' => u # t /\ Carries(u, x)
    BY <1>1, <1>6 DEF Carries
  <2>2. \A u \in Putters : pc'[u] = "xchg" => pc[u] = "xchg"
    BY <1>6
  <2>3. ASSUME NEW u \in Putters, NEW x \in Nodes, Carries(u, x)',
               NEW i \in 0 .. Len(items')
        PROVE  Place(i)' # x
    <3>1. u # t /\ Carries(u, x) /\ Carries(t, n) /\ Carries(t, m)
      BY <1>0, <1>1, <2>1, <2>3 DEF Carries
    <3>2. x # n /\ x # m
      BY <1>2, <3>1 DEF LfInv, Carried
    <3>3. \A j \in 0 .. L : Place(j) # x
      BY <1>0, <3>1 DEF LfInv, Carried
    <3> QED
      BY <1>8, <1>11, <3>2, <3>3
  <2> QED
    BY <1>1, <2>1, <2>2, <2>3 DEF LfInv, Carried
<1>19. Looking'
  BY <1>1, <1>6 DEF LfInv, Looking
<1> QED
  BY <1>5, <1>9, <1>12, <1>16, <1>17, <1>18, <1>19 DEF LfInv

LEMMA PutLinkStep ==
    ASSUME LfInv, NEW t \in Putters, PutLink(t)
    PROVE  LfInv'
<1> USE DEF history
<1>0. PICK L \in Nat, i \in Nat, n \in Nodes :
        /\ L = Len(items) /\ i \in 0 .. L - 1 /\ Gap(t, i)
        /\ next[Place(i)] = NULL /\ n = items[i + 1]
  <2>1. Len(items) \in Nat /\ pc[t] = "link"
    BY DEF PutLink, LfInv, LfTypes
  <2>2. PICK i \in 0 .. Len(items) - 1 : Gap(t, i) /\ next[Place(i)] = NULL
    BY <2>1 DEF LfInv, Gaps
  <2>3. items[i + 1] \in Nodes
    BY <2>1, <2>2, PlaceTypes
  <2> QED
    BY <2>1, <2>2, <2>3
<1>1. /\ pc[t] = "link" /\ pc'[t] \in {"wake", "idle"}
      /\ \A u \in Threads : u # t => pc'[u] = pc[u]
      /\ \A u \in Putters : u # t => data'[u] = data[u] /\ prev'[u] = prev[u]
      /\ UNCHANGED <<seq, phead, tail, xchg, free, puts, items, got>>
  BY DEF PutLink, Goto, LfInv, LfTypes, Threads
<1>2. /\ prev[t] = Place(i) /\ data[t][1] = n /\ Place(i) \in Nodes \cup {TAIL}
      /\ next' = [next EXCEPT ![Place(i)] = n]
  BY <1>0, PlaceTypes DEF PutLink, Gap
<1>3. /\ next'[Place(i)] = n
      /\ \A x \in Nodes \cup {TAIL} : x # Place(i) => next'[x] = next[x]
      /\ next' \in [Nodes \cup {TAIL} -> Nodes \cup {NULL}]
  BY <1>2 DEF LfInv, LfTypes
<1>4. LfTypes'
  <2>1. pc' \in [Threads -> PutterAt \cup GetterAt]
    BY DEF PutLink, Goto, LfInv, LfTypes, PutterAt, Threads
  <2>2. /\ data' \in [Putters -> (Nodes \cup {NULL}) \X (Nodes \cup {NULL})]
        /\ prev' \in [Putters -> Nodes \cup {TAIL, NULL}]
    BY DEF PutLink, LfInv, LfTypes
  <2> QED
    BY <1>1, <1>3, <2>1, <2>2 DEF LfInv, LfTypes, PutterAt, Threads
<1>5. \A u \in Getters : pc'[u] = pc[u]
  BY <1>1 DEF Threads
<1>6. Takers' = Takers /\ Base' = Base
  <2>1. Takers' = Takers
    BY <1>5 DEF Takers
  <2> QED
    BY <1>1, <2>1, BaseKept DEF LfInv
<1>7. \A j : Place(j)' = Place(j)
  BY <1>1, <1>6 DEF Place
<1>8. \A j \in 0 .. L : j # i => Place(j) # Place(i) /\ next'[Place(j)] = next[Place(j)]
  BY <1>0, <1>3, PlaceTypes DEF LfInv, Places
<1>9. OneTaker'
  <2>1. ASSUME NEW u \in Takers PROVE next'[TAIL] = NULL
    <3>1. next[TAIL] = NULL /\ Base \in Nodes
      BY BaseIs DEF LfInv, OneTaker
    <3>2. Place(i) # TAIL
      BY <1>0, <3>1, PlaceTypes DEF Place
    <3> QED
      BY <1>3, <3>1, <3>2
  <2> QED
    BY <1>1, <1>6, <2>1 DEF LfInv, OneTaker
<1>10. Places'
  BY <1>1, <1>7 DEF LfInv, Places
<1>11. \A u \in Putters, j \in 0 .. L : u # t => (Gap(u, j)' <=> Gap(u, j))
  BY <1>1, <1>7 DEF Gap, Threads
<1>12. \A j \in 0 .. L : j # i => ~Gap(t, j)
  BY <1>2, <1>8 DEF Gap
<1>13. Links'
  <2>1. next'[Place(L)] = NULL
    BY <1>0, <1>8 DEF LfInv, Links
  <2>2. ASSUME NEW j \in 0 .. L - 1
        PROVE  \/ next'[Place(j)] = items[j + 1]
               \/ next'[Place(j)] = NULL /\ \E u \in Putters : Gap(u, j)'
    <3>1. CASE j = i
      BY <1>0, <1>3, <3>1
    <3>2. CASE j # i
      <4>1. j \in 0 .. L
        OBVIOUS
      <4>2. \/ next[Place(j)] = items[j + 1]
            \/ next[Place(j)] = NULL /\ \E u \in Putters : Gap(u, j)
        BY <1>0 DEF LfInv, Links
      <4> QED
        BY <1>8, <1>11, <1>12, <3>2, <4>1, <4>2
    <3> QED
      BY <3>1, <3>2
  <2> QED
    BY <1>0, <1>1, <1>7, <2>1, <2>2 DEF Links
<1>14. Gaps'
  <2>1. ASSUME NEW u \in Putters, pc'[u] = "link"
        PROVE  \E j \in 0 .. L - 1 : Gap(u, j)' /\ next'[Place(j)] = NULL
    <3>1. u # t /\ pc[u] = "link" /\ prev[u] # prev[t]
      BY <1>1, <2>1 DEF LfInv, Gaps, Threads
    <3>2. PICK j \in 0 .. L - 1 : Gap(u, j) /\ next[Place(j)] = NULL
      BY <1>0, <3>1 DEF LfInv, Gaps
    <3>3. j # i /\ j \in 0 .. L
      BY <1>2, <3>1, <3>2 DEF Gap
    <3> QED
      BY <1>8, <1>11, <3>1, <3>2, <3>3
  <2>2. \A u, v \in Putters : pc'[u] = "link" /\ pc'[v] = "link" /\ prev'[u] = prev'[v] => u = v
    BY <1>1 DEF LfInv, Gaps, Threads
  <2> QED
    BY <1>0, <1>1, <1>7, <2>1, <2>2 DEF Gaps
<1>15. Carried'
  <2>1. \A u \in Putters, x \in Nodes : Carries(u, x)' <=> Carries(u, x)
    BY <1>1 DEF Carries, Threads
  <2>2. ASSUME NEW u \in Putters, NEW x \in Nodes, Carries(u, x)
        PROVE  next'[x] = next[x]
    <3>1. Place(i) # x
      BY <1>0, <2>2 DEF LfInv, Carried
    <3> QED
      BY <1>3, <3>1
  <2>3. ASSUME NEW u \in Putters, pc'[u] = "xchg"
        PROVE  /\ data'[u] \in Nodes \X Nodes
               /\ next'[data'[u][2]] = NULL
               /\ data'[u][1] # data'[u][2] => next'[data'[u][1]] = data'[u][2]
    <3>1. u # t /\ pc[u] = "xchg" /\ data'[u] = data[u] /\ data[u] \in Nodes \X Nodes
      BY <1>1, <2>3 DEF LfInv, Carried, Threads
    <3>2. Carries(u, data[u][1]) /\ Carries(u, data[u][2])
      BY <3>1 DEF Carries
    <3>3. next'[data[u][1]] = next[data[u][1]] /\ next'[data[u][2]] = next[data[u][2]]
      BY <2>2, <3>1, <3>2
    <3> QED
      BY <3>1, <3>3 DEF LfInv, Carried
  <2> QED
    BY <1>1, <1>7, <2>1, <2>3 DEF LfInv, Carried
<1>16. Looking'
  <2>1. ASSUME NEW u \in Getters, pc[u] = "next" PROVE next'[tail[u].ptr] # NULL
    BY <1>3, <2>1 DEF LfInv, Looking
  <2>2. ASSUME NEW u \in Getters, pc[u] \in {"dcas", "store"}
        PROVE  next'[tail[u].ptr] = next[tail[u].ptr]
    <3>1. tail[u].ptr \in Nodes /\ next[tail[u].ptr] # NULL
      BY <2>2 DEF LfInv, Looking
    <3> QED
      BY <1>0, <1>3, <3>1
  <2> QED
    BY <1>1, <1>5, <2>1, <2>2 DEF LfInv, Looking
<1> QED
  BY <1>4, <1>9, <1>10, <1>13, <1>14, <1>15, <1>16 DEF LfInv

-----------------------------------------------------------------------------
(***************************************************************************)
(* get takes a node.                                                       *)
(***************************************************************************)

\* The node that is swapped out is the oldest.
LEMMA SwapTakesFirst ==
    ASSUME LfInv, NEW t \in Getters, NEW new, Swap(t, new), tail[t].ptr \in Nodes
    PROVE  /\ Takers = {} /\ Base = TAIL
           /\ Len(items) \in Nat \ {0}
           /\ tail[t].ptr = items[1] /\ next[TAIL] = items[1]
           /\ items' = Tail(items) /\ items' \in Seq(Nodes)
           /\ Len(items') = Len(items) - 1
           /\ \A i \in 1 .. Len(items) - 1 : items'[i] = items[i + 1]
<1>1. tail[t].ptr = next[TAIL]
  BY DEF Swap, Same
<1>2. next[TAIL] # NULL
  BY <1>1
<1>3. /\ Takers = {} /\ Base = TAIL
      /\ Len(items) \in Nat \ {0}
      /\ tail[t].ptr = items[1] /\ next[TAIL] = items[1]
  BY <1>1, <1>2, TailIsFirst
<1>4. items \in Seq(Nodes) /\ items # <<>>
  BY <1>3 DEF LfInv, LfTypes
<1>5. items' = Tail(items)
  BY <1>4 DEF Swap
<1> QED
  BY <1>3, <1>4, <1>5

LEMMA SwapTypes ==
    ASSUME LfInv, NEW t \in Getters, NEW new \in Nodes \cup {NULL}, Swap(t, new),
           tail[t].ptr \in Nodes
    PROVE  /\ next' \in [Nodes \cup {TAIL} -> Nodes \cup {NULL}]
           /\ next'[TAIL] = new
           /\ \A x \in Nodes : next'[x] = next[x]
           /\ seq' \in Nat /\ got' \in [Getters -> Nodes \cup {NULL}]
  BY DEF Swap, LfInv, LfTypes

LEMMA GetDcasStep ==
    ASSUME LfInv, NEW t \in Getters, pc[t] = "dcas", Swap(t, xchg[t]), Return(t, "idle"),
           UNCHANGED <<phead, data, prev, puts>>
    PROVE  LfInv'
<1>0. PICK L \in Nat, y \in Nodes : L = Len(items) /\ y = tail[t].ptr
  <2>1. Len(items) \in Nat /\ tail[t].ptr \in Nodes
    BY DEF LfInv, LfTypes, Looking
  <2> QED
    BY <2>1
<1>1. xchg[t] \in Nodes /\ next[y] = xchg[t]
  BY <1>0 DEF LfInv, Looking, LfTypes
<1>2. /\ Takers = {} /\ Base = TAIL /\ L # 0
      /\ y = items[1] /\ next[TAIL] = items[1]
      /\ items' \in Seq(Nodes) /\ Len(items') = L - 1
      /\ \A i \in 1 .. L - 1 : items'[i] = items[i + 1]
  BY <1>0, SwapTakesFirst
<1>3. /\ next' \in [Nodes \cup {TAIL} -> Nodes \cup {NULL}]
      /\ next'[TAIL] = xchg[t]
      /\ \A x \in Nodes : next'[x] = next[x]
      /\ seq' \in Nat /\ got' \in [Getters -> Nodes \cup {NULL}]
  BY <1>0, <1>1, SwapTypes
<1>4. /\ pc' = [pc EXCEPT ![t] = "idle"] /\ free' = free \cup {y}
      /\ tail' = [tail EXCEPT ![t] = NoTail]
      /\ xchg' = [xchg EXCEPT ![t] = NULL]
  BY <1>0 DEF Return, Goto
<1>5. LfTypes'
  BY <1>2, <1>3, <1>4 DEF LfInv, LfTypes, PutterAt, GetterAt, Threads, NoTail
<1>6. /\ \A u \in Putters : pc'[u] = pc[u]
      /\ \A u \in Getters : u # t => pc'[u] = pc[u] /\ tail'[u] = tail[u] /\ xchg'[u] = xchg[u]
      /\ pc'[t] = "idle"
  BY <1>4 DEF LfInv, LfTypes, Threads
<1>7. Takers' = {} /\ Base' = TAIL
  <2>1. Takers' = {}
    BY <1>2, <1>6 DEF Takers
  <2> QED
    BY <2>1 DEF Base
<1>8. /\ Place(0) = TAIL /\ Place(1) = y
      /\ \A i \in 1 .. L : Place(i) = items[i] /\ items[i] \in Nodes
  BY <1>0, <1>2, PlaceTypes DEF Place
<1>9. /\ Place(0)' = TAIL
      /\ \A i \in 1 .. L - 1 : Place(i)' = Place(i + 1) /\ i + 1 \in 1 .. L
  BY <1>2, <1>7 DEF Place
\* the node has a successor, so it is not the last
<1>10. L >= 2 /\ next[y] = items[2]
  <2>1. L # 1
    BY <1>0, <1>1, <1>8 DEF LfInv, Links
  <2>2. 1 \in 0 .. L - 1
    BY <1>2, <2>1
  <2>3. next[Place(1)] = items[1 + 1] \/ next[Place(1)] = NULL
    BY <1>0, <2>2 DEF LfInv, Links
  <2> QED
    BY <1>1, <1>2, <1>8, <2>1, <2>3
<1>11. OneTaker'
  BY <1>7 DEF OneTaker
<1>12. Places'
  <2>1. ASSUME NEW i \in 0 .. L - 1, NEW j \in 0 .. L - 1, Place(i)' = Place(j)' PROVE i = j
    <3>1. CASE i = 0 /\ j # 0
      BY <1>8, <1>9, <2>1, <3>1
    <3>2. CASE i # 0 /\ j = 0
      BY <1>8, <1>9, <2>1, <3>2
    <3>3. CASE i # 0 /\ j # 0
      <4>1. Place(i + 1) = Place(j + 1) /\ i + 1 \in 0 .. L /\ j + 1 \in 0 .. L
        BY <1>9, <2>1, <3>3
      <4>2. i + 1 = j + 1
        BY <1>0, <4>1 DEF LfInv, Places
      <4> QED
        BY <4>2
    <3> QED
      BY <3>1, <3>2, <3>3
  <2>2. ASSUME NEW i \in 1 .. L - 1 PROVE items'[i] \notin free'
    <3>1. items'[i] = Place(i + 1) /\ i + 1 \in 0 .. L /\ 1 \in 0 .. L /\ i + 1 # 1
      BY <1>2, <1>8, <2>2
    <3>2. Place(i + 1) # Place(1)
      BY <1>0, <3>1 DEF LfInv, Places
    <3>3. items'[i] \notin free
      BY <1>0, <3>1, PlaceTypes
    <3> QED
      BY <1>4, <1>8, <3>1, <3>2, <3>3
  <2>3. phead' = Place(L - 1)'
    BY <1>0, <1>9, <1>10 DEF LfInv, Places
  <2> QED
    BY <1>2, <2>1, <2>2, <2>3 DEF Places
<1>13. \A u \in Putters, i \in 1 .. L - 2 : Gap(u, i + 1) => Gap(u, i)'
  BY <1>2, <1>6, <1>9 DEF Gap
<1>14. Links'
  <2>1. next'[Place(L - 1)'] = NULL
    <3>1. Place(L - 1)' = Place(L) /\ Place(L) \in Nodes
      BY <1>8, <1>9, <1>10
    <3> QED
      BY <1>0, <1>3, <3>1 DEF LfInv, Links
  <2>2. ASSUME NEW i \in 0 .. L - 2
        PROVE  \/ next'[Place(i)'] = items'[i + 1]
               \/ next'[Place(i)'] = NULL /\ \E u \in Putters : Gap(u, i)'
    <3>1. CASE i = 0
      BY <1>1, <1>2, <1>3, <1>9, <1>10, <3>1
    <3>2. CASE i # 0
      <4>1. i \in 1 .. L - 2 /\ i + 1 \in 0 .. L - 1
        BY <1>0, <3>2
      <4>2. Place(i)' = Place(i + 1) /\ Place(i + 1) \in Nodes /\ items'[i + 1] = items[i + 1 + 1]
        <5>1. PICK k \in 1 .. L - 1 : k = i + 1
          BY <1>0, <4>1
        <5>2. items'[k] = items[k + 1] /\ k \in 1 .. L
          BY <1>0, <1>2, <5>1
        <5>3. Place(i)' = Place(i + 1)
          BY <1>9, <4>1
        <5> QED
          BY <1>8, <5>1, <5>2, <5>3
      <4>3. \/ next[Place(i + 1)] = items[i + 1 + 1]
            \/ next[Place(i + 1)] = NULL /\ \E u \in Putters : Gap(u, i + 1)
        BY <1>0, <4>1 DEF LfInv, Links
      <4> QED
        BY <1>3, <1>13, <4>1, <4>2, <4>3
    <3> QED
      BY <3>1, <3>2
  <2> QED
    BY <1>2, <2>1, <2>2 DEF Links
<1>15. Gaps'
  <2>1. ASSUME NEW u \in Putters, pc'[u] = "link"
        PROVE  \E i \in 0 .. L - 2 : Gap(u, i)' /\ next'[Place(i)'] = NULL
    <3>1. PICK j \in 0 .. L - 1 : Gap(u, j) /\ next[Place(j)] = NULL
      BY <1>0, <1>6, <2>1 DEF LfInv, Gaps
    <3>2. j # 0 /\ j # 1
      BY <1>1, <1>2, <1>8, <3>1
    <3>3. PICK i \in 1 .. L - 2 : j = i + 1
      BY <3>1, <3>2
    <3>4. Place(i)' = Place(j) /\ Place(j) \in Nodes
      BY <1>8, <1>9, <3>3
    <3> QED
      BY <1>3, <1>13, <3>1, <3>3, <3>4
  <2>2. \A u, v \in Putters : pc'[u] = "link" /\ pc'[v] = "link" /\ prev'[u] = prev'[v] => u = v
    BY <1>6 DEF LfInv, Gaps
  <2>3. Len(items') - 1 = L - 2
    BY <1>2
  <2> QED
    BY <2>1, <2>2, <2>3 DEF Gaps
<1>16. Carried'
  <2>1. \A u \in Putters, x \in Nodes : Carries(u, x)' <=> Carries(u, x)
    BY <1>6 DEF Carries
  <2>2. ASSUME NEW u \in Putters, NEW x \in Nodes, Carries(u, x)
        PROVE  x \notin free' /\ \A i \in 0 .. L - 1 : Place(i)' # x
    <3>1. x \notin free /\ \A i \in 0 .. L : Place(i) # x
      BY <1>0, <2>2 DEF LfInv, Carried
    <3> QED
      BY <1>2, <1>4, <1>8, <1>9, <3>1
  <2> QED
    BY <1>2, <1>3, <1>6, <2>1, <2>2 DEF LfInv, Carried
<1>17. Looking'
  BY <1>3, <1>6 DEF LfInv, Looking
<1> QED
  BY <1>5, <1>11, <1>12, <1>14, <1>15, <1>16, <1>17 DEF LfInv

LEMMA GetDcas0Step ==
    ASSUME LfInv, NEW t \in Getters, pc[t] = "dcas0", Swap(t, NULL), Goto(t, "cashead"),
           UNCHANGED <<tail, xchg, free>>, UNCHANGED <<phead, data, prev, puts>>
    PROVE  LfInv'
<1>0. PICK L \in Nat, y \in Nodes : L = Len(items) /\ y = tail[t].ptr
  <2>1. Len(items) \in Nat /\ tail[t].ptr \in Nodes
    BY DEF LfInv, LfTypes, Looking
  <2> QED
    BY <2>1
<1>1. /\ Takers = {} /\ Base = TAIL /\ L # 0
      /\ y = items[1] /\ next[TAIL] = items[1]
      /\ items' \in Seq(Nodes) /\ Len(items') = L - 1
      /\ \A i \in 1 .. L - 1 : items'[i] = items[i + 1]
  BY <1>0, SwapTakesFirst
<1>2. /\ next' \in [Nodes \cup {TAIL} -> Nodes \cup {NULL}]
      /\ next'[TAIL] = NULL
      /\ \A x \in Nodes : next'[x] = next[x]
      /\ seq' \in Nat /\ got' \in [Getters -> Nodes \cup {NULL}]
  BY <1>0, SwapTypes
<1>3. LfTypes'
  BY <1>1, <1>2 DEF Goto, LfInv, LfTypes, PutterAt, GetterAt, Threads
<1>4. /\ \A u \in Putters : pc'[u] = pc[u]
      /\ \A u \in Getters : u # t => pc'[u] = pc[u]
      /\ pc'[t] = "cashead"
  BY DEF Goto, LfInv, LfTypes, Threads
<1>5. Takers' = {t} /\ Base' = y
  <2>1. Takers' = {t}
    BY <1>1, <1>4 DEF Takers
  <2> QED
    BY <1>0, <2>1 DEF Base
<1>6. /\ Place(0) = TAIL
      /\ \A i \in 1 .. L : Place(i) = items[i] /\ items[i] \in Nodes
  BY <1>0, <1>1, PlaceTypes DEF Place
\* every place moves on by one: the node that was taken is the base now
<1>7. \A i \in 0 .. L - 1 : Place(i)' = Place(i + 1) /\ i + 1 \in 1 .. L
  BY <1>1, <1>5, <1>6 DEF Place
<1>8. OneTaker'
  <2>1. y \notin free
    BY <1>0, <1>1 DEF LfInv, Places
  <2> QED
    BY <1>0, <1>2, <1>5, <2>1 DEF OneTaker
<1>9. Places'
  <2>1. ASSUME NEW i \in 0 .. L - 1, NEW j \in 0 .. L - 1, Place(i)' = Place(j)' PROVE i = j
    <3>1. Place(i + 1) = Place(j + 1) /\ i + 1 \in 0 .. L /\ j + 1 \in 0 .. L
      BY <1>7, <2>1
    <3>2. i + 1 = j + 1
      BY <1>0, <3>1 DEF LfInv, Places
    <3> QED
      BY <3>2
  <2>2. ASSUME NEW i \in 1 .. L - 1 PROVE items'[i] \notin free'
    BY <1>0, <1>1 DEF LfInv, Places
  <2>3. phead' = Place(L - 1)'
    BY <1>0, <1>1, <1>7 DEF LfInv, Places
  <2> QED
    BY <1>1, <2>1, <2>2, <2>3 DEF Places
<1>10. ASSUME NEW u \in Putters, NEW i \in 0 .. L - 2, Gap(u, i + 1) PROVE Gap(u, i)'
  <2>1. i \in 0 .. L - 1 /\ i + 1 \in 1 .. L - 1
    OBVIOUS
  <2>2. Place(i)' = Place(i + 1) /\ items'[i + 1] = items[i + 1 + 1]
    BY <1>1, <1>7, <2>1
  <2>3. pc'[u] = pc[u] /\ prev'[u] = prev[u] /\ data'[u] = data[u]
    BY <1>4
  <2> QED
    BY <1>10, <2>2, <2>3 DEF Gap
<1>11. Links'
  <2>1. next'[Place(L - 1)'] = NULL
    <3>1. Place(L - 1)' = Place(L) /\ Place(L) \in Nodes
      BY <1>1, <1>6, <1>7
    <3> QED
      BY <1>0, <1>2, <3>1 DEF LfInv, Links
  <2>2. ASSUME NEW i \in 0 .. L - 2
        PROVE  \/ next'[Place(i)'] = items'[i + 1]
               \/ next'[Place(i)'] = NULL /\ \E u \in Putters : Gap(u, i)'
    <3>1. i \in 0 .. L - 1 /\ i + 1 \in 0 .. L - 1
      BY <1>0
    <3>2. Place(i)' = Place(i + 1) /\ Place(i + 1) \in Nodes /\ items'[i + 1] = items[i + 1 + 1]
      <4>1. PICK k \in 1 .. L - 1 : k = i + 1
        BY <1>0, <3>1
      <4>2. items'[k] = items[k + 1] /\ k \in 1 .. L
        BY <1>0, <1>1, <4>1
      <4>3. Place(i)' = Place(i + 1)
        BY <1>7, <3>1
      <4> QED
        BY <1>6, <4>1, <4>2, <4>3
    <3>3. \/ next[Place(i + 1)] = items[i + 1 + 1]
          \/ next[Place(i + 1)] = NULL /\ \E u \in Putters : Gap(u, i + 1)
      BY <1>0, <3>1 DEF LfInv, Links
    <3> QED
      BY <1>2, <1>10, <3>2, <3>3
  <2>3. Len(items') = L - 1 /\ Len(items') - 1 = L - 2
    BY <1>1
  <2> QED
    BY <2>1, <2>2, <2>3 DEF Links
<1>12. Gaps'
  <2>1. ASSUME NEW u \in Putters, pc'[u] = "link"
        PROVE  \E i \in 0 .. L - 2 : Gap(u, i)' /\ next'[Place(i)'] = NULL
    <3>1. PICK j \in 0 .. L - 1 : Gap(u, j) /\ next[Place(j)] = NULL
      BY <1>0, <1>4, <2>1 DEF LfInv, Gaps
    <3>2. j # 0
      BY <1>0, <1>1, <1>6, <3>1
    <3>3. PICK i \in 0 .. L - 2 : j = i + 1
      BY <3>1, <3>2
    <3>4. Place(i)' = Place(j) /\ Place(j) \in Nodes
      BY <1>6, <1>7, <3>3
    <3> QED
      BY <1>2, <1>10, <3>1, <3>3, <3>4
  <2>2. \A u, v \in Putters : pc'[u] = "link" /\ pc'[v] = "link" /\ prev'[u] = prev'[v] => u = v
    BY <1>4 DEF LfInv, Gaps
  <2>3. Len(items') - 1 = L - 2
    BY <1>1
  <2> QED
    BY <2>1, <2>2, <2>3 DEF Gaps
<1>13. Carried'
  <2>1. \A u \in Putters, x \in Nodes : Carries(u, x)' <=> Carries(u, x)
    BY <1>4 DEF Carries
  <2>2. ASSUME NEW u \in Putters, NEW x \in Nodes, Carries(u, x)
        PROVE  \A i \in 0 .. L - 1 : Place(i)' # x
    <3>1. \A i \in 0 .. L : Place(i) # x
      BY <1>0, <2>2 DEF LfInv, Carried
    <3> QED
      BY <1>7, <3>1
  <2> QED
    BY <1>1, <1>2, <1>4, <2>1, <2>2 DEF LfInv, Carried
<1>14. Looking'
  BY <1>0, <1>2, <1>4 DEF LfInv, Looking
<1> QED
  BY <1>3, <1>8, <1>9, <1>11, <1>12, <1>13, <1>14 DEF LfInv

\* While t repairs tail, its node is the base.
LEMMA TakerBase ==
    ASSUME LfInv, NEW t \in Getters, pc[t] \in {"cashead", "spin", "store"}
    PROVE  /\ Takers = {t} /\ Base = tail[t].ptr
           /\ tail[t].ptr \in Nodes \ free
           /\ next[TAIL] = NULL
<1>1. t \in Takers
  BY DEF Takers
<1>2. Takers = {t} /\ tail[t].ptr \in Nodes \ free /\ next[TAIL] = NULL
  BY <1>1 DEF LfInv, OneTaker
<1> QED
  BY <1>2, BaseIs

\* phead was still the node that was taken: the queue is empty.
LEMMA CasHeadStep ==
    ASSUME LfInv, NEW t \in Getters, pc[t] = "cashead", phead = tail[t].ptr, phead' = TAIL,
           Return(t, "idle"), UNCHANGED <<next, seq, data, prev, puts, history>>
    PROVE  LfInv'
<1> USE DEF history
<1>0. /\ Takers = {t} /\ Base = tail[t].ptr /\ tail[t].ptr \in Nodes
      /\ next[TAIL] = NULL
  BY TakerBase
<1>1. Len(items) = 0
  <2>1. Place(Len(items)) = Place(0)
    BY <1>0 DEF LfInv, Places, Place
  <2>2. Len(items) \in Nat
    BY DEF LfInv, LfTypes
  <2> QED
    BY <2>1, <2>2 DEF LfInv, Places
<1>2. /\ pc' = [pc EXCEPT ![t] = "idle"] /\ free' = free \cup {tail[t].ptr}
      /\ tail' = [tail EXCEPT ![t] = NoTail]
      /\ xchg' = [xchg EXCEPT ![t] = NULL]
  BY <1>0 DEF Return, Goto
<1>3. LfTypes'
  BY <1>0, <1>2 DEF LfInv, LfTypes, PutterAt, GetterAt, Threads, NoTail
<1>4. /\ \A u \in Putters : pc'[u] = pc[u]
      /\ \A u \in Getters : u # t => pc'[u] = pc[u] /\ tail'[u] = tail[u] /\ xchg'[u] = xchg[u]
      /\ pc'[t] = "idle"
  BY <1>2 DEF LfInv, LfTypes, Threads
<1>5. Takers' = {} /\ Base' = TAIL /\ Place(0)' = TAIL
  <2>1. Takers' = {}
    BY <1>0, <1>4 DEF Takers
  <2> QED
    BY <2>1 DEF Base, Place
<1>6. OneTaker' /\ Places' /\ Links'
  BY <1>0, <1>1, <1>5 DEF OneTaker, Places, Links
<1>7. \A u \in Putters : pc[u] # "link"
  BY <1>1 DEF LfInv, Gaps
<1>8. Gaps'
  BY <1>4, <1>7 DEF Gaps
<1>9. Carried'
  <2>1. \A u \in Putters, x \in Nodes : Carries(u, x)' <=> Carries(u, x)
    BY <1>4 DEF Carries
  <2>2. ASSUME NEW u \in Putters, NEW x \in Nodes, Carries(u, x)
        PROVE  x \notin free' /\ \A i \in 0 .. Len(items') : Place(i)' # x
    <3>1. x \notin free /\ Place(0) # x
      BY <1>1, <2>2 DEF LfInv, Carried
    <3> QED
      BY <1>0, <1>1, <1>2, <1>5, <3>1 DEF Place
  <2> QED
    BY <1>4, <2>1, <2>2 DEF LfInv, Carried
<1>10. Looking'
  BY <1>4 DEF LfInv, Looking
<1> QED
  BY <1>3, <1>6, <1>8, <1>9, <1>10 DEF LfInv

\* The link is there: nobody but t changes it any more.
LEMMA GetSpinStep ==
    ASSUME LfInv, NEW t \in Getters, GetSpin(t)
    PROVE  LfInv'
<1> USE DEF GetSpin, Goto, queue, history
<1>1. tail[t].ptr \in Nodes /\ next[tail[t].ptr] \in Nodes
  BY DEF LfInv, LfTypes, Looking
<1>2. LfTypes'
  BY <1>1 DEF LfInv, LfTypes, GetterAt, PutterAt, Threads
<1>3. Takers' = Takers /\ \A u \in Putters : pc'[u] = pc[u]
  BY DEF LfInv, LfTypes, Takers, Threads
<1>4. Chained'
  BY <1>3, ChainKept
<1>5. Looking'
  BY <1>1 DEF LfInv, LfTypes, Looking, Threads
<1> QED
  BY <1>2, <1>4, <1>5 DEF LfInv, Chained

LEMMA GetStoreStep ==
    ASSUME LfInv, NEW t \in Getters, GetStore(t)
    PROVE  LfInv'
<1> USE DEF history
<1>0. PICK L \in Nat, x \in Nodes : L = Len(items) /\ x = tail[t].ptr
  <2>1. Len(items) \in Nat /\ tail[t].ptr \in Nodes
    BY DEF GetStore, LfInv, LfTypes, Looking
  <2> QED
    BY <2>1
<1>1. /\ Takers = {t} /\ Base = x /\ x \notin free /\ next[TAIL] = NULL
      /\ next[x] # NULL /\ xchg[t] = next[x]
  BY <1>0, TakerBase DEF GetStore, LfInv, Looking
<1>2. /\ pc' = [pc EXCEPT ![t] = "idle"] /\ free' = free \cup {x}
      /\ tail' = [tail EXCEPT ![t] = NoTail]
      /\ xchg' = [xchg EXCEPT ![t] = NULL]
      /\ next' = [next EXCEPT ![TAIL] = next[x]]
      /\ UNCHANGED <<seq, phead, data, prev, puts, items, got>>
  BY <1>0, <1>1 DEF GetStore, Return, Goto
<1>3. /\ Place(0) = x
      /\ \A i \in 1 .. L : Place(i) = items[i] /\ items[i] \in Nodes
  BY <1>0, <1>1, PlaceTypes DEF Place
<1>4. L # 0 /\ next[x] = items[1]
  <2>1. L # 0
    BY <1>0, <1>1, <1>3 DEF LfInv, Links
  <2>2. 0 \in 0 .. L - 1
    BY <2>1
  <2>3. next[Place(0)] = items[0 + 1] \/ next[Place(0)] = NULL
    BY <1>0, <2>2 DEF LfInv, Links
  <2> QED
    BY <1>1, <1>3, <2>1, <2>3
<1>5. /\ next' \in [Nodes \cup {TAIL} -> Nodes \cup {NULL}]
      /\ next'[TAIL] = items[1]
      /\ \A y \in Nodes : next'[y] = next[y]
  BY <1>2, <1>4 DEF LfInv, LfTypes
<1>6. LfTypes'
  BY <1>2, <1>5 DEF LfInv, LfTypes, PutterAt, GetterAt, Threads, NoTail
<1>7. /\ \A u \in Putters : pc'[u] = pc[u]
      /\ \A u \in Getters : u # t => pc'[u] = pc[u] /\ tail'[u] = tail[u] /\ xchg'[u] = xchg[u]
      /\ pc'[t] = "idle"
  BY <1>2 DEF LfInv, LfTypes, Threads
<1>8. Takers' = {} /\ Base' = TAIL
  <2>1. Takers' = {}
    BY <1>1, <1>7 DEF Takers
  <2> QED
    BY <2>1 DEF Base
<1>9. Place(0)' = TAIL /\ \A i \in 1 .. L : Place(i)' = Place(i)
  BY <1>2, <1>8 DEF Place
<1>10. OneTaker'
  BY <1>8 DEF OneTaker
<1>11. Places'
  <2>1. ASSUME NEW i \in 0 .. L, NEW j \in 0 .. L, Place(i)' = Place(j)' PROVE i = j
    <3>1. CASE i = 0 \/ j = 0
      BY <1>3, <1>9, <2>1, <3>1
    <3>2. CASE i # 0 /\ j # 0
      BY <1>0, <1>9, <2>1, <3>2 DEF LfInv, Places
    <3> QED
      BY <3>1, <3>2
  <2>2. ASSUME NEW i \in 1 .. L PROVE items[i] \notin free'
    <3>1. Place(i) # Place(0)
      BY <1>0 DEF LfInv, Places
    <3> QED
      BY <1>0, <1>2, <1>3, <3>1 DEF LfInv, Places
  <2>3. phead' = Place(L)'
    BY <1>0, <1>2, <1>4, <1>9 DEF LfInv, Places
  <2> QED
    BY <1>0, <1>2, <2>1, <2>2, <2>3 DEF Places
<1>12. \A u \in Putters, i \in 1 .. L : Gap(u, i)' <=> Gap(u, i)
  BY <1>2, <1>7, <1>9 DEF Gap
<1>13. Links'
  <2>1. next'[Place(L)'] = NULL
    BY <1>0, <1>3, <1>4, <1>5, <1>9 DEF LfInv, Links
  <2>2. ASSUME NEW i \in 0 .. L - 1
        PROVE  \/ next'[Place(i)'] = items'[i + 1]
               \/ next'[Place(i)'] = NULL /\ \E u \in Putters : Gap(u, i)'
    <3>1. CASE i = 0
      BY <1>2, <1>5, <1>9, <3>1
    <3>2. CASE i # 0
      <4>1. i \in 1 .. L
        BY <3>2
      <4>2. \/ next[Place(i)] = items[i + 1]
            \/ next[Place(i)] = NULL /\ \E u \in Putters : Gap(u, i)
        BY <1>0 DEF LfInv, Links
      <4> QED
        BY <1>2, <1>3, <1>5, <1>9, <1>12, <4>1, <4>2
    <3> QED
      BY <3>1, <3>2
  <2> QED
    BY <1>0, <1>2, <2>1, <2>2 DEF Links
<1>14. Gaps'
  <2>1. ASSUME NEW u \in Putters, pc'[u] = "link"
        PROVE  \E i \in 0 .. L - 1 : Gap(u, i)' /\ next'[Place(i)'] = NULL
    <3>1. PICK i \in 0 .. L - 1 : Gap(u, i) /\ next[Place(i)] = NULL
      BY <1>0, <1>7, <2>1 DEF LfInv, Gaps
    <3>2. i \in 1 .. L
      BY <1>1, <1>3, <3>1
    <3> QED
      BY <1>3, <1>5, <1>9, <1>12, <3>1, <3>2
  <2>2. \A u, v \in Putters : pc'[u] = "link" /\ pc'[v] = "link" /\ prev'[u] = prev'[v] => u = v
    BY <1>2, <1>7 DEF LfInv, Gaps
  <2> QED
    BY <1>0, <1>2, <2>1, <2>2 DEF Gaps
<1>15. Carried'
  <2>1. \A u \in Putters, y \in Nodes : Carries(u, y)' <=> Carries(u, y)
    BY <1>2, <1>7 DEF Carries
  <2>2. ASSUME NEW u \in Putters, NEW y \in Nodes, Carries(u, y)
        PROVE  y \notin free' /\ \A i \in 0 .. L : Place(i)' # y
    <3>1. y \notin free /\ \A i \in 0 .. L : Place(i) # y
      BY <1>0, <2>2 DEF LfInv, Carried
    <3> QED
      BY <1>2, <1>3, <1>9, <3>1
  <2> QED
    BY <1>0, <1>2, <1>5, <1>7, <2>1, <2>2 DEF LfInv, Carried
<1>16. Looking'
  BY <1>2, <1>5, <1>7 DEF LfInv, Looking
<1> QED
  BY <1>6, <1>10, <1>11, <1>13, <1>14, <1>15, <1>16 DEF LfInv

-----------------------------------------------------------------------------
(***************************************************************************)
(* LfInv is inductive.                                                     *)
(***************************************************************************)

LEMMA LfPutInductive ==
    ASSUME LfInv, ~reused', NEW t \in Putters,
           PutStep(t) \/ \E n, m \in Nodes : PutStart(t, n, m)
    PROVE  LfInv'
<1>1. ASSUME NEW n \in Nodes, NEW m \in Nodes, PutStart(t, n, m) PROVE LfInv'
  <2>1. ~InUse(n) /\ ~InUse(m)
    BY <1>1 DEF PutStart
  <2> QED
    BY <1>1, <2>1, PutStartStep
<1> QED
  BY <1>1, PutXchgStep, PutLinkStep, PutWakeStep DEF PutStep

LEMMA LfGetInductive ==
    ASSUME LfInv, NEW t \in Getters, GetStep(t) \/ GetStart(t) \/ GetTimeout(t)
    PROVE  LfInv'
<1>1. CASE GetDcas(t)
  BY <1>1, GetDcasStep, RetryStep DEF GetDcas
<1>2. CASE GetDcas0(t)
  BY <1>2, GetDcas0Step, RetryStep DEF GetDcas0
<1>3. CASE GetCasHead(t)
  <2>1. CASE phead = tail[t].ptr
    BY <1>3, <2>1, CasHeadStep DEF GetCasHead
  <2>2. CASE phead # tail[t].ptr
    BY <1>3, <2>2, GoSpinStep DEF GetCasHead, history
  <2> QED
    BY <2>1, <2>2
<1>4. CASE GetStart(t) \/ GetLoad(t) \/ GetSeq(t) \/ GetTest(t) \/ GetNext(t)
  BY <1>4, GetStartStep, GetLoadStep, GetSeqStep, GetTestStep, GetNextStep
<1>5. CASE GetHead(t) \/ GetSpin(t) \/ GetStore(t) \/ GetWait(t) \/ GetTimeout(t)
  BY <1>5, GetHeadStep, GetSpinStep, GetStoreStep, GetWaitStep
<1> QED
  BY <1>1, <1>2, <1>3, <1>4, <1>5 DEF GetStep

LEMMA LfStutters ==
    ASSUME LfInv, UNCHANGED vars
    PROVE  LfInv'
<1> USE DEF vars, queue, locals, history
<1>1. LfTypes'
  BY DEF LfInv, LfTypes
<1>2. Takers' = Takers
  BY DEF Takers
<1>3. Chained'
  BY <1>2, ChainKept
<1>4. Looking'
  BY DEF LfInv, Looking
<1> QED
  BY <1>1, <1>3, <1>4 DEF LfInv, Chained

LEMMA LfInductive == LfInv /\ ~reused' /\ [Next]_vars => LfInv'
  BY LfPutInductive, LfGetInductive, LfStutters DEF Next

\* Once a node was reused too early, that has happened.
LEMMA ReusedStays == [Next]_vars => (reused => reused')
  BY DEF Next, PutStep, GetStep, PutStart, PutXchg, PutLink, PutWake, GetStart, GetTimeout,
         GetLoad, GetSeq, GetTest, GetNext, GetDcas, GetHead, GetDcas0, GetCasHead, GetSpin,
         GetStore, GetWait, Swap, Retry, vars, history

Safe == ~reused => LfInv

LEMMA SafeInductive == Safe /\ [Next]_vars => Safe'
  BY LfInductive, ReusedStays DEF Safe

-----------------------------------------------------------------------------
(***************************************************************************)
(* The types hold whatever happens.                                        *)
(***************************************************************************)

LEMMA TypedInit == Init => Typed
  BY LfInit DEF Init, Typed, LfInv, AtNode, Threads

\* A putter moves.
LEMMA PutTyped ==
    ASSUME Typed, NEW t \in Putters,
           PutStep(t) \/ \E n, m \in Nodes : PutStart(t, n, m)
    PROVE  Typed'
<1> USE DEF Typed, history, queue, locals
<1>1. ASSUME NEW n \in Nodes, NEW m \in Nodes, PutStart(t, n, m) PROVE Typed'
  <2>1. LfTypes'
    BY <1>1 DEF PutStart, Goto, LfTypes, PutterAt, GetterAt, Threads
  <2>2. AtNode' /\ reused' \in BOOLEAN
    BY <1>1 DEF PutStart, Goto, LfTypes, AtNode, InUse, Threads
  <2> QED
    BY <2>1, <2>2
<1>2. CASE PutXchg(t)
  <2>1. PICK n \in Nodes, m \in Nodes : data[t] = <<n, m>>
    BY <1>2 DEF PutXchg, LfTypes
  <2>2. items' \in Seq(Nodes)
    BY <1>2, <2>1, Appended DEF PutXchg, LfTypes
  <2>3. phead' \in Nodes /\ prev' \in [Putters -> Nodes \cup {TAIL, NULL}]
    BY <1>2, <2>1 DEF PutXchg, LfTypes
  <2>4. LfTypes'
    BY <1>2, <2>1, <2>2, <2>3 DEF PutXchg, Goto, LfTypes, PutterAt, GetterAt, Threads
  <2>5. AtNode' /\ reused' \in BOOLEAN
    BY <1>2 DEF PutXchg, Goto, LfTypes, AtNode, Threads
  <2> QED
    BY <2>4, <2>5
<1>3. CASE PutLink(t)
  <2>1. PICK n \in Nodes, m \in Nodes : data[t] = <<n, m>>
    BY <1>3 DEF PutLink, LfTypes
  <2>2. prev[t] \in Nodes \cup {TAIL}
    BY <1>3 DEF PutLink, AtNode
  <2>3. next' \in [Nodes \cup {TAIL} -> Nodes \cup {NULL}]
    BY <1>3, <2>1, <2>2 DEF PutLink, LfTypes
  <2>4. PICK l \in {"wake", "idle"} : pc' = [pc EXCEPT ![t] = l]
    BY <1>3 DEF PutLink, Goto
  <2>5. LfTypes'
    BY <1>3, <2>3, <2>4 DEF PutLink, LfTypes, PutterAt, GetterAt, Threads
  <2>6. AtNode' /\ reused' \in BOOLEAN
    BY <1>3, <2>4 DEF PutLink, LfTypes, AtNode, Threads
  <2> QED
    BY <2>5, <2>6
<1>4. CASE PutWake(t)
  <2>1. /\ pc' \in [Threads -> PutterAt \cup GetterAt]
        /\ \A u \in Putters : u # t => pc'[u] = pc[u]
        /\ pc'[t] = "idle"
        /\ \A g \in Getters : pc'[g] = pc[g] \/ pc'[g] = "load"
    <3>0. t \notin Getters /\ "idle" \in PutterAt /\ "load" \in GetterAt
      BY DEF PutterAt, GetterAt
    <3>1. CASE pc' = [pc EXCEPT ![t] = "idle"]
      BY <3>0, <3>1 DEF LfTypes, Threads
    <3>2. CASE \E g \in Getters : pc' = [pc EXCEPT ![t] = "idle", ![g] = "load"]
      <4>1. PICK g \in Getters : pc' = [pc EXCEPT ![t] = "idle", ![g] = "load"]
        BY <3>2
      <4> QED
        BY <3>0, <4>1 DEF LfTypes, Threads
    <3> QED
      BY <1>4, <3>1, <3>2 DEF PutWake, Goto
  <2>2. UNCHANGED <<queue, locals, free, puts, history>>
    BY <1>4 DEF PutWake
  <2>3. LfTypes'
    BY <2>1, <2>2 DEF LfTypes, PutterAt, GetterAt
  <2>4. AtNode' /\ reused' \in BOOLEAN
    BY <2>1, <2>2 DEF AtNode
  <2> QED
    BY <2>3, <2>4
<1> QED
  BY <1>1, <1>2, <1>3, <1>4 DEF PutStep

\* A getter's new locals and place have their types.
LEMMA GetTypes ==
    ASSUME Typed, NEW t \in Getters, NEW l \in GetterAt,
           pc' = [pc EXCEPT ![t] = l],
           next' \in [Nodes \cup {TAIL} -> Nodes \cup {NULL}],
           seq' \in Nat, phead' \in Nodes \cup {TAIL},
           tail' \in [Getters -> [ptr : Nodes \cup {NULL}, seq : Nat]],
           xchg' \in [Getters -> Nodes \cup {NULL}],
           free' \subseteq Nodes, items' \in Seq(Nodes),
           got' \in [Getters -> Nodes \cup {NULL}],
           UNCHANGED <<data, prev, puts, reused>>,
           \A u \in Getters : u # t => tail'[u] = tail[u],
           l \in {"next", "dcas", "head", "dcas0", "cashead", "spin", "store"}
               => tail'[t].ptr \in Nodes
    PROVE  Typed'
<1>1. LfTypes'
  BY DEF Typed, LfTypes, PutterAt, GetterAt, Threads
<1>2. AtNode'
  BY DEF Typed, LfTypes, AtNode, PutterAt, GetterAt, Threads
<1> QED
  BY <1>1, <1>2 DEF Typed

LEMMA ReturnTypes ==
    ASSUME Typed, NEW t \in Getters, NEW l, Return(t, l)
    PROVE  /\ tail' \in [Getters -> [ptr : Nodes \cup {NULL}, seq : Nat]]
           /\ \A u \in Getters : u # t => tail'[u] = tail[u]
           /\ xchg' \in [Getters -> Nodes \cup {NULL}]
           /\ free' \subseteq Nodes
           /\ pc' = [pc EXCEPT ![t] = l]
  BY DEF Typed, LfTypes, Return, Goto, NoTail

LEMMA ReturnTyped ==
    ASSUME Typed, NEW t \in Getters, NEW l \in {"idle", "wait"}, Return(t, l),
           next' \in [Nodes \cup {TAIL} -> Nodes \cup {NULL}],
           seq' \in Nat, phead' \in Nodes \cup {TAIL}, items' \in Seq(Nodes),
           got' \in [Getters -> Nodes \cup {NULL}],
           UNCHANGED <<data, prev, puts, reused>>
    PROVE  Typed'
<1>1. l \in GetterAt /\ l \notin {"next", "dcas", "head", "dcas0", "cashead", "spin", "store"}
  BY DEF GetterAt
<1>2. /\ tail' \in [Getters -> [ptr : Nodes \cup {NULL}, seq : Nat]]
      /\ \A u \in Getters : u # t => tail'[u] = tail[u]
      /\ xchg' \in [Getters -> Nodes \cup {NULL}]
      /\ free' \subseteq Nodes
      /\ pc' = [pc EXCEPT ![t] = l]
  BY ReturnTypes
<1> QED
  BY <1>1, <1>2, GetTypes

LEMMA SwapTyped ==
    ASSUME Typed, NEW t \in Getters, NEW new \in Nodes \cup {NULL}, Swap(t, new)
    PROVE  /\ next' \in [Nodes \cup {TAIL} -> Nodes \cup {NULL}]
           /\ seq' \in Nat /\ items' \in Seq(Nodes)
           /\ got' \in [Getters -> Nodes \cup {NULL}]
           /\ reused' = reused
  BY DEF Typed, LfTypes, Swap

LEMMA GetTyped ==
    ASSUME Typed, NEW t \in Getters, GetStep(t) \/ GetStart(t) \/ GetTimeout(t)
    PROVE  Typed'
<1> USE DEF history, queue, locals
<1>a. /\ LfTypes /\ {"idle", "load", "seq", "test", "next", "dcas", "head", "dcas0", "cashead", "spin",
             "store", "wait", "sleep"} \subseteq GetterAt
  BY DEF Typed, GetterAt
<1>b. pc[t] \in {"next", "dcas", "head", "dcas0", "cashead", "spin", "store"} => tail[t].ptr \in Nodes
  BY DEF Typed, AtNode
<1>c. tail[t] \in [ptr : Nodes \cup {NULL}, seq : Nat] /\ next[TAIL] \in Nodes \cup {NULL} /\ seq \in Nat
  BY DEF Typed, LfTypes
<1>1. CASE GetStart(t)
  BY <1>1, <1>a, GetTypes DEF GetStart, Goto, LfTypes
<1>2. CASE GetLoad(t)
  <2>1. tail' \in [Getters -> [ptr : Nodes \cup {NULL}, seq : Nat]]
    <3>1. [tail[t] EXCEPT !.ptr = next[TAIL]] \in [ptr : Nodes \cup {NULL}, seq : Nat]
      BY <1>c
    <3> QED
      BY <1>2, <1>a, <3>1 DEF GetLoad, LfTypes
  <2>2. \A u \in Getters : u # t => tail'[u] = tail[u]
    BY <1>2, <1>a DEF GetLoad, LfTypes
  <2> QED
    BY <1>2, <1>a, <2>1, <2>2, GetTypes DEF GetLoad, Goto, LfTypes
<1>3. CASE GetSeq(t)
  <2>1. tail' \in [Getters -> [ptr : Nodes \cup {NULL}, seq : Nat]]
    <3>1. [tail[t] EXCEPT !.seq = seq] \in [ptr : Nodes \cup {NULL}, seq : Nat]
      BY <1>c
    <3> QED
      BY <1>3, <1>a, <3>1 DEF GetSeq, LfTypes
  <2>2. \A u \in Getters : u # t => tail'[u] = tail[u]
    BY <1>3, <1>a DEF GetSeq, LfTypes
  <2> QED
    BY <1>3, <1>a, <2>1, <2>2, GetTypes DEF GetSeq, Goto, LfTypes
<1>4. CASE GetTest(t)
  <2>1. CASE tail[t].ptr = NULL
    <3>1. PICK l \in {"idle", "wait"} : Return(t, l)
      BY <1>4, <2>1 DEF GetTest
    <3> QED
      BY <1>4, <1>a, <3>1, ReturnTyped DEF GetTest, LfTypes
  <2>2. CASE tail[t].ptr # NULL
    <3>1. PICK l \in {"next", "head"} : Goto(t, l)
      BY <1>4, <2>2 DEF GetTest
    <3>2. tail[t].ptr \in Nodes
      BY <1>c, <2>2
    <3> QED
      BY <1>4, <1>a, <2>2, <3>1, <3>2, GetTypes DEF GetTest, Goto, LfTypes
  <2> QED
    BY <2>1, <2>2
<1>5. CASE GetNext(t)
  <2>1. xchg' \in [Getters -> Nodes \cup {NULL}]
    BY <1>5, <1>a, <1>b DEF GetNext, LfTypes
  <2> QED
    BY <1>5, <1>a, <1>b, <2>1, GetTypes DEF GetNext, Goto, LfTypes
<1>6. ASSUME Retry(t), UNCHANGED <<phead, data, prev, puts>> PROVE Typed'
  <2>1. /\ tail' \in [Getters -> [ptr : Nodes \cup {NULL}, seq : Nat]]
        /\ \A u \in Getters : u # t => tail'[u] = tail[u]
    BY <1>6, <1>a, <1>c DEF Retry, LfTypes
  <2> QED
    BY <1>6, <1>a, <2>1, GetTypes DEF Retry, Goto, LfTypes
<1>7. CASE GetDcas(t)
  <2>1. CASE Swap(t, xchg[t]) /\ Return(t, "idle")
    <3>1. xchg[t] \in Nodes \cup {NULL}
      BY <1>a DEF LfTypes
    <3> QED
      BY <1>7, <1>a, <2>1, <3>1, SwapTyped, ReturnTyped DEF GetDcas, LfTypes
  <2> QED
    BY <1>6, <1>7, <2>1 DEF GetDcas
<1>8. CASE GetHead(t)
  <2>1. PICK l \in {"load", "dcas0"} : Goto(t, l)
    BY <1>8 DEF GetHead
  <2> QED
    BY <1>8, <1>a, <1>b, <2>1, GetTypes DEF GetHead, Goto, LfTypes
<1>9. CASE GetDcas0(t)
  <2>1. CASE Swap(t, NULL) /\ Goto(t, "cashead") /\ UNCHANGED <<tail, xchg, free>>
    BY <1>9, <1>a, <1>b, <2>1, SwapTyped, GetTypes DEF GetDcas0, Goto, LfTypes
  <2> QED
    BY <1>6, <1>9, <2>1 DEF GetDcas0
<1>10. CASE GetCasHead(t)
  <2>1. CASE phead' = TAIL /\ Return(t, "idle")
    BY <1>10, <1>a, <2>1, ReturnTyped DEF GetCasHead, LfTypes
  <2>2. CASE Goto(t, "spin") /\ UNCHANGED <<phead, tail, xchg, free>>
    BY <1>10, <1>a, <1>b, <2>2, GetTypes DEF GetCasHead, Goto, LfTypes
  <2> QED
    BY <1>10, <2>1, <2>2 DEF GetCasHead
<1>11. CASE GetSpin(t)
  <2>1. xchg' \in [Getters -> Nodes \cup {NULL}]
    BY <1>11, <1>a, <1>b DEF GetSpin, LfTypes
  <2> QED
    BY <1>11, <1>a, <1>b, <2>1, GetTypes DEF GetSpin, Goto, LfTypes
<1>12. CASE GetStore(t)
  <2>1. next' \in [Nodes \cup {TAIL} -> Nodes \cup {NULL}] /\ Return(t, "idle")
    BY <1>12, <1>a DEF GetStore, LfTypes
  <2> QED
    BY <1>12, <1>a, <2>1, ReturnTyped DEF GetStore, LfTypes
<1>13. CASE GetWait(t) \/ GetTimeout(t)
  <2>1. PICK l \in {"sleep", "load", "idle"} : pc' = [pc EXCEPT ![t] = l]
    BY <1>13 DEF GetWait, GetTimeout, Goto
  <2> QED
    BY <1>13, <1>a, <2>1, GetTypes DEF GetWait, GetTimeout, LfTypes
<1> QED
  BY <1>1, <1>2, <1>3, <1>4, <1>5, <1>7, <1>8, <1>9, <1>10, <1>11, <1>12, <1>13 DEF GetStep

LEMMA TypedInductive == Typed /\ [Next]_vars => Typed'
<1> SUFFICES ASSUME Typed, [Next]_vars PROVE Typed'
  OBVIOUS
<1>1. CASE UNCHANGED vars
  BY <1>1 DEF vars, queue, locals, history, Typed, LfTypes, AtNode
<1> QED
  BY <1>1, PutTyped, GetTyped DEF Next

-----------------------------------------------------------------------------
(***************************************************************************)
(* A sole consumer never meets a node that was put again.                  *)
(***************************************************************************)

Sole == \A g, h \in Getters : g = h

\* What the get looks at is not free to be put.
Guarded ==
    \A t \in Getters : pc[t] \notin {"idle", "load", "sleep", "wait"} => tail[t].ptr \notin free

LEMMA TailNotFree ==
    ASSUME LfInv PROVE next[TAIL] \notin free
<1>1. CASE next[TAIL] = NULL
  BY <1>1 DEF LfInv, LfTypes
<1>2. CASE next[TAIL] # NULL
  <2>1. Len(items) \in Nat \ {0} /\ next[TAIL] = items[1]
    BY <1>2, TailIsFirst
  <2> QED
    BY <2>1 DEF LfInv, Places
<1> QED
  BY <1>1, <1>2

LEMMA SoleGet ==
    ASSUME Sole, LfInv, Guarded, NEW t \in Getters, GetStep(t) \/ GetStart(t) \/ GetTimeout(t)
    PROVE  Guarded'
<1> USE DEF history, queue, locals
<1>1. \A u \in Getters : u = t
  BY DEF Sole
<1>2. next[TAIL] \notin free /\ NULL \notin free
  BY TailNotFree DEF LfInv, LfTypes
<1>3. SUFFICES ASSUME pc'[t] \notin {"idle", "load", "sleep", "wait"}
               PROVE  tail'[t].ptr \notin free'
  BY <1>1 DEF Guarded
<1>4. pc \in [Threads -> PutterAt \cup GetterAt] /\ t \in Threads /\ tail \in [Getters -> [ptr : Nodes \cup {NULL}, seq : Nat]]
  BY DEF LfInv, LfTypes, Threads
<1>5. \A l : Return(t, l) => pc'[t] = l
  BY <1>4 DEF Return, Goto
<1>6. CASE GetLoad(t) \/ GetSeq(t)
  BY <1>2, <1>4, <1>6 DEF GetLoad, GetSeq, Guarded
<1>7. CASE Retry(t)
  BY <1>2, <1>4, <1>7 DEF Retry
<1>8. CASE UNCHANGED <<tail, free>> /\ pc[t] \notin {"idle", "load", "sleep", "wait"}
  BY <1>8 DEF Guarded
<1>9. CASE GetStart(t) \/ GetTimeout(t) \/ GetWait(t)
  BY <1>3, <1>4, <1>9 DEF GetStart, GetTimeout, GetWait, Goto
<1>10. CASE GetTest(t) \/ GetNext(t) \/ GetHead(t) \/ GetSpin(t) \/ GetStore(t)
  BY <1>3, <1>5, <1>8, <1>10 DEF GetTest, GetNext, GetHead, GetSpin, GetStore
<1>11. CASE GetDcas(t) \/ GetDcas0(t) \/ GetCasHead(t)
  BY <1>3, <1>5, <1>7, <1>8, <1>11 DEF GetDcas, GetDcas0, GetCasHead
<1> QED
  BY <1>6, <1>9, <1>10, <1>11 DEF GetStep

LEMMA SolePut ==
    ASSUME LfInv, Guarded, ~reused, NEW t \in Putters,
           PutStep(t) \/ \E n, m \in Nodes : PutStart(t, n, m)
    PROVE  Guarded' /\ ~reused'
<1> USE DEF history, queue, locals
<1>0. t \notin Getters /\ pc \in [Threads -> PutterAt \cup GetterAt] /\ Getters \subseteq Threads
  BY DEF LfInv, LfTypes, Threads
<1>1. ASSUME NEW n \in Nodes, NEW m \in Nodes, PutStart(t, n, m) PROVE Guarded' /\ ~reused'
  <2>1. /\ n \in free /\ m \in free /\ free' = free \ {n, m} /\ tail' = tail
        /\ pc' = [pc EXCEPT ![t] = "xchg"]
        /\ reused' = (reused \/ InUse(n) \/ InUse(m))
    BY <1>1 DEF PutStart, Goto
  <2>2. ~InUse(n) /\ ~InUse(m)
    BY <2>1 DEF InUse, Guarded
  <2> QED
    BY <1>0, <2>1, <2>2 DEF Guarded
<1>2. CASE PutXchg(t) \/ PutLink(t)
  <2>1. \A u \in Getters : pc'[u] = pc[u]
    BY <1>0, <1>2 DEF PutXchg, PutLink, Goto
  <2> QED
    BY <1>2, <2>1 DEF PutXchg, PutLink, Guarded
<1>3. CASE PutWake(t)
  <2>1. \A u \in Getters : pc'[u] = pc[u] \/ pc'[u] = "load"
    <3>1. CASE pc' = [pc EXCEPT ![t] = "idle"]
      BY <1>0, <3>1
    <3>2. CASE \E g \in Getters : pc' = [pc EXCEPT ![t] = "idle", ![g] = "load"]
      BY <1>0, <3>2
    <3> QED
      BY <1>3, <3>1, <3>2 DEF PutWake, Goto
  <2> QED
    BY <1>3, <2>1 DEF PutWake, Guarded
<1> QED
  BY <1>1, <1>2, <1>3 DEF PutStep

SoleInv == LfInv /\ Guarded /\ ~reused

LEMMA SoleInit == Init => SoleInv
  BY LfInit DEF Init, SoleInv, Guarded, Threads

LEMMA SoleInductive == Sole /\ SoleInv /\ [Next]_vars => SoleInv'
<1> SUFFICES ASSUME Sole, SoleInv, [Next]_vars PROVE SoleInv'
  OBVIOUS
<1>1. Guarded' /\ ~reused'
  <2>1. CASE UNCHANGED vars
    BY <2>1 DEF vars, locals, history, SoleInv, Guarded
  <2>2. ASSUME NEW t \in Getters, GetStep(t) \/ GetStart(t) \/ GetTimeout(t)
        PROVE  Guarded' /\ ~reused'
    <3>1. reused' = reused
      BY <2>2 DEF GetStep, GetStart, GetTimeout, GetLoad, GetSeq, GetTest, GetNext, GetDcas,
            GetHead, GetDcas0, GetCasHead, GetSpin, GetStore, GetWait, Swap, Retry, history
    <3> QED
      BY <2>2, <3>1, SoleGet DEF SoleInv
  <2> QED
    BY <2>1, <2>2, SolePut DEF SoleInv, Next
<1>2. LfInv'
  BY <1>1, LfInductive DEF SoleInv
<1> QED
  BY <1>1, <1>2 DEF SoleInv

-----------------------------------------------------------------------------
(***************************************************************************)
(* The number of takes is bounded by the number of puts.                   *)
(***************************************************************************)

LEMMA CountedInit == Init => Counted
<1> SUFFICES ASSUME Init PROVE Counted
  OBVIOUS
<1>1. Carrying = {} /\ Len(items) = 0 /\ seq = 0 /\ puts = 0
  BY DEF Init, Carrying, Threads
<1> QED
  BY <1>1, FS_EmptySet DEF Counted

LEMMA CountedStep == LfInv /\ Counted /\ [Next]_vars => Counted'
<1> SUFFICES ASSUME LfInv, Counted, [Next]_vars PROVE Counted'
  OBVIOUS
<1> USE DEF history, queue, locals
<1>1. /\ seq \in Nat /\ Len(items) \in Nat /\ puts \in Nat
      /\ IsFiniteSet(Carrying) /\ Cardinality(Carrying) \in Nat
      /\ seq + Len(items) + 2 * Cardinality(Carrying) <= 2 * puts
  BY FS_CardinalityType DEF LfInv, LfTypes, Counted
<1>2. ASSUME Carrying' = Carrying, UNCHANGED <<seq, items, puts>> PROVE Counted'
  BY <1>2 DEF Counted
<1>3. ASSUME NEW t \in Putters, NEW n \in Nodes, NEW m \in Nodes, PutStart(t, n, m)
      PROVE  Counted'
  <2>1. Carrying' = Carrying \cup {t} /\ t \notin Carrying
    BY <1>3 DEF PutStart, Goto, Carrying, LfInv, LfTypes, Threads
  <2>2. IsFiniteSet(Carrying') /\ Cardinality(Carrying') = Cardinality(Carrying) + 1
    BY <1>1, <2>1, FS_AddElement
  <2>3. seq' = seq /\ items' = items /\ puts' = puts + 1
    BY <1>3 DEF PutStart
  <2> QED
    BY <1>1, <2>2, <2>3 DEF Counted
<1>4. ASSUME NEW t \in Putters, PutXchg(t) PROVE Counted'
  <2>1. Carrying' = Carrying \ {t} /\ t \in Carrying
    BY <1>4 DEF PutXchg, Goto, Carrying, LfInv, LfTypes, Threads
  <2>2. IsFiniteSet(Carrying') /\ Cardinality(Carrying') = Cardinality(Carrying) - 1
    BY <1>1, <2>1, FS_RemoveElement
  <2>3. Len(items') \in Nat /\ Len(items') <= Len(items) + 2
    <3>1. PICK n \in Nodes, m \in Nodes : data[t] = <<n, m>>
      BY <1>4 DEF PutXchg, LfInv, Carried
    <3>2. items' = items \o (IF n = m THEN <<n>> ELSE <<n, m>>)
      BY <1>4, <3>1 DEF PutXchg
    <3>3. items \in Seq(Nodes)
      BY DEF LfInv, LfTypes
    <3> QED
      BY <3>2, <3>3, Appended
  <2>4. seq' = seq /\ puts' = puts
    BY <1>4 DEF PutXchg
  <2> QED
    BY <1>1, <2>2, <2>3, <2>4 DEF Counted
<1>5. ASSUME NEW t \in Putters, PutLink(t) \/ PutWake(t) PROVE Counted'
  <2>1. /\ UNCHANGED <<seq, items, puts>>
        /\ \A u \in Putters : pc'[u] = "xchg" <=> pc[u] = "xchg"
    <3>1. CASE PutLink(t)
      BY <3>1 DEF PutLink, Goto, LfInv, LfTypes, Threads
    <3>2. CASE PutWake(t)
      BY <3>2 DEF PutWake, Goto, LfInv, LfTypes, Threads
    <3> QED
      BY <1>5, <3>1, <3>2
  <2> QED
    BY <1>2, <2>1 DEF Carrying
<1>6. ASSUME NEW t \in Getters, GetStep(t) \/ GetStart(t) \/ GetTimeout(t) PROVE Counted'
  <2>1. \A u \in Putters : pc'[u] = pc[u]
    BY <1>6 DEF GetStep, GetStart, GetTimeout, GetLoad, GetSeq, GetTest, GetNext, GetDcas,
          GetHead, GetDcas0, GetCasHead, GetSpin, GetStore, GetWait, Return, Retry, Goto,
          LfInv, LfTypes, Threads
  <2>2. Carrying' = Carrying
    BY <2>1 DEF Carrying
  <2>3. puts' = puts
    BY <1>6 DEF GetStep, GetStart, GetTimeout, GetLoad, GetSeq, GetTest, GetNext, GetDcas,
          GetHead, GetDcas0, GetCasHead, GetSpin, GetStore, GetWait
  <2>4. CASE \E new : Swap(t, new)
    <3>1. PICK new : Swap(t, new)
      BY <2>4
    <3>2. tail[t].ptr \in Nodes
      BY <1>6, <3>1 DEF GetStep, GetStart, GetTimeout, GetLoad, GetSeq, GetTest, GetNext,
            GetDcas, GetHead, GetDcas0, GetCasHead, GetSpin, GetStore, GetWait, Swap, LfInv, LfTypes,
            Looking
    <3>3. Len(items') = Len(items) - 1 /\ Len(items) # 0
      BY <3>1, <3>2, SwapTakesFirst
    <3>4. seq' = seq + 1
      BY <3>1 DEF Swap
    <3> QED
      BY <1>1, <2>2, <2>3, <3>3, <3>4 DEF Counted
  <2>5. CASE ~ \E new : Swap(t, new)
    <3>1. UNCHANGED <<seq, items>>
      BY <1>6, <2>5 DEF GetStep, GetStart, GetTimeout, GetLoad, GetSeq, GetTest, GetNext,
            GetDcas, GetHead, GetDcas0, GetCasHead, GetSpin, GetStore, GetWait, Retry
    <3> QED
      BY <1>2, <2>2, <2>3, <3>1
  <2> QED
    BY <2>4, <2>5
<1>7. CASE UNCHANGED vars
  BY <1>2, <1>7 DEF vars, Carrying
<1> QED
  BY <1>3, <1>4, <1>5, <1>6, <1>7 DEF Next, PutStep

-----------------------------------------------------------------------------
(***************************************************************************)
(* The theorems.                                                           *)
(***************************************************************************)

\* The nodes of a queue are no more than there are nodes.
LEMMA QueueFits ==
    ASSUME LfInv
    PROVE  Cardinality(Nodes) \in Nat /\ Len(items) <= Cardinality(Nodes)
<1>1. Len(items) \in Nat /\ items \in [1 .. Len(items) -> Nodes]
  BY DEF LfInv, LfTypes
<1>2. \A i, j \in 1 .. Len(items) : items[i] = items[j] => i = j
  BY <1>1 DEF LfInv, Places, Place
<1>3. items \in Injection(1 .. Len(items), Nodes)
  BY <1>1, <1>2 DEF Injection, IsInjective
<1>4. Cardinality(1 .. Len(items)) <= Cardinality(Nodes)
  BY <1>3, FS_Injection
<1>5. Cardinality(1 .. Len(items)) = Len(items)
  BY <1>1, FS_Interval
<1> QED
  BY <1>4, <1>5, FS_CardinalityType

\* Following next from tail visits the nodes of a queue that nobody is changing.
LEMMA ChainIsItems ==
    ASSUME LfInv, Takers = {}, \A t \in Putters : pc[t] # "link"
    PROVE  Chain = Append(items, NULL)
<1> DEFINE N == Cardinality(Nodes) + 1
           L == Len(items)
           Unfolds(s) ==
               s = [i \in 0 .. Cardinality(Nodes) + 1 |->
                       IF i = 0 THEN TAIL
                       ELSE IF s[i - 1] = NULL THEN NULL ELSE next[s[i - 1]]]
           step[i \in 0 .. Cardinality(Nodes) + 1] ==
               IF i = 0 THEN TAIL
               ELSE IF step[i - 1] = NULL THEN NULL ELSE next[step[i - 1]]
           visit == [i \in 0 .. Cardinality(Nodes) + 1 |->
                        IF i = 0 THEN TAIL ELSE IF i <= Len(items) THEN items[i] ELSE NULL]
<1>1. Chain = [i \in 1 .. L + 1 |-> step[i]]
  BY DEF Chain
<1>2. /\ N \in Nat /\ L \in Nat /\ L + 1 <= N
      /\ items \in Seq(Nodes) /\ \A i \in 1 .. L : items[i] \in Nodes
  BY QueueFits DEF LfInv, LfTypes
<1>3. Place(0) = TAIL /\ \A i \in 1 .. L : Place(i) = items[i]
  BY BaseIs, <1>2 DEF Place
<1>4. \A i \in 0 .. L - 1 : next[Place(i)] = items[i + 1]
  BY DEF LfInv, Links, Gap
<1>5. next[Place(L)] = NULL
  BY DEF LfInv, Links
<1>6. \A i \in 1 .. N : visit[i] = IF visit[i - 1] = NULL THEN NULL ELSE next[visit[i - 1]]
  <2> TAKE i \in 1 .. N
  <2>1. i - 1 \in 0 .. N
    BY <1>2
  <2>2. CASE i <= L
    <3>1. i - 1 \in 0 .. L - 1 /\ visit[i - 1] = Place(i - 1) /\ visit[i] = items[i]
      BY <1>2, <1>3, <2>1, <2>2
    <3>2. next[Place(i - 1)] = items[i - 1 + 1]
      BY <1>4, <3>1
    <3>3. Place(i - 1) # NULL
      BY <1>2, <1>3, <3>1
    <3> QED
      BY <3>1, <3>2, <3>3
  <2>3. CASE i = L + 1
    <3>1. visit[i - 1] = Place(L) /\ visit[i] = NULL
      BY <1>2, <1>3, <2>1, <2>3
    <3> QED
      BY <1>5, <3>1
  <2>4. CASE i > L + 1
    BY <1>2, <2>1, <2>4
  <2> QED
    BY <1>2, <2>2, <2>3, <2>4
<1>7. Unfolds(visit)
  <2>1. visit[0] = TAIL /\ \A i \in 0 .. N : i = 0 \/ i \in 1 .. N
    BY <1>2
  <2>2. visit = [i \in 0 .. N |-> visit[i]]
    OBVIOUS
  <2> HIDE DEF visit
  <2>3. \A i \in 0 .. N : visit[i] = IF i = 0 THEN TAIL
                                   ELSE IF visit[i - 1] = NULL THEN NULL ELSE next[visit[i - 1]]
    BY <1>6, <2>1
  <2> QED
    BY <2>2, <2>3
<1>8. Unfolds(step)
  BY <1>7 DEF step
<1> HIDE DEF visit, step
<1>12. \A i \in 1 .. N : step[i] = IF step[i - 1] = NULL THEN NULL ELSE next[step[i - 1]]
  BY <1>2, <1>8
<1> DEFINE P == {i \in Nat : i <= N => step[i] = visit[i]}
<1>9. \A i \in Nat : i \in P
  <2>1. 0 \in P
    BY <1>2, <1>7, <1>8
  <2>2. ASSUME NEW i \in Nat, i \in P PROVE i + 1 \in P
    <3>1. CASE i + 1 <= N
      <4>1. i + 1 \in 1 .. N
        BY <1>2, <3>1
      <4>2. step[i + 1] = IF step[i + 1 - 1] = NULL THEN NULL ELSE next[step[i + 1 - 1]]
        BY <1>12, <4>1
      <4>3. visit[i + 1] = IF visit[i + 1 - 1] = NULL THEN NULL ELSE next[visit[i + 1 - 1]]
        BY <1>6, <4>1
      <4>4. step[i] = visit[i]
        BY <1>2, <2>2, <3>1
      <4>5. i + 1 - 1 = i
        OBVIOUS
      <4> QED
        BY <4>2, <4>3, <4>4, <4>5
    <3> QED
      BY <3>1
  <2> HIDE DEF P
  <2> QED
    BY <2>1, <2>2, NatInSet
<1>10. \A i \in 1 .. L + 1 : step[i] = IF i <= L THEN items[i] ELSE NULL
  <2> TAKE i \in 1 .. L + 1
  <2>1. i \in Nat /\ i <= N /\ i # 0 /\ i \in 0 .. N
    BY <1>2
  <2>2. step[i] = visit[i]
    BY <1>9, <2>1
  <2>3. visit[i] = IF i <= L THEN items[i] ELSE NULL
    BY <2>1 DEF visit
  <2> QED
    BY <2>2, <2>3
<1>11. Append(items, NULL) = [i \in 1 .. L + 1 |-> IF i <= L THEN items[i] ELSE NULL]
  <2> DEFINE a == Append(items, NULL)
             S == Nodes \cup {NULL}
  <2>1. items \in Seq(S) /\ NULL \in S
    BY <1>2
  <2>2. /\ a \in Seq(S) /\ Len(a) = L + 1
        /\ \A i \in 1 .. L : a[i] = items[i]
        /\ a[L + 1] = NULL
    <3> HIDE DEF S
    <3> QED
      BY <2>1, AppendProperties
  <2> HIDE DEF a
  <2>3. a = [i \in 1 .. L + 1 |-> a[i]]
    BY <2>2
  <2>4. \A i \in 1 .. L + 1 : a[i] = IF i <= L THEN items[i] ELSE NULL
    BY <1>2, <2>2
  <2> QED
    BY <2>3, <2>4 DEF a
<1> QED
  BY <1>1, <1>10, <1>11

\* The words of the queue and the locals of its threads never leave their types:
\* no thread follows a NULL pointer, and tail.m_seq counts no more takes than
\* there were nodes put.
THEOREM LfTypesHold == Spec => []TypeOK
<1> DEFINE SafeCount == ~reused => Counted
<1>1. Typed /\ Safe /\ SafeCount => TypeOK
  <2> SUFFICES ASSUME Typed, Safe, SafeCount PROVE TypeOK
    OBVIOUS
  <2>1. ASSUME ~reused PROVE seq <= MaxPuts * 2
    <3>1. /\ seq \in Nat /\ Len(items) \in Nat /\ puts \in 0 .. MaxPuts
          /\ Cardinality(Carrying) \in Nat
          /\ seq + Len(items) + 2 * Cardinality(Carrying) <= 2 * puts
      BY <2>1, FS_CardinalityType DEF Safe, LfInv, LfTypes, Counted
    <3> QED
      BY <3>1
  <2> QED
    BY <2>1 DEF Typed, LfTypes, AtNode, TypeOK
<1>2. Init => Safe /\ SafeCount
  BY LfInit, CountedInit DEF Safe
<1>3. Safe /\ SafeCount /\ [Next]_vars => SafeCount'
  BY CountedStep, ReusedStays DEF Safe
<1> QED
  BY <1>1, <1>2, <1>3, TypedInit, TypedInductive, SafeInductive, PTL DEF Spec

\* tail.m_ptr is NULL while the queue holds a node only for as long as a put is
\* about to store it, or a get is about to repair it.
THEOREM EmptyWhenNull == Spec => []NullMeansEmpty
<1>1. Safe => NullMeansEmpty
  <2> SUFFICES ASSUME LfInv, next[TAIL] = NULL, items # <<>>,
                      \A t \in Getters : pc[t] \notin {"cashead", "spin", "store"}
               PROVE  \E t \in Putters : pc[t] = "link" /\ prev[t] = TAIL
    BY DEF Safe, NullMeansEmpty
  <2>1. Takers = {} /\ Place(0) = TAIL
    BY BaseIs DEF Takers, Place
  <2>2. 0 \in 0 .. Len(items) - 1 /\ items[0 + 1] \in Nodes
    BY DEF LfInv, LfTypes
  <2>3. \E t \in Putters : Gap(t, 0)
    BY <2>1, <2>2 DEF LfInv, Links
  <2> QED
    BY <2>1, <2>3 DEF Gap
<1>2. Init => Safe
  BY LfInit DEF Safe
<1> QED
  BY <1>1, <1>2, SafeInductive, PTL DEF Spec

\* Between calls the links hold the queue, from tail to phead.
THEOREM RestsLinked == Spec => []AtRest
<1>1. Safe => AtRest
  <2> SUFFICES ASSUME LfInv, \A t \in Threads : pc[t] \in {"idle", "sleep"}
               PROVE  /\ Chain = Append(items, NULL)
                      /\ phead = IF items = <<>> THEN TAIL ELSE items[Len(items)]
    BY DEF Safe, AtRest
  <2>1. Takers = {} /\ \A t \in Putters : pc[t] # "link"
    BY DEF Takers, Threads
  <2>2. Chain = Append(items, NULL)
    BY <2>1, ChainIsItems
  <2>3. items \in Seq(Nodes) /\ phead = Place(Len(items)) /\ Base = TAIL
    BY <2>1, BaseIs DEF LfInv, LfTypes, Places
  <2> QED
    BY <2>2, <2>3 DEF Place
<1>2. Init => Safe
  BY LfInit DEF Safe
<1> QED
  BY <1>1, <1>2, SafeInductive, PTL DEF Spec

-----------------------------------------------------------------------------
(***************************************************************************)
(* LfQueue implements Fifo.                                                *)
(***************************************************************************)

LEMMA FifoInit == Init => F!Init
  BY DEF Init, F!Init

LEMMA FifoStep == LfInv /\ [Next]_vars => [F!Next]_(F!vars)
<1> SUFFICES ASSUME LfInv, [Next]_vars PROVE F!Next \/ UNCHANGED F!vars
  OBVIOUS
<1> USE DEF history, queue, locals
<1>1. ASSUME NEW t \in Putters, PutXchg(t) PROVE F!Next
  <2>1. PICK n \in Nodes, m \in Nodes : data[t] = <<n, m>>
    BY <1>1 DEF PutXchg, LfInv, Carried
  <2>2. /\ items' = items \o (IF n = m THEN <<n>> ELSE <<n, m>>) /\ got' = got
        /\ items \in Seq(Nodes)
    BY <1>1, <2>1 DEF PutXchg, LfInv, LfTypes
  <2>3. n \notin F!Members /\ m \notin F!Members
    <3>1. Carries(t, n) /\ Carries(t, m)
      BY <1>1, <2>1 DEF PutXchg, Carries
    <3>2. \A i \in 1 .. Len(items) : Place(i) # n /\ Place(i) # m
      BY <2>2, <3>1 DEF LfInv, Carried
    <3> QED
      BY <2>2, <3>2 DEF F!Members, Place
  <2>4. CASE n = m
    <3>1. items' = Append(items, n)
      BY <2>2, <2>4
    <3> QED
      BY <2>2, <2>3, <3>1 DEF F!Next, F!Put
  <2>5. CASE n # m
    BY <2>2, <2>3, <2>5 DEF F!Next, F!PutTwo
  <2> QED
    BY <2>4, <2>5
<1>2. ASSUME NEW t \in Putters, NEW n \in Nodes, NEW m \in Nodes, PutStart(t, n, m)
      PROVE  UNCHANGED F!vars
  BY <1>2 DEF PutStart, F!vars
<1>3. ASSUME NEW t \in Putters, PutLink(t) \/ PutWake(t) PROVE UNCHANGED F!vars
  BY <1>3 DEF PutLink, PutWake, F!vars
<1>4. ASSUME NEW t \in Getters, GetStart(t) PROVE F!Next
  BY <1>4 DEF GetStart, F!Next, F!Forget
<1>5. ASSUME NEW t \in Getters, NEW new, Swap(t, new), pc[t] \in {"dcas", "dcas0"}
      PROVE  F!Next
  <2>1. tail[t].ptr \in Nodes
    BY <1>5 DEF LfInv, Looking
  <2>2. tail[t].ptr = items[1] /\ items' = Tail(items) /\ Len(items) # 0
    BY <1>5, <2>1, SwapTakesFirst
  <2>3. items # <<>> /\ Head(items) = items[1]
    BY <2>2 DEF LfInv, LfTypes
  <2>4. got' = [got EXCEPT ![t] = tail[t].ptr]
    BY <1>5 DEF Swap
  <2>5. F!Get(t)
    BY <2>2, <2>3, <2>4 DEF F!Get
  <2> QED
    BY <2>5 DEF F!Next
<1>6. ASSUME NEW t \in Getters, GetDcas(t) \/ GetDcas0(t) PROVE F!Next \/ UNCHANGED F!vars
  BY <1>5, <1>6 DEF GetDcas, GetDcas0, Retry, F!vars
<1>7. ASSUME NEW t \in Getters,
             \/ GetLoad(t) \/ GetSeq(t) \/ GetTest(t) \/ GetNext(t) \/ GetHead(t)
             \/ GetCasHead(t) \/ GetSpin(t) \/ GetStore(t) \/ GetWait(t) \/ GetTimeout(t)
      PROVE  UNCHANGED F!vars
  BY <1>7 DEF GetLoad, GetSeq, GetTest, GetNext, GetHead, GetCasHead, GetSpin, GetStore, GetWait,
              GetTimeout, F!vars
<1>8. CASE UNCHANGED vars
  BY <1>8 DEF vars, F!vars
<1> QED
  BY <1>1, <1>2, <1>3, <1>4, <1>6, <1>7, <1>8 DEF Next, PutStep, GetStep

\* ls_lfqueue_put(), putn() and get(), whatever their interleaving and however many
\* threads there are, behave as a queue whose operations are atomic until a node is put
\* again while another get looks at it: a get takes the oldest node there is, and no node
\* is taken twice.
THEOREM LfQueueIsFifo == Spec => IsFifo
<1>1. Init => Safe
  BY LfInit DEF Safe
<1>2. Safe /\ [Next]_vars => [reused' \/ F!Next]_(F!vars)
  BY FifoStep, ReusedStays DEF Safe
<1> QED
  BY <1>1, <1>2, SafeInductive, FifoInit, PTL DEF Spec, IsFifo

\* With one consumer the queue is first in, first out without any condition, as in the
\* server, where the event loop alone takes finished jobs: nothing that get() looks at
\* can be put again under its eyes.
THEOREM OneConsumerFifo == Sole /\ Spec => F!Spec
<1> SUFFICES ASSUME Sole PROVE Spec => F!Spec
  OBVIOUS
<1>1. SoleInv /\ [Next]_vars => [F!Next]_(F!vars)
  BY FifoStep DEF SoleInv
<1> QED
  BY <1>1, SoleInit, SoleInductive, FifoInit, PTL DEF Spec, F!Spec
=============================================================================
