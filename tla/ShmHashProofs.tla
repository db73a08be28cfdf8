---------------------------- MODULE ShmHashProofs ----------------------------
(***************************************************************************)
(* Proofs about ShmHash, for any processes, keys, elements and capacities. *)
(***************************************************************************)
EXTENDS ShmHash, Iteration, FiniteSetTheorems, SequenceTheorems

USE ProcAssumption, ElemAssumption, CapacityAssumption, FactorAssumption

-----------------------------------------------------------------------------
(***************************************************************************)
(* Types and the lock.                                                     *)
(***************************************************************************)

MaxCap  == Capacities[Len(Capacities)]
Caps    == {Capacities[t] : t \in Tables}
Buckets == 0 .. MaxCap - 1

TableType == [hidx : Tables, hidxNew : Tables, cap : Caps, capNew : Nat, work : Offsets,
              size : 0 .. 2^SizeBits - 1]
ElemType  == [next : Offsets, key : Keys \cup {0}]
LocType   == [op : {"none", "insert", "set", "remove"}, key : Keys \cup {0},
              waitpid : Procs \cup {0}, ret : Int, it : Offsets, nx : Offsets,
              from : {"none", "find", "alloc"}]

ShmTypes ==
    /\ lock \in Procs \cup {LS_LOCK_AVAIL}
    /\ table \in TableType
    /\ idx \in [Tables -> [Buckets -> Offsets]]
    /\ elem \in [Elems -> ElemType]
    /\ used \in [elems : SUBSET Elems, tables : SUBSET Tables]
    /\ pc \in [Procs -> Labels]
    /\ loc \in [Procs -> LocType]
    /\ stored \subseteq Elems
    /\ crashes \in 0 .. MaxCrashes

\* The lock word is the process in the critical section; who is about to take the
\* lock over has seen its owner dead, and the dead do not come back.
LockInv ==
    /\ MutualExclusion
    /\ \A p \in Procs : pc[p] \in {"probe", "takeover"} => loc[p].waitpid \in Procs
    /\ \A p \in Procs : pc[p] = "takeover" => pc[loc[p].waitpid] = "dead"

\* moving the elements of a table, from the choice of the new one to its last store
NewLabels  == {"capNew", "hidxNew"}
RedoLabels == {"redoOld", "redoNext", "redoNew"}
MoveLabels == {"mvOld", "mvNext", "mvNew"}
EndLabels  == {"workDone", "releaseOld", "capacity", "hidx"}
LoopLabels == RedoLabels \cup {"begin", "work"} \cup MoveLabels \cup EndLabels
HasElem    == {"work"} \cup MoveLabels \cup {"next", "link", "incr", "unlink", "decr", "release"}

\* What a process in the critical section knows that keeps its next step in the types.
Typed(p) ==
    /\ pc[p] \in {"rehash"} \cup NewLabels \cup LoopLabels => loc[p].from \in {"find", "alloc"}
    /\ pc[p] \in HasElem => loc[p].it # Null
    /\ pc[p] \in RedoLabels => table.work # Null
    /\ pc[p] \in NewLabels => ~InRehash /\ NextCap(table.cap) # {} /\ NewTable \in used.tables
    /\ pc[p] = "hidxNew" => table.capNew = Capacities[NewTable]
    /\ pc[p] \in LoopLabels => InRehash
    /\ pc[p] \in {"capacity", "hidx"} <=> (pc[p] # "locked" /\ table.hidx \notin used.tables)
    /\ pc[p] = "hidx" => table.cap = table.capNew

\* The capacities in the header are those of the two index arrays, except after the old
\* one was given back.
HeaderInv ==
    /\ InRehash => table.capNew = Capacities[table.hidxNew] /\ table.hidxNew \in used.tables
    /\ table.hidx \in used.tables => table.cap = Capacities[table.hidx]

TypedInv == HeaderInv /\ \A p \in Procs : InSection(p) => Typed(p)

ShmInv == ShmTypes /\ LockInv /\ TypedInv

-----------------------------------------------------------------------------
(***************************************************************************)
(* The capacities, the heads of the chains and the elements found.         *)
(***************************************************************************)

LEMMA CapFacts ==
    /\ Caps \subseteq Nat \ {0} /\ MaxCap \in Caps
    /\ \A c \in Caps : c <= MaxCap
    /\ \A c \in Caps, k \in Nat : getIndex(k, c) \in 0 .. c - 1 /\ getIndex(k, c) \in Buckets
    /\ \A t \in Tables : Capacities[t] \in Caps
    /\ Tables \subseteq Nat
<1> DEFINE n == Len(Capacities)
<1>1. n \in Nat \ {0} /\ \A t \in 1 .. n : Capacities[t] \in Nat \ {0}
  OBVIOUS
<1> HIDE DEF n
<1>2. Caps \subseteq Nat \ {0} /\ MaxCap \in Caps /\ \A t \in Tables : Capacities[t] \in Caps
  BY <1>1 DEF Caps, MaxCap, Tables, n
<1>3. ASSUME NEW t \in 1 .. n PROVE Capacities[t] <= Capacities[n]
  <2>1. t < n => Capacities[t] < Capacities[n]
    BY <1>1 DEF n
  <2> QED
    BY <1>1, <2>1
<1>4. \A c \in Caps : c <= MaxCap
  BY <1>3 DEF Caps, MaxCap, Tables, n
<1>5. ASSUME NEW c \in Caps, NEW k \in Nat PROVE k % c \in 0 .. c - 1 /\ k % c \in Buckets
  <2>1. c \in Nat \ {0} /\ MaxCap \in Nat /\ c <= MaxCap
    BY <1>2, <1>4
  <2> HIDE DEF Caps, MaxCap
  <2>2. k % c \in 0 .. c - 1
    BY <2>1
  <2> QED
    BY <2>1, <2>2 DEF Buckets
<1>6. Tables \subseteq Nat
  BY <1>1 DEF Tables, n
<1>7. \A c \in Caps, k \in Nat : getIndex(k, c) \in 0 .. c - 1 /\ getIndex(k, c) \in Buckets
  BY <1>5 DEF getIndex
<1> QED
  BY <1>2, <1>4, <1>6, <1>7

\* rehash() grows the table: the next capacity is larger.
LEMMA NewTableFacts ==
    ASSUME ShmTypes, NextCap(table.cap) # {}
    PROVE  NewTable \in Tables /\ Capacities[NewTable] > table.cap
<1> DEFINE S == NextCap(table.cap)
<1>1. S \subseteq Tables /\ S \subseteq Nat /\ S # {}
  BY DEF NextCap, Tables
<1> HIDE DEF S
<1>2. \E i \in S : \A j \in S : i <= j
  BY <1>1, NatLeast
<1>3. NewTable \in S
  BY <1>2 DEF NewTable, S
<1> QED
  BY <1>1, <1>3 DEF S, NextCap

LEMMA HeadType ==
    ASSUME ShmTypes
    PROVE  \A k \in Nat : /\ getIndex(k, table.cap) \in Buckets
                          /\ Head_(k) \in Offsets
<1>1. table.cap \in Caps /\ table.hidx \in Tables
  BY DEF ShmTypes, TableType
<1>2. idx \in [Tables -> [Buckets -> Offsets]]
  BY DEF ShmTypes
<1> HIDE DEF Caps, Buckets, Tables
<1> QED
  BY <1>1, <1>2, CapFacts DEF Head_

LEMMA NewHeadType ==
    ASSUME ShmTypes, table.capNew \in Caps
    PROVE  \A k \in Nat : /\ getIndex(k, table.capNew) \in Buckets
                          /\ NewHead(k) \in Offsets
<1>1. table.hidxNew \in Tables
  BY DEF ShmTypes, TableType
<1>2. idx \in [Tables -> [Buckets -> Offsets]]
  BY DEF ShmTypes
<1> QED
  BY <1>1, <1>2, CapFacts DEF NewHead

LEMMA FirstFromType ==
    ASSUME ShmTypes, NEW b \in Nat
    PROVE  FirstFrom(b) \in Offsets
<1> DEFINE full == {i \in b .. table.cap - 1 : idx[table.hidx][i] # Null}
<1>1. table.cap \in Nat /\ table.cap <= MaxCap /\ MaxCap \in Nat /\ table.hidx \in Tables
  BY CapFacts DEF ShmTypes, TableType
<1>2. full \subseteq Nat /\ full \subseteq Buckets
  BY <1>1 DEF Buckets
<1>3. CASE full = {}
  BY <1>3 DEF FirstFrom, Offsets
<1>4. CASE full # {}
  <2> DEFINE i == CHOOSE i \in full : \A j \in full : i <= j
  <2>1. i \in full
    <3> HIDE DEF full
    <3>1. \E m \in full : \A j \in full : m <= j
      BY <1>2, <1>4, NatLeast
    <3> QED
      BY <3>1
  <2>2. FirstFrom(b) = idx[table.hidx][i]
    BY <1>4 DEF FirstFrom
  <2> HIDE DEF i
  <2>3. idx[table.hidx][i] \in Offsets
    <3>1. i \in Buckets
      BY <2>1, <1>2, Zenon
    <3>2. idx \in [Tables -> [Buckets -> Offsets]]
      BY DEF ShmTypes
    <3> QED
      BY <1>1, <3>1, <3>2, Zenon
  <2> QED
    BY <2>2, <2>3
<1> QED
  BY <1>3, <1>4

LEMMA KeyType ==
    ASSUME ShmTypes
    PROVE  /\ \A e \in Elems : elem[e].key \in Nat /\ elem[e].next \in Offsets
           /\ \A p \in Procs : loc[p].key \in Nat
<1> Keys \cup {0} \subseteq Nat
  OBVIOUS
<1>1. ASSUME NEW e \in Elems PROVE elem[e].key \in Nat /\ elem[e].next \in Offsets
  <2>1. elem[e] \in ElemType
    BY DEF ShmTypes
  <2> QED
    BY <2>1 DEF ElemType
<1>2. ASSUME NEW p \in Procs PROVE loc[p].key \in Nat
  <2>1. loc[p] \in LocType
    BY DEF ShmTypes
  <2> QED
    BY <2>1 DEF LocType
<1> QED
  BY <1>1, <1>2

LEMMA IterType ==
    ASSUME ShmTypes
    PROVE  /\ Begin \in Offsets
           /\ \A e \in Elems : Next_(e) \in Offsets
           /\ \A k \in Nat : Find(k) \in Offsets
<1>1. Begin \in Offsets
  BY FirstFromType DEF Begin, Offsets
<1>2. ASSUME NEW e \in Elems PROVE Next_(e) \in Offsets
  <2>1. elem[e].key \in Nat /\ elem[e].next \in Offsets
    BY KeyType
  <2>2. table.cap \in Caps
    BY DEF ShmTypes, TableType
  <2>3. getIndex(elem[e].key, table.cap) + 1 \in Nat
    <3>1. getIndex(elem[e].key, table.cap) \in 0 .. table.cap - 1 /\ table.cap \in Nat
      BY <2>1, <2>2, CapFacts
    <3> QED
      BY <3>1
  <2> QED
    BY <2>1, <2>3, FirstFromType DEF Next_
<1>3. ASSUME NEW k \in Nat PROVE Find(k) \in Offsets
  <2> DEFINE S == {i \in 0 .. Cardinality(Elems) :
                     Nth(Head_(k), i) \in Elems /\ elem[Nth(Head_(k), i)].key = k}
  <2>1. CASE S = {}
    BY <2>1 DEF Find, Offsets
  <2>2. CASE S # {}
    <3>1. S \subseteq Nat
      OBVIOUS
    <3> DEFINE i == CHOOSE i \in S : \A j \in S : i <= j
    <3>2. i \in S
      <4> HIDE DEF S
      <4>1. \E m \in S : \A j \in S : m <= j
        BY <2>2, <3>1, NatLeast
      <4> QED
        BY <4>1
    <3>3. Find(k) = Nth(Head_(k), i)
      BY <2>2 DEF Find
    <3>4. Nth(Head_(k), i) \in Elems
      BY <3>2
    <3> QED
      BY <3>3, <3>4 DEF Offsets
  <2> QED
    BY <2>1, <2>2
<1> QED
  BY <1>1, <1>2, <1>3

-----------------------------------------------------------------------------
(***************************************************************************)
(* Every step keeps the types.                                             *)
(***************************************************************************)

Steps(p) == LockSteps(p) \/ RehashSteps(p) \/ OpSteps(p)

LEMMA InitShm == Init => ShmInv
<1> SUFFICES ASSUME Init PROVE ShmInv
  OBVIOUS
<1>1. ShmTypes
  <2>1. table \in TableType
    <3>1. 1 \in Tables /\ 0 \in 0 .. 2^SizeBits - 1 /\ Capacities[1] \in Caps
      <4>1. Len(Capacities) \in Nat \ {0} /\ 1 \in Tables
        BY DEF Tables
      <4>2. 0 \in 0 .. 2^SizeBits - 1
        OBVIOUS
      <4> QED
        BY <4>1, <4>2, CapFacts
    <3> QED
      BY <3>1 DEF Init, TableType, Offsets
  <2>2. idx \in [Tables -> [Buckets -> Offsets]]
    BY DEF Init, Zeroed, Buckets, MaxCap, Offsets
  <2>3. elem \in [Elems -> ElemType]
    BY DEF Init, FreeElem, ElemType, Offsets
  <2>4. loc \in [Procs -> LocType]
    BY DEF Init, NoLocals, LocType, Offsets
  <2>5. pc \in [Procs -> Labels]
    BY DEF Init, Labels
  <2>6. used \in [elems : SUBSET Elems, tables : SUBSET Tables]
    <3>1. 1 \in Tables
      BY DEF Tables
    <3> QED
      BY <3>1 DEF Init
  <2> QED
    BY <2>1, <2>2, <2>3, <2>4, <2>5, <2>6 DEF Init, ShmTypes
<1>2. LockInv
  BY DEF Init, LockInv, MutualExclusion, InSection
<1>3. TypedInv
  BY DEF Init, TypedInv, HeaderInv, InSection, InRehash
<1> QED
  BY <1>1, <1>2, <1>3 DEF ShmInv

\* Only the owner of the lock is in the critical section.
LEMMA Alone ==
    ASSUME LockInv, NEW p \in Procs, NEW q \in Procs, InSection(p), InSection(q)
    PROVE  p = q
  BY DEF LockInv, MutualExclusion

\* A step that leaves what the processes share alone, but for the lock.
LEMMA LocalTypes ==
    ASSUME ShmTypes, UNCHANGED <<table, idx, elem, used, stored>>,
           lock' \in Procs \cup {LS_LOCK_AVAIL},
           pc' \in [Procs -> Labels], loc' \in [Procs -> LocType],
           crashes' \in 0 .. MaxCrashes
    PROVE  ShmTypes'
  BY DEF ShmTypes

LEMMA GotoType ==
    ASSUME ShmTypes, NEW p \in Procs, NEW l \in Labels, Goto(p, l)
    PROVE  pc' \in [Procs -> Labels]
  BY DEF ShmTypes, Goto

LEMMA LockTypesKept ==
    ASSUME ShmInv, NEW p \in Procs, LockSteps(p)
    PROVE  ShmTypes'
<1>1. ShmTypes /\ LockInv
  BY DEF ShmInv
<1>2. /\ lock \in Procs \cup {0} /\ crashes \in 0 .. MaxCrashes
      /\ loc \in [Procs -> LocType] /\ pc \in [Procs -> Labels]
  BY <1>1 DEF ShmTypes, LS_LOCK_AVAIL
<1>3. {"lock", "locked", "probe", "takeover"} \subseteq Labels
  BY DEF Labels
<1>4. CASE TryLock(p)
  <2>1. lock' \in Procs \cup {LS_LOCK_AVAIL}
    BY <1>2, <1>4 DEF TryLock, LS_LOCK_AVAIL
  <2>2. pc' \in [Procs -> Labels]
    BY <1>2, <1>3, <1>4 DEF TryLock, Goto
  <2>3. loc' \in [Procs -> LocType]
    <3>1. loc[p] \in LocType
      BY <1>2
    <3>2. /\ [loc[p] EXCEPT !.ret = 0, !.waitpid = 0] \in LocType
          /\ [loc[p] EXCEPT !.waitpid = lock] \in LocType
      <4> lock \in Procs \cup {0}
        BY <1>2
      <4>1. [loc[p] EXCEPT !.waitpid = lock] \in LocType
        BY <3>1 DEF LocType
      <4>2. \A r \in Int, w \in Procs \cup {0} :
                [loc[p] EXCEPT !.ret = r, !.waitpid = w] \in LocType
        BY <3>1 DEF LocType
      <4>3. 0 \in Int /\ 0 \in Procs \cup {0}
        OBVIOUS
      <4> QED
        BY <4>1, <4>2, <4>3, Zenon
    <3>3. \/ loc' = [loc EXCEPT ![p] = [loc[p] EXCEPT !.ret = 0, !.waitpid = 0]]
          \/ loc' = [loc EXCEPT ![p] = [loc[p] EXCEPT !.waitpid = lock]]
      BY <1>2, <1>4 DEF TryLock
    <3> QED
      BY <1>2, <3>2, <3>3
  <2> QED
    BY <1>1, <1>2, <1>4, <2>1, <2>2, <2>3, LocalTypes DEF TryLock, shared
<1>5. CASE Probe(p)
  <2>1. pc' \in [Procs -> Labels]
    BY <1>2, <1>3, <1>5 DEF Probe, Goto
  <2> QED
    BY <1>1, <1>2, <1>5, <2>1, LocalTypes DEF Probe, shared, LS_LOCK_AVAIL
<1>6. CASE TakeOver(p)
  <2>1. lock' \in Procs \cup {LS_LOCK_AVAIL}
    BY <1>2, <1>6 DEF TakeOver, LS_LOCK_AVAIL
  <2>2. pc' \in [Procs -> Labels]
    BY <1>2, <1>3, <1>6 DEF TakeOver, Goto
  <2>3. loc' \in [Procs -> LocType]
    <3>1. loc[p] \in LocType
      BY <1>2
    <3>2. loc[p].waitpid \in Procs \cup {0}
      BY <3>1 DEF LocType
    <3>3. -loc[p].waitpid \in Int
      <4>1. \A w \in Procs \cup {0} : -w \in Int
        OBVIOUS
      <4> QED
        BY <3>2, <4>1
    <3>4. [loc[p] EXCEPT !.ret = -loc[p].waitpid, !.waitpid = 0] \in LocType
      BY <3>1, <3>3 DEF LocType
    <3>5. \/ loc' = [loc EXCEPT ![p] = [loc[p] EXCEPT !.ret = -loc[p].waitpid, !.waitpid = 0]]
          \/ loc' = loc
      BY <1>2, <1>6 DEF TakeOver
    <3> QED
      BY <1>2, <3>4, <3>5
  <2> QED
    BY <1>1, <1>2, <1>6, <2>1, <2>2, <2>3, LocalTypes DEF TakeOver, shared
<1> QED
  BY <1>4, <1>5, <1>6 DEF LockSteps

\* A store to one field of the header.
LEMMA HeaderTypes ==
    ASSUME ShmTypes, NEW p \in Procs, NEW l, NEW f, NEW v, NEW to \in Labels,
           SetHeader(p, l, f, v, to), [table EXCEPT ![f] = v] \in TableType
    PROVE  ShmTypes'
<1>1. pc' \in [Procs -> Labels]
  BY GotoType DEF SetHeader
<1> QED
  BY <1>1 DEF ShmTypes, SetHeader

LEMMA TakeOffTypes ==
    ASSUME ShmTypes, NEW p \in Procs, NEW l, NEW e \in Elems, NEW to \in Labels,
           TakeOff(p, l, e, to)
    PROVE  ShmTypes'
<1>1. pc' \in [Procs -> Labels]
  BY GotoType DEF TakeOff
<1>2. elem[e].next \in Offsets /\ getIndex(elem[e].key, table.cap) \in Buckets
  BY KeyType, HeadType
<1>3. table.hidx \in Tables /\ idx \in [Tables -> [Buckets -> Offsets]]
  BY DEF ShmTypes, TableType
<1>4. idx' \in [Tables -> [Buckets -> Offsets]]
  BY <1>2, <1>3, SMTT(30) DEF TakeOff
<1> QED
  BY <1>1, <1>4 DEF ShmTypes, TakeOff

LEMMA LinkNextTypes ==
    ASSUME ShmTypes, NEW p \in Procs, NEW l, NEW e \in Elems, NEW to \in Labels,
           table.capNew \in Caps, LinkNext(p, l, e, to)
    PROVE  ShmTypes'
<1>1. pc' \in [Procs -> Labels]
  BY GotoType DEF LinkNext
<1>2. NewHead(elem[e].key) \in Offsets
  BY KeyType, NewHeadType
<1>3. elem' \in [Elems -> ElemType]
  <2>1. elem \in [Elems -> ElemType]
    BY DEF ShmTypes
  <2> QED
    BY <1>2, <2>1 DEF LinkNext, ElemType
<1> QED
  BY <1>1, <1>3 DEF ShmTypes, LinkNext

LEMMA PutOnTypes ==
    ASSUME ShmTypes, NEW p \in Procs, NEW l, NEW e \in Elems, NEW to \in Labels,
           table.capNew \in Caps, PutOn(p, l, e, to)
    PROVE  ShmTypes'
<1>1. pc' \in [Procs -> Labels]
  BY GotoType DEF PutOn
<1>2. getIndex(elem[e].key, table.capNew) \in Buckets
  BY KeyType, NewHeadType
<1>3. idx' \in [Tables -> [Buckets -> Offsets]]
  <2>1. table.hidxNew \in Tables /\ idx \in [Tables -> [Buckets -> Offsets]]
    BY DEF ShmTypes, TableType
  <2> QED
    BY <1>2, <2>1 DEF PutOn, Offsets
<1>4. loc' \in [Procs -> LocType]
  <2>1. loc \in [Procs -> LocType]
    BY DEF ShmTypes
  <2> QED
    BY <2>1, ZenonT(60) DEF PutOn, LocType
<1> QED
  BY <1>1, <1>3, <1>4 DEF ShmTypes, PutOn

LEMMA SharedUpdates ==
    ASSUME ShmTypes
    PROVE  /\ \A t \in Tables, b \in Buckets, v \in Offsets :
                [idx EXCEPT ![t][b] = v] \in [Tables -> [Buckets -> Offsets]]
           /\ \A t \in Tables : [idx EXCEPT ![t] = Zeroed] \in [Tables -> [Buckets -> Offsets]]
           /\ \A t \in Tables : [used EXCEPT !.tables = @ \cup {t}]
                                   \in [elems : SUBSET Elems, tables : SUBSET Tables]
           /\ \A e \in Elems : [used EXCEPT !.elems = @ \cup {e}]
                                   \in [elems : SUBSET Elems, tables : SUBSET Tables]
           /\ \A d \in Elems, v \in Offsets : [elem[d] EXCEPT !.next = v] \in ElemType
           /\ \A d \in Elems, k \in Keys \cup {0} : [elem[d] EXCEPT !.key = k] \in ElemType
<1>1. idx \in [Tables -> [Buckets -> Offsets]]
  BY DEF ShmTypes
<1>2. Zeroed \in [Buckets -> Offsets]
  BY DEF Zeroed, Buckets, MaxCap, Offsets
<1>3. used \in [elems : SUBSET Elems, tables : SUBSET Tables]
  BY DEF ShmTypes
<1>4. \A d \in Elems : elem[d] \in ElemType
  BY DEF ShmTypes
<1> HIDE DEF Tables, Buckets, Offsets
<1>5. \A t \in Tables, b \in Buckets, v \in Offsets :
            [idx EXCEPT ![t][b] = v] \in [Tables -> [Buckets -> Offsets]]
  BY <1>1
<1>6. \A t \in Tables : [idx EXCEPT ![t] = Zeroed] \in [Tables -> [Buckets -> Offsets]]
  BY <1>1, <1>2
<1>7. \A t \in Tables : [used EXCEPT !.tables = @ \cup {t}]
                            \in [elems : SUBSET Elems, tables : SUBSET Tables]
  BY <1>3
<1>8. \A e \in Elems : [used EXCEPT !.elems = @ \cup {e}]
                            \in [elems : SUBSET Elems, tables : SUBSET Tables]
  BY <1>3
<1>9. \A d \in Elems, v \in Offsets : [elem[d] EXCEPT !.next = v] \in ElemType
  BY <1>4 DEF ElemType
<1>10. \A d \in Elems, k \in Keys \cup {0} : [elem[d] EXCEPT !.key = k] \in ElemType
  BY <1>4 DEF ElemType
<1> QED
  BY <1>5, <1>6, <1>7, <1>8, <1>9, <1>10

LEMMA RehashTypesKept ==
    ASSUME ShmInv, NEW p \in Procs, RehashSteps(p)
    PROVE  ShmTypes'
<1>1. ShmTypes /\ TypedInv
  BY DEF ShmInv
<1>2. /\ table \in TableType /\ idx \in [Tables -> [Buckets -> Offsets]]
      /\ used \in [elems : SUBSET Elems, tables : SUBSET Tables]
      /\ loc \in [Procs -> LocType] /\ pc \in [Procs -> Labels]
  BY <1>1 DEF ShmTypes
<1>3. table.work \in Offsets /\ table.hidxNew \in Tables /\ table.cap \in Caps
  BY <1>2 DEF TableType
<1>4. loc[p].it \in Offsets /\ loc[p].nx \in Offsets
  BY <1>2 DEF LocType
<1>5. \A l \in LoopLabels : pc[p] = l => table.capNew \in Caps
  <2>1. InRehash => table.capNew \in Caps
    BY <1>1, <1>3, CapFacts DEF TypedInv, HeaderInv
  <2> QED
    BY <1>1, <2>1 DEF TypedInv, Typed, InSection, LoopLabels, RedoLabels, MoveLabels, EndLabels
<1>6. pc[p] \in RedoLabels => table.work \in Elems
  BY <1>1, <1>3 DEF TypedInv, Typed, InSection, RedoLabels, Offsets
<1>7. pc[p] \in {"work", "mvOld", "mvNext", "mvNew"} => loc[p].it \in Elems
  BY <1>1, <1>4 DEF TypedInv, Typed, InSection, HasElem, MoveLabels, Offsets
<1>8. /\ \A t \in Tables : Capacities[t] \in Nat
      /\ Caps \subseteq Nat
  BY CapFacts
<1>9. pc[p] \in NewLabels => NextCap(table.cap) # {}
  BY <1>1 DEF TypedInv, Typed, InSection, NewLabels
<1>10. CASE Rehash(p)
  <2>1. pc' \in [Procs -> Labels]
    BY <1>2, <1>10 DEF Rehash, Goto, Labels
  <2>2. \/ UNCHANGED <<idx, used>>
        \/ /\ NewTable \in Tables
           /\ used' = [used EXCEPT !.tables = @ \cup {NewTable}]
           /\ idx' = [idx EXCEPT ![NewTable] = Zeroed]
    BY <1>1, <1>10, NewTableFacts DEF Rehash
  <2>4. /\ idx' \in [Tables -> [Buckets -> Offsets]]
        /\ used' \in [elems : SUBSET Elems, tables : SUBSET Tables]
    <3>1. CASE UNCHANGED <<idx, used>>
      BY <1>2, <3>1
    <3>2. CASE /\ NewTable \in Tables
               /\ used' = [used EXCEPT !.tables = @ \cup {NewTable}]
               /\ idx' = [idx EXCEPT ![NewTable] = Zeroed]
      BY <1>1, <3>2, SharedUpdates, Zenon
    <3> QED
      BY <2>2, <3>1, <3>2
  <2> QED
    BY <1>1, <1>10, <2>1, <2>4 DEF Rehash, ShmTypes
<1>11. CASE SetCapNew(p)
  <2>1. NewTable \in Tables
    BY <1>1, <1>9, <1>11, NewTableFacts DEF SetCapNew, SetHeader, At, NewLabels
  <2>2. [table EXCEPT !["capNew"] = Capacities[NewTable]] \in TableType
    BY <1>2, <1>8, <2>1 DEF TableType
  <2>3. "hidxNew" \in Labels
    BY DEF Labels
  <2> QED
    BY <1>1, <1>11, <2>2, <2>3, HeaderTypes DEF SetCapNew
<1>12. CASE SetHIdxNew(p)
  <2>1. NewTable \in Tables
    BY <1>1, <1>9, <1>12, NewTableFacts DEF SetHIdxNew, SetHeader, At, NewLabels
  <2>2. [table EXCEPT !["hidxNew"] = NewTable] \in TableType
    BY <1>2, <2>1 DEF TableType
  <2>3. "begin" \in Labels
    BY DEF Labels
  <2> QED
    BY <1>1, <1>12, <2>2, <2>3, HeaderTypes DEF SetHIdxNew
<1>13. CASE RedoOld(p)
  <2>1. table.work \in Elems /\ "redoNext" \in Labels
    BY <1>6, <1>13 DEF RedoOld, TakeOff, At, RedoLabels, Labels
  <2> QED
    BY <1>1, <1>13, <2>1, TakeOffTypes DEF RedoOld
<1>14. CASE RedoNext(p)
  <2>1. table.work \in Elems /\ table.capNew \in Caps /\ "redoNew" \in Labels
    BY <1>5, <1>6, <1>14 DEF RedoNext, LinkNext, At, RedoLabels, LoopLabels, Labels
  <2> QED
    BY <1>1, <1>14, <2>1, LinkNextTypes DEF RedoNext
<1>15. CASE RedoNew(p)
  <2>1. table.work \in Elems /\ table.capNew \in Caps /\ "begin" \in Labels
    BY <1>5, <1>6, <1>15 DEF RedoNew, PutOn, At, RedoLabels, LoopLabels, Labels
  <2> QED
    BY <1>1, <1>15, <2>1, PutOnTypes DEF RedoNew
<1>16. CASE BeginWork(p)
  <2>1. pc' \in [Procs -> Labels]
    BY <1>2, <1>16 DEF BeginWork, Goto, Labels
  <2>2. loc' \in [Procs -> LocType]
    BY <1>1, <1>2, <1>16, IterType, ZenonT(60) DEF BeginWork, LocType
  <2> QED
    BY <1>1, <1>16, <2>1, <2>2 DEF BeginWork, ShmTypes, shared
<1>17. CASE Work(p)
  <2>1. pc' \in [Procs -> Labels]
    BY <1>2, <1>17 DEF Work, Goto, Labels
  <2>2. Next_(loc[p].it) \in Offsets
    BY <1>1, <1>7, <1>17, IterType DEF Work, At
  <2>3. loc' \in [Procs -> LocType]
    BY <1>2, <1>17, <2>2, ZenonT(60) DEF Work, LocType
  <2>4. table' \in TableType
    BY <1>2, <1>4, <1>17 DEF Work, TableType
  <2> QED
    BY <1>1, <1>17, <2>1, <2>3, <2>4 DEF Work, ShmTypes
<1>18. CASE MoveOld(p)
  <2>1. loc[p].it \in Elems /\ "mvNext" \in Labels
    BY <1>7, <1>18 DEF MoveOld, TakeOff, At, Labels
  <2> QED
    BY <1>1, <1>18, <2>1, TakeOffTypes DEF MoveOld
<1>19. CASE MoveNext(p)
  <2>1. loc[p].it \in Elems /\ table.capNew \in Caps /\ "mvNew" \in Labels
    BY <1>5, <1>7, <1>19 DEF MoveNext, LinkNext, At, MoveLabels, LoopLabels, Labels
  <2> QED
    BY <1>1, <1>19, <2>1, LinkNextTypes DEF MoveNext
<1>20. CASE MoveNew(p)
  <2>1. /\ loc[p].it \in Elems /\ table.capNew \in Caps
        /\ (IF loc[p].nx = Null THEN "workDone" ELSE "work") \in Labels
    BY <1>5, <1>7, <1>20 DEF MoveNew, PutOn, At, MoveLabels, LoopLabels, Labels
  <2> QED
    BY <1>1, <1>20, <2>1, PutOnTypes DEF MoveNew
<1>21. CASE WorkDone(p)
  <2>1. [table EXCEPT !["work"] = Null] \in TableType /\ "releaseOld" \in Labels
    BY <1>2 DEF TableType, Offsets, Labels
  <2> QED
    BY <1>1, <1>21, <2>1, HeaderTypes DEF WorkDone
<1>22. CASE ReleaseOld(p)
  <2>1. pc' \in [Procs -> Labels]
    BY <1>2, <1>22 DEF ReleaseOld, Goto, Labels
  <2>2. used' \in [elems : SUBSET Elems, tables : SUBSET Tables]
    BY <1>2, <1>22 DEF ReleaseOld
  <2> QED
    BY <1>1, <1>22, <2>1, <2>2 DEF ReleaseOld, ShmTypes
<1>23. CASE SetCapacity(p)
  <2>1. table.capNew \in Caps
    BY <1>5, <1>23 DEF SetCapacity, SetHeader, At, LoopLabels, EndLabels
  <2>2. [table EXCEPT !["cap"] = table.capNew] \in TableType /\ "hidx" \in Labels
    BY <1>2, <2>1 DEF TableType, Labels
  <2> QED
    BY <1>1, <1>23, <2>2, HeaderTypes DEF SetCapacity
<1>24. CASE SetHIdx(p)
  <2>1. [table EXCEPT !["hidx"] = table.hidxNew] \in TableType
    BY <1>2, <1>3 DEF TableType
  <2>2. loc[p].from \in Labels
    BY <1>1, <1>24 DEF SetHIdx, SetHeader, At, TypedInv, Typed, InSection, LoopLabels, EndLabels,
                       Labels
  <2> QED
    BY <1>1, <1>24, <2>1, <2>2, HeaderTypes DEF SetHIdx
<1> QED
  BY <1>10, <1>11, <1>12, <1>13, <1>14, <1>15, <1>16, <1>17, <1>18, <1>19, <1>20, <1>21, <1>22,
     <1>23, <1>24 DEF RehashSteps

LEMMA WrapType == \A n \in Int : Wrap(n) \in 0 .. 2^SizeBits - 1
<1> DEFINE m == 2^SizeBits
<1>1. m \in Nat \ {0}
  OBVIOUS
<1> HIDE DEF m
<1>2. \A n \in Int : n % m \in 0 .. m - 1
  BY <1>1
<1> QED
  BY <1>2 DEF Wrap, m

LEMMA LocUpdates ==
    ASSUME ShmTypes, NEW p \in Procs
    PROVE  /\ \A v \in Offsets : [loc EXCEPT ![p].it = v] \in [Procs -> LocType]
           /\ \A v \in Int : [loc EXCEPT ![p].ret = v] \in [Procs -> LocType]
           /\ \A v \in {"find", "alloc"} : [loc EXCEPT ![p].from = v] \in [Procs -> LocType]
<1>1. loc \in [Procs -> LocType] /\ loc[p] \in LocType
  BY DEF ShmTypes
<1>2. \A v \in Offsets : [loc[p] EXCEPT !.it = v] \in LocType
  BY <1>1 DEF LocType
<1>3. \A v \in Int : [loc[p] EXCEPT !.ret = v] \in LocType
  BY <1>1 DEF LocType
<1>4. \A v \in {"find", "alloc"} : [loc[p] EXCEPT !.from = v] \in LocType
  BY <1>1 DEF LocType
<1> QED
  BY <1>1, <1>2, <1>3, <1>4

LEMMA OpTypesKept ==
    ASSUME ShmInv, NEW p \in Procs, OpSteps(p)
    PROVE  ShmTypes'
<1>1. ShmTypes /\ TypedInv
  BY DEF ShmInv
<1>2. /\ table \in TableType /\ idx \in [Tables -> [Buckets -> Offsets]]
      /\ elem \in [Elems -> ElemType]
      /\ used \in [elems : SUBSET Elems, tables : SUBSET Tables]
      /\ loc \in [Procs -> LocType] /\ pc \in [Procs -> Labels]
      /\ stored \subseteq Elems
  BY <1>1 DEF ShmTypes
<1>3. /\ loc[p].it \in Offsets /\ loc[p].key \in Keys \cup {0} /\ loc[p].key \in Nat
      /\ table.hidx \in Tables /\ table.size \in Nat
  BY <1>1, <1>2, KeyType DEF LocType, TableType
<1>4. pc[p] \in {"next", "link", "incr", "unlink", "decr", "release"} => loc[p].it \in Elems
  BY <1>1, <1>3 DEF TypedInv, Typed, InSection, HasElem, Offsets
<1>5. getIndex(loc[p].key, table.cap) \in Buckets /\ Head_(loc[p].key) \in Offsets
  BY <1>1, <1>3, HeadType
<1>6. CASE Locked(p)
  <2>1. pc' \in [Procs -> Labels]
    BY <1>2, <1>6 DEF Locked, Goto, Labels
  <2>2. loc' \in [Procs -> LocType]
    <3>1. 0 \in Int
      OBVIOUS
    <3>2. \/ loc' = [loc EXCEPT ![p].from = "find"]
          \/ loc' = [loc EXCEPT ![p].ret = 0]
      BY <1>6 DEF Locked
    <3>3. "find" \in {"find", "alloc"}
      OBVIOUS
    <3>4. [loc EXCEPT ![p].from = "find"] \in [Procs -> LocType]
      BY <1>1, <3>3, LocUpdates, Zenon
    <3>5. [loc EXCEPT ![p].ret = 0] \in [Procs -> LocType]
      BY <1>1, <3>1, LocUpdates, Zenon
    <3> QED
      BY <3>2, <3>4, <3>5, Zenon
  <2> QED
    BY <1>1, <1>6, <2>1, <2>2 DEF Locked, ShmTypes, shared
<1>7. CASE FindStep(p)
  <2>1. pc' \in [Procs -> Labels]
    BY <1>2, <1>7 DEF FindStep, Goto, Labels
  <2>2. PICK op \in {"insert", "set", "remove"}, k \in Keys :
            loc' = [loc EXCEPT ![p] = [@ EXCEPT !.op = op, !.key = k, !.it = Find(k)]]
    BY <1>7 DEF FindStep
  <2>3. Find(k) \in Offsets
    <3>1. k \in Nat
      BY ElemAssumption
    <3> QED
      BY <1>1, <3>1, IterType
  <2>4. [loc[p] EXCEPT !.op = op, !.key = k, !.it = Find(k)] \in LocType
    <3>1. loc[p] \in LocType
      BY <1>1 DEF ShmTypes
    <3> QED
      BY <2>3, <3>1 DEF LocType
  <2>5. loc' \in [Procs -> LocType]
    BY <1>1, <2>2, <2>4 DEF ShmTypes
  <2> QED
    BY <1>1, <1>7, <2>1, <2>5 DEF FindStep, ShmTypes, shared
<1>8. CASE Found(p)
  <2>1. pc' \in [Procs -> Labels]
    BY <1>2, <1>8 DEF Found, Goto, Labels
  <2> QED
    BY <1>1, <1>8, <2>1 DEF Found, ShmTypes, shared
<1>9. CASE InsertCopy(p)
  <2>1. pc' \in [Procs -> Labels]
    BY <1>2, <1>9 DEF InsertCopy, Goto, Labels
  <2>2. loc' \in [Procs -> LocType]
    BY <1>1, <1>2, <1>9, LocUpdates DEF InsertCopy
  <2> QED
    BY <1>1, <1>9, <2>1, <2>2 DEF InsertCopy, ShmTypes, shared
<1>10. CASE AllocIter(p)
  <2>1. pc' \in [Procs -> Labels]
    BY <1>2, <1>10 DEF AllocIter, Goto, Labels
  <2> DEFINE free == Elems \ used.elems
             e == CHOOSE x \in free : \A y \in free : x <= y
  <2>2. free # {} => e \in Elems
    <3>1. free \subseteq Nat /\ free \subseteq Elems
      OBVIOUS
    <3> HIDE DEF free
    <3>2. free # {} => \E x \in free : \A y \in free : x <= y
      BY <3>1, NatLeast
    <3> QED
      BY <3>1, <3>2
  <2> HIDE DEF e
  <2>3. free # {} => [elem[e] EXCEPT !.key = loc[p].key] \in ElemType
    BY <1>2, <1>3, <2>2 DEF ElemType
  <2> \/ UNCHANGED <<elem, used, loc>>
      \/ /\ free # {}
         /\ used' = [used EXCEPT !.elems = @ \cup {e}]
         /\ elem' = [elem EXCEPT ![e].key = loc[p].key]
         /\ loc' = [loc EXCEPT ![p].it = e]
    BY <1>10 DEF AllocIter, e
  <2> HIDE DEF free
  <2>4. elem' \in [Elems -> ElemType]
    BY <1>2, <2>2, <2>3
  <2>5. used' \in [elems : SUBSET Elems, tables : SUBSET Tables]
    BY <1>1, <1>2, <2>2, SharedUpdates
  <2>6. loc' \in [Procs -> LocType]
    <3>1. free # {} => e \in Offsets
      BY <2>2 DEF Offsets
    <3> QED
      <4>1. free # {} => [loc EXCEPT ![p].it = e] \in [Procs -> LocType]
        BY <1>1, <3>1, LocUpdates, Zenon
      <4>2. loc' = loc \/ (free # {} /\ loc' = [loc EXCEPT ![p].it = e])
        OBVIOUS
      <4> QED
        BY <1>2, <4>1, <4>2, Zenon
  <2> QED
    BY <1>1, <1>10, <2>1, <2>4, <2>5, <2>6 DEF AllocIter, ShmTypes
<1>11. CASE InsertNext(p)
  <2>1. pc' \in [Procs -> Labels]
    BY <1>2, <1>11 DEF InsertNext, Goto, Labels
  <2>2. elem' \in [Elems -> ElemType]
    BY <1>2, <1>4, <1>5, <1>11 DEF InsertNext, At, ElemType
  <2> QED
    BY <1>1, <1>11, <2>1, <2>2 DEF InsertNext, ShmTypes
<1>12. CASE InsertLink(p)
  <2>1. pc' \in [Procs -> Labels]
    BY <1>2, <1>12 DEF InsertLink, Goto, Labels
  <2>2. idx' \in [Tables -> [Buckets -> Offsets]]
    BY <1>2, <1>3, <1>5, <1>12 DEF InsertLink
  <2>3. stored' \subseteq Elems
    BY <1>2, <1>4, <1>12 DEF InsertLink, At
  <2> QED
    BY <1>1, <1>12, <2>1, <2>2, <2>3 DEF InsertLink, ShmTypes
<1>13. CASE IncrTableSize(p)
  <2>1. Wrap(table.size + 1) \in 0 .. 2^SizeBits - 1
    <3>1. table.size + 1 \in Int
      BY <1>3
    <3> QED
      BY <3>1, WrapType
  <2>2. [table EXCEPT !["size"] = Wrap(table.size + 1)] \in TableType /\ "unlock" \in Labels
    BY <1>2, <2>1 DEF TableType, Labels
  <2> QED
    BY <1>1, <1>13, <2>2, HeaderTypes DEF IncrTableSize
<1>14. CASE Unlink(p)
  <2>1. pc' \in [Procs -> Labels]
    BY <1>2, <1>14 DEF Unlink, Goto, Labels
  <2>2. loc[p].it \in Elems /\ elem[loc[p].it].next \in Offsets
    BY <1>1, <1>4, <1>14, KeyType DEF Unlink, At
  <2> DEFINE e == loc[p].it
             b == getIndex(loc[p].key, table.cap)
             pred == {d \in Chain(Head_(loc[p].key)) : elem[d].next = e}
  <2> \/ UNCHANGED elem /\ idx' = [idx EXCEPT ![table.hidx][b] = elem[e].next]
      \/ UNCHANGED idx /\ elem' = [d \in Elems |-> IF d \in pred
                                                   THEN [elem[d] EXCEPT !.next = elem[e].next]
                                                   ELSE elem[d]]
    BY <1>14 DEF Unlink
  <2> HIDE DEF pred, b, e
  <2>3. idx' \in [Tables -> [Buckets -> Offsets]]
    <3>1. [idx EXCEPT ![table.hidx][b] = elem[e].next] \in [Tables -> [Buckets -> Offsets]]
      <4>1. b \in Buckets /\ elem[e].next \in Offsets
        BY <1>5, <2>2 DEF b, e
      <4> QED
        BY <1>1, <1>3, <4>1, SharedUpdates, Zenon
    <3> QED
      BY <1>2, <3>1, Zenon
  <2>4. elem' \in [Elems -> ElemType]
    <3>1. \A d \in Elems : elem[d] \in ElemType /\ [elem[d] EXCEPT !.next = elem[e].next] \in ElemType
      BY <1>1, <1>2, <2>2, SharedUpdates DEF e
    <3> QED
      BY <1>2, <3>1
  <2> QED
    BY <1>1, <1>2, <1>14, <2>1, <2>3, <2>4 DEF Unlink, ShmTypes
<1>15. CASE DecrTableSize(p)
  <2>1. Wrap(table.size - 1) \in 0 .. 2^SizeBits - 1
    <3>1. table.size - 1 \in Int
      BY <1>3
    <3> QED
      BY <3>1, WrapType
  <2>2. [table EXCEPT !["size"] = Wrap(table.size - 1)] \in TableType /\ "release" \in Labels
    BY <1>2, <2>1 DEF TableType, Labels
  <2> QED
    BY <1>1, <1>15, <2>2, HeaderTypes DEF DecrTableSize
<1>16. CASE Release(p)
  <2>1. pc' \in [Procs -> Labels]
    BY <1>2, <1>16 DEF Release, Goto, Labels
  <2>2. elem' \in [Elems -> ElemType]
    BY <1>2, <1>16 DEF Release, FreeElem, ElemType, Offsets
  <2>3. loc' \in [Procs -> LocType]
    BY <1>1, <1>16, LocUpdates DEF Release, Offsets
  <2>4. used' \in [elems : SUBSET Elems, tables : SUBSET Tables]
    BY <1>2, <1>16 DEF Release
  <2> QED
    BY <1>1, <1>16, <2>1, <2>2, <2>3, <2>4 DEF Release, ShmTypes
<1>17. CASE Unlock(p)
  <2>1. pc' \in [Procs -> Labels]
    BY <1>2, <1>17 DEF Unlock, Goto, Labels
  <2>2. loc' \in [Procs -> LocType]
    BY <1>2, <1>17 DEF Unlock, NoLocals, LocType, Offsets
  <2> QED
    BY <1>1, <1>17, <2>1, <2>2 DEF Unlock, ShmTypes, shared
<1> QED
  BY <1>6, <1>7, <1>8, <1>9, <1>10, <1>11, <1>12, <1>13, <1>14, <1>15, <1>16, <1>17 DEF OpSteps

-----------------------------------------------------------------------------
(***************************************************************************)
(* The lock.                                                               *)
(***************************************************************************)

SectionLabels == Labels \ {"idle", "dead", "lock", "probe", "takeover"}

\* A step in the critical section is its owner's, and touches only its own label and locals.
LEMMA SectionShape ==
    ASSUME ShmInv, NEW p \in Procs, RehashSteps(p) \/ (OpSteps(p) /\ ~Unlock(p))
    PROVE  /\ InSection(p) /\ InSection(p)' /\ UNCHANGED <<lock, crashes>>
           /\ \E l \in SectionLabels : pc' = [pc EXCEPT ![p] = l]
           /\ \A q \in Procs : q # p => loc'[q] = loc[q]
<1>1. /\ loc \in [Procs -> LocType] /\ pc \in [Procs -> Labels] /\ TypedInv
  BY DEF ShmInv, ShmTypes
<1> DEFINE Shape == /\ InSection(p) /\ UNCHANGED <<lock, crashes>>
                    /\ \E l \in SectionLabels : pc' = [pc EXCEPT ![p] = l]
                    /\ \A q \in Procs : q # p => loc'[q] = loc[q]
<1>2. CASE RehashSteps(p)
  <2>1. CASE Rehash(p)
    BY <1>1, <2>1 DEF Rehash, At, Goto, InSection, SectionLabels, Labels
  <2>2. CASE SetCapNew(p) \/ SetHIdxNew(p) \/ WorkDone(p) \/ SetCapacity(p)
    BY <1>1, <2>2 DEF SetCapNew, SetHIdxNew, WorkDone, SetCapacity, SetHeader, At, Goto, InSection,
                      SectionLabels, Labels
  <2>3. CASE RedoOld(p) \/ MoveOld(p)
    BY <1>1, <2>3 DEF RedoOld, MoveOld, TakeOff, At, Goto, InSection, SectionLabels, Labels
  <2>4. CASE RedoNext(p) \/ MoveNext(p)
    BY <1>1, <2>4 DEF RedoNext, MoveNext, LinkNext, At, Goto, InSection, SectionLabels, Labels
  <2>5. CASE RedoNew(p)
    BY <1>1, <2>5 DEF RedoNew, PutOn, At, Goto, InSection, SectionLabels, Labels
  <2>6. CASE MoveNew(p)
    BY <1>1, <2>6 DEF MoveNew, PutOn, At, Goto, InSection, SectionLabels, Labels
  <2>7. CASE BeginWork(p)
    BY <1>1, <2>7 DEF BeginWork, shared, At, Goto, InSection, SectionLabels, Labels
  <2>8. CASE Work(p)
    BY <1>1, <2>8 DEF Work, At, Goto, InSection, SectionLabels, Labels
  <2>9. CASE ReleaseOld(p)
    BY <1>1, <2>9 DEF ReleaseOld, At, Goto, InSection, SectionLabels, Labels
  <2>10. CASE SetHIdx(p)
    <3>1. pc[p] = "hidx"
      BY <2>10 DEF SetHIdx, SetHeader, At
    <3>2. loc[p].from \in SectionLabels
      BY <1>1, <3>1 DEF TypedInv, Typed, InSection, LoopLabels, EndLabels, SectionLabels, Labels
    <3> QED
      <4>1. UNCHANGED <<lock, crashes, loc>> /\ pc' = [pc EXCEPT ![p] = loc[p].from]
        BY <2>10 DEF SetHIdx, SetHeader, Goto
      <4>2. \E l \in SectionLabels : pc' = [pc EXCEPT ![p] = l]
        BY <3>2, <4>1
      <4>3. InSection(p)
        BY <3>1 DEF InSection
      <4>4. InSection(p)'
        BY <1>1, <3>2, <4>1 DEF InSection, SectionLabels
      <4> QED
        BY <4>1, <4>2, <4>3, <4>4
  <2>11. Shape
    BY <1>2, <2>1, <2>2, <2>3, <2>4, <2>5, <2>6, <2>7, <2>8, <2>9, <2>10 DEF RehashSteps
  <2> QED
    BY <1>1, <2>11 DEF InSection, SectionLabels
<1>3. CASE OpSteps(p) /\ ~Unlock(p)
  <2>1. CASE Locked(p) \/ FindStep(p) \/ Found(p) \/ InsertCopy(p)
    BY <1>1, <2>1 DEF Locked, FindStep, Found, InsertCopy, shared, At, Goto, InSection,
                      SectionLabels, Labels
  <2>2. CASE AllocIter(p)
    BY <1>1, <2>2 DEF AllocIter, At, Goto, InSection, SectionLabels, Labels
  <2>3. CASE InsertNext(p) \/ InsertLink(p)
    BY <1>1, <2>3 DEF InsertNext, InsertLink, At, Goto, InSection, SectionLabels, Labels
  <2>4. CASE IncrTableSize(p) \/ DecrTableSize(p)
    BY <1>1, <2>4 DEF IncrTableSize, DecrTableSize, SetHeader, At, Goto, InSection, SectionLabels,
                      Labels
  <2>5. CASE Unlink(p)
    BY <1>1, <2>5 DEF Unlink, At, Goto, InSection, SectionLabels, Labels
  <2>6. CASE Release(p)
    BY <1>1, <2>6 DEF Release, At, Goto, InSection, SectionLabels, Labels
  <2>7. Shape
    BY <1>3, <2>1, <2>2, <2>3, <2>4, <2>5, <2>6 DEF OpSteps
  <2> QED
    BY <1>1, <2>7 DEF InSection, SectionLabels
<1> QED
  BY <1>2, <1>3

\* Steps outside the critical section and the one that leaves it.
OutSteps(p) ==
    Start(p) \/ LockSteps(p) \/ Unlock(p) \/ Crash(p)

LEMMA StepCases ==
    ASSUME Next
    PROVE  \E p \in Procs : OutSteps(p) \/ RehashSteps(p) \/ (OpSteps(p) /\ ~Unlock(p))
  BY DEF Next, OutSteps, OpSteps

LEMMA LockKeptInside ==
    ASSUME ShmInv, NEW p \in Procs, RehashSteps(p) \/ (OpSteps(p) /\ ~Unlock(p))
    PROVE  LockInv'
<1>1. pc \in [Procs -> Labels] /\ LockInv
  BY DEF ShmInv, ShmTypes
<1>2. PICK l \in SectionLabels : pc' = [pc EXCEPT ![p] = l]
  BY SectionShape
<1>3. /\ InSection(p) /\ lock' = lock
      /\ \A q \in Procs : q # p => loc'[q] = loc[q]
  BY SectionShape
<1>4. MutualExclusion'
  BY <1>1, <1>2, <1>3 DEF LockInv, MutualExclusion, InSection, SectionLabels
<1>5. \A q \in Procs : pc'[q] \in {"probe", "takeover"} => q # p /\ pc[q] = pc'[q]
  BY <1>1, <1>2 DEF SectionLabels
<1>6. \A q \in Procs : pc[q] = "dead" => pc'[q] = "dead"
  BY <1>1, <1>2, <1>3 DEF InSection
<1> QED
  BY <1>1, <1>3, <1>4, <1>5, <1>6 DEF LockInv

LEMMA LockKeptOutside ==
    ASSUME ShmInv, NEW p \in Procs, OutSteps(p)
    PROVE  LockInv'
<1>1. /\ pc \in [Procs -> Labels] /\ loc \in [Procs -> LocType] /\ LockInv
      /\ lock \in Procs \cup {0} /\ \A q \in Procs : q >= 10 /\ q # 0
  BY DEF ShmInv, ShmTypes, LS_LOCK_AVAIL, LS_SPIN_MIN_PID
<1>2. CASE Start(p)
  BY <1>1, <1>2 DEF Start, At, Goto, LockInv, MutualExclusion, InSection
<1>3. CASE TryLock(p)
  <2>1. CASE lock = 0
    <3>1. MutualExclusion'
      BY <1>1, <1>3, <2>1 DEF TryLock, At, Goto, LockInv, MutualExclusion, InSection, LS_LOCK_AVAIL
    <3>2. \A q \in Procs : pc'[q] \in {"probe", "takeover"} => q # p /\ pc[q] = pc'[q]
      BY <1>1, <1>3, <2>1 DEF TryLock, Goto, LS_LOCK_AVAIL
    <3>3. \A q \in Procs : pc[q] = "dead" => pc'[q] = "dead"
      BY <1>1, <1>3, <2>1 DEF TryLock, At, Goto, LS_LOCK_AVAIL
    <3>4. \A q \in Procs : q # p => loc'[q] = loc[q]
      BY <1>1, <1>3, <2>1 DEF TryLock, LS_LOCK_AVAIL
    <3> QED
      BY <1>1, <3>1, <3>2, <3>3, <3>4 DEF LockInv
  <2>2. CASE lock # 0
    <3>1. lock \in Procs /\ ~(lock < LS_SPIN_MIN_PID)
      BY <1>1, <2>2 DEF LS_SPIN_MIN_PID
    <3>2. /\ lock' = lock /\ pc' = [pc EXCEPT ![p] = "probe"]
          /\ loc' = [loc EXCEPT ![p].waitpid = lock] /\ pc[p] = "lock"
      BY <1>3, <2>2, <3>1 DEF TryLock, At, Goto, LS_LOCK_AVAIL
    <3>3. MutualExclusion'
      BY <1>1, <3>2 DEF LockInv, MutualExclusion, InSection
    <3>4. loc'[p].waitpid \in Procs /\ \A q \in Procs : q # p => loc'[q] = loc[q]
      <4>1. loc[p] \in LocType
        BY <1>1
      <4>2. [loc[p] EXCEPT !.waitpid = lock].waitpid = lock
        BY <4>1 DEF LocType
      <4> QED
        BY <1>1, <3>1, <3>2, <4>2
    <3>5. \A q \in Procs : pc'[q] \in {"probe", "takeover"} => loc'[q].waitpid \in Procs
      BY <1>1, <3>2, <3>4 DEF LockInv
    <3>6. \A q \in Procs : pc'[q] = "takeover" => pc'[loc'[q].waitpid] = "dead"
      BY <1>1, <3>2, <3>4 DEF LockInv
    <3> QED
      BY <3>3, <3>5, <3>6 DEF LockInv
  <2> QED
    BY <2>1, <2>2
<1>4. CASE Probe(p)
  BY <1>1, <1>4 DEF Probe, At, Alive, Goto, LockInv, MutualExclusion, InSection
<1>5. CASE TakeOver(p)
  <2>1. CASE lock = loc[p].waitpid
    <3>1. /\ pc[p] = "takeover" /\ lock' = p /\ pc' = [pc EXCEPT ![p] = "locked"]
          /\ \A q \in Procs : q # p => loc'[q] = loc[q]
      BY <1>1, <1>5, <2>1 DEF TakeOver, At, Goto
    <3>2. pc[lock] = "dead"
      BY <1>1, <2>1, <3>1 DEF LockInv
    <3>3. \A q \in Procs : ~InSection(q)
      BY <1>1, <3>2 DEF LockInv, MutualExclusion, InSection
    <3>4. MutualExclusion'
      BY <1>1, <3>1, <3>3 DEF MutualExclusion, InSection
    <3> QED
      BY <1>1, <3>1, <3>4 DEF LockInv
  <2>2. CASE lock # loc[p].waitpid
    <3>1. UNCHANGED <<lock, loc>> /\ pc[p] = "takeover" /\ pc' = [pc EXCEPT ![p] = "lock"]
      BY <1>5, <2>2 DEF TakeOver, At, Goto
    <3>2. \A q \in Procs : q # p => pc'[q] = pc[q]
      BY <1>1, <3>1
    <3>3. MutualExclusion'
      BY <1>1, <3>1, <3>2 DEF LockInv, MutualExclusion, InSection
    <3> QED
      BY <1>1, <3>1, <3>2, <3>3 DEF LockInv
  <2> QED
    BY <2>1, <2>2
<1>6. CASE Unlock(p)
  <2>1. /\ pc[p] = "unlock" /\ InSection(p) /\ pc' = [pc EXCEPT ![p] = "idle"]
        /\ \A q \in Procs : q # p => loc'[q] = loc[q]
    BY <1>1, <1>6 DEF Unlock, At, Goto, InSection
  <2>2. \A q \in Procs : q # p => ~InSection(q)
    BY <1>1, <2>1, Alone
  <2>3. MutualExclusion'
    BY <1>1, <2>1, <2>2 DEF MutualExclusion, InSection
  <2> QED
    BY <1>1, <2>1, <2>3 DEF LockInv
<1>7. CASE Crash(p)
  <2>1. /\ lock' = lock /\ pc' = [pc EXCEPT ![p] = "dead"]
        /\ \A q \in Procs : q # p => loc'[q] = loc[q]
    BY <1>1, <1>7 DEF Crash, Goto
  <2> QED
    BY <1>1, <2>1 DEF LockInv, MutualExclusion, InSection
<1> QED
  BY <1>2, <1>3, <1>4, <1>5, <1>6, <1>7 DEF OutSteps, LockSteps

\* A step outside the critical section leaves the table alone.
LEMMA OutShape ==
    ASSUME ShmInv, NEW p \in Procs, OutSteps(p)
    PROVE  /\ UNCHANGED <<table, idx, elem, used, stored>>
           /\ \A q \in Procs : q # p => loc'[q] = loc[q] /\ pc'[q] = pc[q]
           /\ ~InSection(p)' \/ pc'[p] = "locked"
<1>1. pc \in [Procs -> Labels] /\ loc \in [Procs -> LocType]
  BY DEF ShmInv, ShmTypes
<1>2. CASE Start(p)
  BY <1>1, <1>2 DEF Start, Goto, shared, InSection
<1>3. CASE TryLock(p)
  BY <1>1, <1>3 DEF TryLock, Goto, shared, InSection
<1>4. CASE Probe(p)
  BY <1>1, <1>4 DEF Probe, Goto, shared, InSection
<1>5. CASE TakeOver(p)
  BY <1>1, <1>5 DEF TakeOver, Goto, shared, InSection
<1>6. CASE Unlock(p)
  BY <1>1, <1>6 DEF Unlock, Goto, shared, InSection
<1>7. CASE Crash(p)
  BY <1>1, <1>7 DEF Crash, Goto, InSection
<1> QED
  BY <1>2, <1>3, <1>4, <1>5, <1>6, <1>7 DEF OutSteps, LockSteps

LEMMA TypedKeptOutside ==
    ASSUME ShmInv, NEW p \in Procs, OutSteps(p)
    PROVE  TypedInv'
<1>1. /\ pc \in [Procs -> Labels] /\ TypedInv
  BY DEF ShmInv, ShmTypes
<1>2. /\ table' = table /\ used' = used
      /\ \A q \in Procs : q # p => loc'[q] = loc[q] /\ pc'[q] = pc[q]
      /\ ~InSection(p)' \/ pc'[p] = "locked"
  BY OutShape
<1>3. ASSUME NEW q \in Procs, InSection(q)' PROVE Typed(q)'
  <2>1. CASE q = p
    BY <1>2, <1>3, <2>1 DEF Typed, NewLabels, LoopLabels, RedoLabels, MoveLabels, EndLabels, HasElem
  <2>2. CASE q # p
    <3>1. InSection(q) /\ pc'[q] = pc[q] /\ loc'[q] = loc[q]
      BY <1>2, <1>3, <2>2 DEF InSection
    <3>2. Typed(q)
      BY <1>1, <3>1 DEF TypedInv
    <3> QED
      BY <1>2, <3>1, <3>2 DEF Typed, InRehash, NextCap, NewTable
  <2> QED
    BY <2>1, <2>2
<1>4. HeaderInv'
  BY <1>1, <1>2 DEF TypedInv, HeaderInv, InRehash
<1> QED
  BY <1>3, <1>4 DEF TypedInv

\* It is enough to look at the process that moves: nobody else is in the section.
LEMMA TypedOfOne ==
    ASSUME ShmInv, NEW p \in Procs, RehashSteps(p) \/ (OpSteps(p) /\ ~Unlock(p)),
           Typed(p)', HeaderInv'
    PROVE  TypedInv'
<1>1. pc \in [Procs -> Labels] /\ LockInv
  BY DEF ShmInv, ShmTypes
<1>2. InSection(p) /\ \E l \in SectionLabels : pc' = [pc EXCEPT ![p] = l]
  BY SectionShape
<1>3. \A q \in Procs : InSection(q)' => q = p
  BY <1>1, <1>2, Alone DEF InSection
<1> QED
  BY <1>3 DEF TypedInv

LEMMA TypedKeptRehash ==
    ASSUME ShmInv, NEW p \in Procs, RehashSteps(p)
    PROVE  TypedInv'
<1>1. ShmTypes /\ TypedInv /\ Typed(p)
  BY SectionShape DEF ShmInv, TypedInv
<1>2. /\ pc \in [Procs -> Labels] /\ loc \in [Procs -> LocType] /\ table \in TableType
      /\ used \in [elems : SUBSET Elems, tables : SUBSET Tables] /\ HeaderInv
  BY <1>1 DEF ShmTypes, TypedInv
<1> USE DEF NewLabels, RedoLabels, MoveLabels, EndLabels, LoopLabels, HasElem
<1> SUFFICES Typed(p)' /\ HeaderInv'
  BY TypedOfOne
<1>3. CASE Rehash(p)
  <2>1. /\ pc[p] = "rehash" /\ UNCHANGED <<table, loc>>
        /\ pc'[p] \in {"redoOld", "begin", "unlock", "alloc", "capNew"}
        /\ pc'[p] = "redoOld" => InRehash /\ table.work # Null
        /\ pc'[p] = "begin" => InRehash
        /\ pc'[p] = "capNew" => ~InRehash /\ NextCap(table.cap) # {}
        /\ \/ used' = used /\ pc'[p] # "capNew"
           \/ used' = [used EXCEPT !.tables = @ \cup {NewTable}] /\ pc'[p] = "capNew"
    BY <1>2, <1>3 DEF Rehash, At, Goto
  <2>2. /\ used.tables \subseteq used'.tables
        /\ pc'[p] = "capNew" => NewTable \in used'.tables
    BY <1>2, <2>1
  <2>3. NewTable' = NewTable /\ NextCap(table.cap)' = NextCap(table.cap) /\ InRehash' = InRehash
    BY <2>1 DEF NewTable, NextCap, InRehash
  <2>4. table.hidx \in used.tables
    BY <1>1, <2>1 DEF Typed
  <2>5. HeaderInv'
    BY <1>2, <2>1, <2>2, <2>4 DEF HeaderInv, InRehash
  <2>6. Typed(p)'
    BY <1>1, <2>1, <2>2, <2>3, <2>4 DEF Typed
  <2> QED
    BY <2>5, <2>6
<1>4. CASE SetCapNew(p)
  <2>1. /\ pc[p] = "capNew" /\ loc' = loc /\ pc'[p] = "hidxNew"
        /\ table' = [table EXCEPT !["capNew"] = Capacities[NewTable]]
    BY <1>2, <1>4 DEF SetCapNew, SetHeader, At, Goto
  <2>2. NextCap(table.cap) # {}
    BY <1>1, <2>1 DEF Typed
  <2>4. /\ table'.capNew = Capacities[NewTable] /\ table'.cap = table.cap
        /\ table'.hidx = table.hidx /\ table'.hidxNew = table.hidxNew /\ used' = used
    BY <1>2, <1>4, <2>1 DEF TableType, SetCapNew, SetHeader
  <2>5. NewTable' = NewTable /\ NextCap(table.cap)' = NextCap(table.cap) /\ InRehash' = InRehash
    BY <2>4 DEF NewTable, NextCap, InRehash
  <2> QED
    BY <1>1, <1>2, <2>1, <2>4, <2>5 DEF Typed, HeaderInv
<1>5. CASE SetHIdxNew(p)
  <2>1. /\ pc[p] = "hidxNew" /\ loc' = loc /\ pc'[p] = "begin"
        /\ table' = [table EXCEPT !["hidxNew"] = NewTable]
    BY <1>2, <1>5 DEF SetHIdxNew, SetHeader, At, Goto
  <2>2. /\ ~InRehash /\ NextCap(table.cap) # {} /\ NewTable \in used.tables
        /\ table.capNew = Capacities[NewTable] /\ table.hidx \in used.tables
    BY <1>1, <2>1 DEF Typed
  <2>3. /\ table'.capNew = table.capNew /\ table'.hidx = table.hidx /\ table'.hidxNew = NewTable
        /\ table'.cap = table.cap /\ used' = used
    BY <1>2, <1>5, <2>1 DEF TableType, SetHIdxNew, SetHeader
  <2>4. NewTable # table.hidx
    <3>1. table.cap = Capacities[table.hidx] /\ table.cap \in Nat
      BY <1>1, <1>2, <2>2, CapFacts DEF HeaderInv, TableType
    <3>2. NewTable \in Tables /\ Capacities[NewTable] > table.cap
      BY <1>1, <2>2, NewTableFacts
    <3> QED
      BY <3>1, <3>2
  <2> QED
    BY <1>1, <1>2, <2>1, <2>2, <2>3, <2>4 DEF Typed, HeaderInv, InRehash
<1>6. CASE RedoOld(p) \/ RedoNext(p) \/ MoveOld(p) \/ MoveNext(p)
  <2>1. /\ UNCHANGED <<table, used, loc>>
        /\ \/ pc[p] = "redoOld" /\ pc'[p] = "redoNext"
           \/ pc[p] = "redoNext" /\ pc'[p] = "redoNew"
           \/ pc[p] = "mvOld" /\ pc'[p] = "mvNext"
           \/ pc[p] = "mvNext" /\ pc'[p] = "mvNew"
    BY <1>2, <1>6 DEF RedoOld, RedoNext, MoveOld, MoveNext, TakeOff, LinkNext, At, Goto
  <2> QED
    BY <1>1, <1>2, <2>1 DEF Typed, HeaderInv, InRehash
<1>7. CASE RedoNew(p) \/ MoveNew(p)
  <2>1. /\ table' = table /\ used' = used /\ loc' = [loc EXCEPT ![p].it = loc[p].nx]
        /\ \/ pc[p] = "redoNew" /\ pc'[p] = "begin"
           \/ pc[p] = "mvNew" /\ pc'[p] = "workDone" /\ loc[p].nx = Null
           \/ pc[p] = "mvNew" /\ pc'[p] = "work" /\ loc[p].nx # Null
    BY <1>2, <1>7 DEF RedoNew, MoveNew, PutOn, At, Goto
  <2>2. loc'[p].it = loc[p].nx /\ loc'[p].from = loc[p].from
    BY <1>2, <2>1 DEF LocType
  <2> QED
    BY <1>1, <1>2, <2>1, <2>2 DEF Typed, HeaderInv, InRehash
<1>8. CASE BeginWork(p)
  <2>1. /\ pc[p] = "begin" /\ UNCHANGED <<table, used>> /\ loc' = [loc EXCEPT ![p].it = Begin]
        /\ \/ pc'[p] = "workDone"
           \/ pc'[p] = "work" /\ Begin # Null
    BY <1>2, <1>8 DEF BeginWork, shared, At, Goto
  <2>2. loc'[p].it = Begin /\ loc'[p].from = loc[p].from
    BY <1>2, <2>1 DEF LocType
  <2> QED
    BY <1>1, <1>2, <2>1, <2>2 DEF Typed, HeaderInv, InRehash
<1>9. CASE Work(p)
  <2>1. /\ pc[p] = "work" /\ table' = [table EXCEPT !.work = loc[p].it]
        /\ loc' = [loc EXCEPT ![p].nx = Next_(loc[p].it)] /\ pc'[p] = "mvOld" /\ used' = used
    BY <1>2, <1>9 DEF Work, At, Goto
  <2>2. loc'[p].it = loc[p].it /\ loc'[p].from = loc[p].from
    BY <1>2, <2>1 DEF LocType
  <2>3. /\ table'.hidx = table.hidx /\ table'.hidxNew = table.hidxNew
        /\ table'.capNew = table.capNew /\ table'.cap = table.cap /\ table'.work = loc[p].it
    BY <1>2, <2>1 DEF TableType
  <2> QED
    BY <1>1, <1>2, <2>1, <2>2, <2>3 DEF Typed, HeaderInv, InRehash
<1>10. CASE WorkDone(p) \/ SetCapacity(p)
  <2>1. /\ loc' = loc /\ used' = used
        /\ \/ pc[p] = "workDone" /\ pc'[p] = "releaseOld"
              /\ table' = [table EXCEPT !["work"] = Null]
           \/ pc[p] = "capacity" /\ pc'[p] = "hidx"
              /\ table' = [table EXCEPT !["cap"] = table.capNew]
    BY <1>2, <1>10 DEF WorkDone, SetCapacity, SetHeader, At, Goto
  <2>2. /\ table'.hidx = table.hidx /\ table'.hidxNew = table.hidxNew
        /\ table'.capNew = table.capNew
        /\ table'.cap = IF pc[p] = "capacity" THEN table.capNew ELSE table.cap
    BY <1>2, <2>1 DEF TableType
  <2> QED
    BY <1>1, <1>2, <2>1, <2>2 DEF Typed, HeaderInv, InRehash
<1>11. CASE ReleaseOld(p)
  <2>1. /\ UNCHANGED <<table, loc>> /\ pc[p] = "releaseOld" /\ pc'[p] = "capacity"
        /\ used'.tables = used.tables \ {table.hidx}
    BY <1>2, <1>11 DEF ReleaseOld, At, Goto
  <2> QED
    BY <1>1, <1>2, <2>1 DEF Typed, HeaderInv, InRehash
<1>12. CASE SetHIdx(p)
  <2>1. /\ pc[p] = "hidx" /\ pc'[p] = loc[p].from
        /\ table' = [table EXCEPT !["hidx"] = table.hidxNew] /\ used' = used
    BY <1>2, <1>12 DEF SetHIdx, SetHeader, At, Goto
  <2>2. loc[p].from \in {"find", "alloc"}
    BY <1>1, <2>1 DEF Typed
  <2>3. /\ table'.hidx = table.hidxNew /\ table'.hidxNew = table.hidxNew
        /\ table'.cap = table.cap /\ table'.capNew = table.capNew
    BY <1>2, <2>1 DEF TableType
  <2> QED
    BY <1>1, <1>2, <2>1, <2>2, <2>3 DEF Typed, HeaderInv, InRehash
<1> QED
  BY <1>3, <1>4, <1>5, <1>6, <1>7, <1>8, <1>9, <1>10, <1>11, <1>12 DEF RehashSteps

LEMMA TypedKeptOp ==
    ASSUME ShmInv, NEW p \in Procs, OpSteps(p), ~Unlock(p)
    PROVE  TypedInv'
<1>1. ShmTypes /\ TypedInv /\ Typed(p)
  BY SectionShape DEF ShmInv, TypedInv
<1>2. /\ pc \in [Procs -> Labels] /\ loc \in [Procs -> LocType] /\ table \in TableType
      /\ used \in [elems : SUBSET Elems, tables : SUBSET Tables] /\ HeaderInv
  BY <1>1 DEF ShmTypes, TypedInv
<1> USE DEF NewLabels, RedoLabels, MoveLabels, EndLabels, LoopLabels, HasElem
<1> SUFFICES Typed(p)' /\ HeaderInv'
  BY TypedOfOne
<1>3. CASE Locked(p) \/ InsertCopy(p)
  <2>1. /\ UNCHANGED <<table, used>>
        /\ pc[p] = "insert" \/ (pc[p] = "locked" /\ table.hidx \in used.tables)
        /\ \/ pc'[p] = "rehash" /\ loc' = [loc EXCEPT ![p].from = "find"]
           \/ pc'[p] = "rehash" /\ loc' = [loc EXCEPT ![p].from = "alloc"]
           \/ pc'[p] \in {"find", "alloc"}
    BY <1>2, <1>3 DEF Locked, InsertCopy, shared, At, Goto
  <2>2. pc'[p] = "rehash" => loc'[p].from \in {"find", "alloc"}
    BY <1>2, <2>1 DEF LocType
  <2> QED
    BY <1>1, <1>2, <2>1, <2>2 DEF Typed, HeaderInv, InRehash
<1>4. CASE FindStep(p)
  <2>1. UNCHANGED <<table, used>> /\ pc[p] = "find" /\ pc'[p] = "found"
    BY <1>2, <1>4 DEF FindStep, shared, At, Goto
  <2> QED
    BY <1>1, <1>2, <2>1 DEF Typed, HeaderInv, InRehash
<1>5. CASE Found(p)
  <2>1. /\ UNCHANGED <<table, used, loc>>
        /\ pc[p] = "found"
        /\ pc'[p] \in {"unlock", "insert"} \/ (pc'[p] = "unlink" /\ loc[p].it # Null)
    BY <1>2, <1>5 DEF Found, shared, At, Goto
  <2> QED
    BY <1>1, <1>2, <2>1 DEF Typed, HeaderInv, InRehash
<1>6. CASE AllocIter(p)
  <2> DEFINE free == Elems \ used.elems
             e == CHOOSE x \in free : \A y \in free : x <= y
  <2>1. /\ table' = table /\ used'.tables = used.tables /\ pc[p] = "alloc"
        /\ \/ pc'[p] = "unlock"
           \/ pc'[p] = "next" /\ loc' = [loc EXCEPT ![p].it = e] /\ free # {}
    BY <1>2, <1>6 DEF AllocIter, At, Goto
  <2>2. free # {} => e \in free
    <3>1. free \subseteq Nat
      OBVIOUS
    <3> HIDE DEF free
    <3>2. free # {} => \E x \in free : \A y \in free : x <= y
      BY <3>1, NatLeast
    <3> QED
      BY <3>2
  <2> HIDE DEF e
  <2>3. free # {} => e # Null
    BY <2>2 DEF Null
  <2>4. pc'[p] = "next" => loc'[p].it # Null
    BY <1>2, <2>1, <2>3 DEF LocType
  <2> QED
    BY <1>1, <1>2, <2>1, <2>4 DEF Typed, HeaderInv, InRehash
<1>7. CASE InsertNext(p) \/ InsertLink(p) \/ Unlink(p)
  <2>1. /\ UNCHANGED <<table, used, loc>>
        /\ \/ pc[p] = "next" /\ pc'[p] = "link"
           \/ pc[p] = "link" /\ pc'[p] = "incr"
           \/ pc[p] = "unlink" /\ pc'[p] = "decr"
    BY <1>2, <1>7 DEF InsertNext, InsertLink, Unlink, At, Goto
  <2> QED
    BY <1>1, <1>2, <2>1 DEF Typed, HeaderInv, InRehash
<1>8. CASE IncrTableSize(p) \/ DecrTableSize(p)
  <2>1. /\ loc' = loc /\ used' = used
        /\ \/ table' = [table EXCEPT !["size"] = Wrap(table.size + 1)]
           \/ table' = [table EXCEPT !["size"] = Wrap(table.size - 1)]
        /\ \/ pc[p] = "incr" /\ pc'[p] = "unlock"
           \/ pc[p] = "decr" /\ pc'[p] = "release"
    BY <1>2, <1>8 DEF IncrTableSize, DecrTableSize, SetHeader, At, Goto
  <2>2. /\ table'.hidx = table.hidx /\ table'.hidxNew = table.hidxNew
        /\ table'.capNew = table.capNew
        /\ table'.cap = IF pc[p] = "capacity" THEN table.capNew ELSE table.cap
    BY <1>2, <2>1 DEF TableType
  <2> QED
    BY <1>1, <1>2, <2>1, <2>2 DEF Typed, HeaderInv, InRehash
<1>9. CASE Release(p)
  <2>1. /\ table' = table /\ used'.tables = used.tables /\ pc[p] = "release"
        /\ pc'[p] \in {"insert", "unlock"}
    BY <1>2, <1>9 DEF Release, At, Goto
  <2> QED
    BY <1>1, <1>2, <2>1 DEF Typed, HeaderInv, InRehash
<1> QED
  BY <1>3, <1>4, <1>5, <1>6, <1>7, <1>8, <1>9 DEF OpSteps

LEMMA OutsideTypesKept ==
    ASSUME ShmInv, NEW p \in Procs, OutSteps(p)
    PROVE  ShmTypes'
<1>1. ShmTypes
  BY DEF ShmInv
<1>2. /\ loc \in [Procs -> LocType] /\ pc \in [Procs -> Labels]
      /\ lock \in Procs \cup {LS_LOCK_AVAIL} /\ crashes \in 0 .. MaxCrashes
  BY <1>1 DEF ShmTypes
<1>4. CASE Start(p)
  <2>1. pc' \in [Procs -> Labels]
    BY <1>2, <1>4 DEF Start, Goto, Labels
  <2> QED
    BY <1>1, <1>2, <1>4, <2>1, LocalTypes DEF Start, shared
<1>5. CASE Unlock(p)
  BY <1>5, OpTypesKept DEF OpSteps
<1>6. CASE Crash(p)
  <2>1. pc' \in [Procs -> Labels]
    BY <1>2, <1>6 DEF Crash, Goto, Labels
  <2>2. NoLocals \in LocType
    BY DEF NoLocals, LocType, Offsets
  <2>3. loc' \in [Procs -> LocType]
    BY <1>2, <1>6, <2>2 DEF Crash
  <2>4. crashes' \in 0 .. MaxCrashes
    BY <1>2, <1>6 DEF Crash
  <2> QED
    BY <1>1, <1>2, <1>6, <2>1, <2>3, <2>4, LocalTypes DEF Crash
<1> QED
  BY <1>4, <1>5, <1>6, LockTypesKept DEF OutSteps

LEMMA ShmInvKept == ShmInv /\ [Next]_vars => ShmInv'
<1> SUFFICES ASSUME ShmInv, [Next]_vars PROVE ShmInv'
  OBVIOUS
<1>1. CASE UNCHANGED vars
  BY <1>1 DEF vars, ShmInv, ShmTypes, LockInv, MutualExclusion, TypedInv, HeaderInv, Typed,
              InSection, InRehash, NextCap, NewTable
<1>2. CASE Next
  <2>1. PICK p \in Procs : OutSteps(p) \/ RehashSteps(p) \/ (OpSteps(p) /\ ~Unlock(p))
    BY <1>2, StepCases
  <2>2. ShmTypes'
    BY <2>1, OutsideTypesKept, RehashTypesKept, OpTypesKept
  <2>3. LockInv'
    BY <2>1, LockKeptOutside, LockKeptInside
  <2>4. TypedInv'
    BY <2>1, TypedKeptOutside, TypedKeptRehash, TypedKeptOp
  <2> QED
    BY <2>2, <2>3, <2>4 DEF ShmInv
<1> QED
  BY <1>1, <1>2

\* Only a change of a half moved table makes it split, for good.
LEMMA SplitSteps ==
    ASSUME [Next]_vars
    PROVE  split' = split \/ split' = (split \/ InRehash)
<1>1. CASE UNCHANGED vars
  BY <1>1 DEF vars
<1>2. CASE Next
  <2>1. PICK p \in Procs : OutSteps(p) \/ RehashSteps(p) \/ (OpSteps(p) /\ ~Unlock(p))
    BY <1>2, StepCases
  <2>2. CASE OutSteps(p)
    BY <2>2 DEF OutSteps, LockSteps, Start, TryLock, Probe, TakeOver, Unlock, Crash, shared
  <2>3. CASE RehashSteps(p)
    BY <2>3 DEF RehashSteps, Rehash, SetCapNew, SetHIdxNew, RedoOld, RedoNext, RedoNew, BeginWork,
       Work, MoveOld, MoveNext, MoveNew, WorkDone, ReleaseOld, SetCapacity, SetHIdx, SetHeader,
       TakeOff, LinkNext, PutOn, shared
  <2>4. CASE InsertLink(p) \/ Unlink(p)
    BY <2>4 DEF InsertLink, Unlink
  <2>5. CASE OpSteps(p) /\ ~InsertLink(p) /\ ~Unlink(p)
    BY <2>5 DEF OpSteps, Locked, FindStep, Found, InsertCopy, AllocIter, InsertNext,
       IncrTableSize, DecrTableSize, SetHeader, Release, Unlock, shared
  <2> QED
    BY <2>1, <2>2, <2>3, <2>4, <2>5
<1> QED
  BY <1>1, <1>2

\* A hash table that processes share keeps its types, and its lock one owner, whichever
\* of them die and whoever takes the lock over.
THEOREM ShmInvHolds == Spec => []ShmInv
<1>1. ShmInv /\ [Next]_vars => ShmInv'
  BY ShmInvKept
<1> QED
  BY InitShm, <1>1, PTL DEF Spec

\* Whatever the capacities, the elements and the processes that die, the header, the
\* index arrays and the chains of the table hold offsets and sizes in their ranges.
THEOREM ShmTypesHold == Spec => []TypeOK
<1>1. ShmInv /\ split \in BOOLEAN => TypeOK
  <2> SUFFICES ASSUME ShmInv, split \in BOOLEAN PROVE TypeOK
    OBVIOUS
  <2>1. table \in TableType /\ Caps \subseteq Nat
    BY CapFacts DEF ShmInv, ShmTypes
  <2>2. table \in [hidx : Tables, hidxNew : Tables, cap : Nat, capNew : Nat, work : Offsets,
                  size : 0 .. 2^SizeBits - 1]
    BY <2>1 DEF TableType
  <2>3. \A p \in Procs : loc[p].it \in Offsets /\ loc[p].nx \in Offsets
    BY DEF ShmInv, ShmTypes, LocType
  <2> QED
    BY <2>2, <2>3 DEF ShmInv, ShmTypes, TypeOK, Buckets, MaxCap, ElemType
<1>2. Init => split \in BOOLEAN
  BY DEF Init
<1>3. split \in BOOLEAN /\ [Next]_vars => (split \in BOOLEAN)'
  <2> SUFFICES ASSUME split \in BOOLEAN, [Next]_vars PROVE split' \in BOOLEAN
    OBVIOUS
  <2>1. split' = split \/ split' = (split \/ InRehash)
    BY SplitSteps
  <2> QED
    BY <2>1 DEF InRehash
<1> QED
  BY <1>1, <1>2, <1>3, ShmInvHolds, PTL DEF Spec

\* ls_atomic_spin_pidlock() and ls_atomic_spin_pidwait(): never two live processes in the
\* critical section, although any waiter may take the lock of a dead owner over.
THEOREM OneOwner == Spec => []MutualExclusion
<1>1. ShmInv => MutualExclusion
  BY DEF ShmInv, LockInv
<1> QED
  BY <1>1, ShmInvHolds, PTL

-----------------------------------------------------------------------------
(***************************************************************************)
(* The chains.  While no process has changed a half moved table (~split)   *)
(* every chain is a list, whichever store a process died at.  A list is    *)
(* described by two functions of its elements: tab, the index array that   *)
(* an element hangs from (0: from none), and rank, its place in the chain, *)
(* from the end.  The head of a chain is the element of the highest rank,  *)
(* and x_iNext the one of the highest rank below.                          *)
(***************************************************************************)

Top(rank, S, x) ==
    IF S = {} THEN x = Null ELSE x \in S /\ \A f \in S : rank[f] <= rank[x]

\* The elements of S are a list that begins at h, in el.
ChainOf(el, S, rank, h) ==
    /\ S \subseteq Elems /\ rank \in [Elems -> Nat]
    /\ \A e, f \in S : e # f => rank[e] # rank[f]
    /\ Top(rank, S, h)
    /\ \A e \in S : Top(rank, {f \in S : rank[f] < rank[e]}, el[e].next)

Slot(e, t)    == getIndex(elem[e].key, Capacities[t])
On(tab, t, b) == {e \in Elems : tab[e] = t /\ Slot(e, t) = b}
Live          == {table.hidx, table.hidxNew}

Linked(tab, rank) ==
    /\ tab \in [Elems -> Live \cup {0}] /\ rank \in [Elems -> Nat]
    /\ \A t \in Live : \A b \in 0 .. Capacities[t] - 1 :
         ChainOf(elem, On(tab, t, b), rank, idx[t][b])

\* What holds between any two stores.
Resumable(tab) ==
    /\ stored = {e \in Elems : tab[e] # 0} \cup (IF InRehash THEN {table.work} \ {Null} ELSE {})
    /\ stored \subseteq used.elems
    /\ ~InRehash => table.work = Null
    /\ InRehash => table.size # 0
    /\ table.hidx \notin used.tables => table.work = Null /\ \A e \in Elems : tab[e] # table.hidx
    /\ \A e \in Elems : e = table.work /\ tab[e] # 0 => idx[tab[e]][Slot(e, tab[e])] = e

\* What the process in the critical section knows besides.
Knows(p, tab) ==
    /\ pc[p] \in {"rehash"} \cup NewLabels => table.size # 0
    /\ pc[p] \in NewLabels => idx[NewTable] = Zeroed
    /\ pc[p] = "redoOld" => tab[table.work] # table.hidxNew
    /\ pc[p] \in {"redoNext", "redoNew", "mvNext", "mvNew"} => tab[table.work] = 0
    /\ pc[p] \in {"redoNew", "mvNew"} => elem[table.work].next = NewHead(elem[table.work].key)
    /\ pc[p] \in {"begin", "work", "workDone"} =>
         table.work = Null \/ tab[table.work] = table.hidxNew
    /\ pc[p] = "work" => loc[p].it = FirstFrom(0)
    /\ pc[p] \in MoveLabels => loc[p].it = table.work
    /\ pc[p] = "mvOld" => loc[p].it = FirstFrom(0) /\ loc[p].nx = Next_(loc[p].it)
    /\ pc[p] \in {"mvNext", "mvNew"} => loc[p].nx = FirstFrom(0)
    /\ pc[p] \in EndLabels => \A e \in Elems : tab[e] # table.hidx
    /\ pc[p] \in EndLabels \ {"workDone"} => table.work = Null
    /\ pc[p] \in {"next", "link"} =>
         loc[p].it \in used.elems \ stored /\ elem[loc[p].it].key = loc[p].key
    /\ pc[p] = "link" => elem[loc[p].it].next = Head_(loc[p].key)
    /\ pc[p] = "found" /\ ~InRehash =>
         IF loc[p].it = Null THEN \A e \in stored : elem[e].key # loc[p].key
         ELSE loc[p].it \in stored /\ elem[loc[p].it].key = loc[p].key
    /\ pc[p] = "unlink" /\ ~InRehash => loc[p].it \in stored /\ elem[loc[p].it].key = loc[p].key
    /\ pc[p] \in {"incr", "decr", "release"} => ~InRehash
    /\ pc[p] \in {"decr", "release"} => loc[p].it \notin stored

Holds(tab, rank) ==
    Linked(tab, rank) /\ Resumable(tab) /\ \A p \in Procs : InSection(p) => Knows(p, tab)

ChainInv == \E tab, rank : Holds(tab, rank)

-----------------------------------------------------------------------------
(***************************************************************************)
(* Following the links of a chain visits its elements from the highest     *)
(* rank down, all of them, and ends.                                       *)
(***************************************************************************)

LEMMA NthSteps ==
    ASSUME ShmTypes, NEW e \in Offsets
    PROVE  /\ Nth(e, 0) = e
           /\ \A n \in Nat : Nth(e, n) \in Offsets
           /\ \A n \in Nat :
                Nth(e, n + 1) = IF Nth(e, n) = Null THEN Null ELSE elem[Nth(e, n)].next
<1> DEFINE f == [d \in Offsets |-> IF d = Null THEN Null ELSE elem[d].next]
           walk[i \in Nat] ==
               IF i = 0 THEN e
               ELSE LET d == walk[i - 1] IN IF d = Null THEN Null ELSE elem[d].next
<1>1. f \in [Offsets -> Offsets]
  BY KeyType DEF Offsets
<1> HIDE DEF f, walk
<1>21. PICK w : Iterates(f, e, Offsets, w)
  BY <1>1, IterationExists
<1>2. w \in [Nat -> Offsets] /\ w[0] = e /\ \A i \in Nat : w[i + 1] = f[w[i]]
  BY <1>21 DEF Iterates
<1>3. \A i \in Nat \ {0} : w[i] = f[w[i - 1]]
  <2> TAKE i \in Nat \ {0}
  <2>1. i - 1 \in Nat /\ i = (i - 1) + 1
    OBVIOUS
  <2> QED
    BY <1>2, <2>1
<1>4. \A i \in Nat \ {0} : w[i] = LET d == w[i - 1] IN IF d = Null THEN Null ELSE elem[d].next
  <2> TAKE i \in Nat \ {0}
  <2>1. i - 1 \in Nat
    OBVIOUS
  <2>2. w[i - 1] \in Offsets
    BY <1>2, <2>1
  <2> QED
    BY <1>3, <2>2 DEF f
<1>5. w = [i \in Nat |-> IF i = 0 THEN e
                         ELSE LET d == w[i - 1] IN IF d = Null THEN Null ELSE elem[d].next]
  BY <1>2, <1>4
<1>6. walk = [i \in Nat |-> IF i = 0 THEN e
                         ELSE LET d == walk[i - 1] IN IF d = Null THEN Null ELSE elem[d].next]
  BY <1>5 DEF walk
<1> HIDE DEF walk
<1>7. /\ walk[0] = e
      /\ \A i \in Nat : walk[i + 1] = IF walk[i] = Null THEN Null ELSE elem[walk[i]].next
  <2>1. walk[0] = e
    BY <1>6
  <2>2. ASSUME NEW i \in Nat PROVE walk[i + 1] = IF walk[i] = Null THEN Null ELSE elem[walk[i]].next
    <3>1. i + 1 \in Nat /\ i + 1 # 0 /\ (i + 1) - 1 = i
      OBVIOUS
    <3>2. walk[i + 1] = LET d == walk[i + 1 - 1] IN IF d = Null THEN Null ELSE elem[d].next
      BY <1>6, <3>1
    <3> QED
      BY <3>1, <3>2
  <2> QED
    BY <2>1, <2>2
<1> DEFINE P == {i \in Nat : walk[i] \in Offsets}
<1>8. \A i \in Nat : i \in P
  <2>1. 0 \in P
    BY <1>7
  <2>2. ASSUME NEW i \in Nat, i \in P PROVE i + 1 \in P
    <3>1. walk[i] # Null => walk[i] \in Elems
      BY <2>2 DEF Offsets
    <3>2. walk[i] # Null => elem[walk[i]].next \in Offsets
      BY <3>1, KeyType
    <3>3. walk[i + 1] \in Offsets
      BY <1>7, <3>2 DEF Offsets
    <3> QED
      BY <3>3
  <2> HIDE DEF P
  <2> QED
    BY <2>1, <2>2, NatInSet
<1>9. \A n \in Nat : Nth(e, n) = walk[n]
  BY DEF Nth, walk
<1>10. \A n \in Nat : n + 1 \in Nat
  OBVIOUS
<1>11. Nth(e, 0) = e /\ \A n \in Nat : Nth(e, n) \in Offsets
  BY <1>7, <1>8, <1>9
<1>12. \A n \in Nat : Nth(e, n + 1) = IF Nth(e, n) = Null THEN Null ELSE elem[Nth(e, n)].next
  BY <1>7, <1>9, <1>10, ZenonT(60)
<1> QED
  BY <1>11, <1>12

LEMMA WalkDown ==
    ASSUME ShmTypes, NEW S, NEW rank, NEW h \in Offsets, ChainOf(elem, S, rank, h)
    PROVE  /\ \A n \in Nat : Nth(h, n) = Null \/ Nth(h, n) \in S
           /\ \A n \in Nat : Nth(h, n + 1) # Null =>
                Nth(h, n) # Null /\ rank[Nth(h, n + 1)] < rank[Nth(h, n)]
<1> DEFINE w == [n \in Nat |-> Nth(h, n)]
           P == {n \in Nat : w[n] = Null \/ w[n] \in S}
<1>1. w[0] = h /\ \A n \in Nat : w[n + 1] = IF w[n] = Null THEN Null ELSE elem[w[n]].next
  BY NthSteps
<1>2. \A n \in Nat : w[n] = Nth(h, n)
  OBVIOUS
<1> HIDE DEF w
<1>3. ASSUME NEW n \in Nat, w[n] \in S
      PROVE  \/ w[n + 1] = Null
             \/ w[n + 1] \in S /\ rank[w[n + 1]] < rank[w[n]]
  <2>1. w[n] # Null
    BY <1>3 DEF ChainOf, Null
  <2>2. w[n + 1] = elem[w[n]].next
    BY <1>1, <2>1
  <2>3. Top(rank, {f \in S : rank[f] < rank[w[n]]}, w[n + 1])
    BY <1>3, <2>2 DEF ChainOf
  <2> QED
    BY <2>3 DEF Top
<1>4. \A n \in Nat : n \in P
  <2>1. 0 \in P
    BY <1>1 DEF ChainOf, Top
  <2>2. ASSUME NEW n \in Nat, n \in P PROVE n + 1 \in P
    <3>1. w[n + 1] = Null \/ w[n + 1] \in S
      BY <1>1, <1>3, <2>2
    <3> QED
      BY <3>1
  <2> HIDE DEF P
  <2> QED
    BY <2>1, <2>2, NatInSet
<1>5. ASSUME NEW n \in Nat, w[n + 1] # Null
      PROVE  w[n] # Null /\ rank[w[n + 1]] < rank[w[n]]
  BY <1>1, <1>3, <1>4, <1>5
<1>6. \A n \in Nat : n + 1 \in Nat
  OBVIOUS
<1> QED
  BY <1>2, <1>4, <1>5, <1>6

\* Ranks fall along the chain, so no element comes twice.
LEMMA WalkFalls ==
    ASSUME ShmTypes, NEW S, NEW rank, NEW h \in Offsets, ChainOf(elem, S, rank, h), NEW m \in Nat
    PROVE  \A n \in Nat : Nth(h, m + n + 1) # Null =>
                Nth(h, m) # Null /\ rank[Nth(h, m + n + 1)] < rank[Nth(h, m)]
<1> DEFINE w == [n \in Nat |-> Nth(h, n)]
           P == {n \in Nat : w[m + n + 1] # Null => w[m] # Null /\ rank[w[m + n + 1]] < rank[w[m]]}
<1>1. /\ \A n \in Nat : w[n] = Null \/ w[n] \in S
      /\ \A n \in Nat : w[n + 1] # Null => w[n] # Null /\ rank[w[n + 1]] < rank[w[n]]
  BY WalkDown
<1>2. \A n \in Nat : w[n] = Nth(h, n)
  OBVIOUS
<1>3. \A e \in S : rank[e] \in Nat
  BY DEF ChainOf
<1> HIDE DEF w
<1>4. 0 \in P
  BY <1>1
<1>5. ASSUME NEW n \in Nat, n \in P PROVE n + 1 \in P
  <2> SUFFICES ASSUME w[m + (n + 1) + 1] # Null
               PROVE  w[m] # Null /\ rank[w[m + (n + 1) + 1]] < rank[w[m]]
    OBVIOUS
  <2>1. m + n + 1 \in Nat /\ m + (n + 1) + 1 = (m + n + 1) + 1 /\ m + (n + 1) + 1 \in Nat
    OBVIOUS
  <2>2. w[m + n + 1] # Null /\ rank[w[m + (n + 1) + 1]] < rank[w[m + n + 1]]
    BY <1>1, <2>1
  <2>3. w[m] # Null /\ rank[w[m + n + 1]] < rank[w[m]]
    BY <1>5, <2>2
  <2>4. rank[w[m]] \in Nat /\ rank[w[m + n + 1]] \in Nat /\ rank[w[m + (n + 1) + 1]] \in Nat
    BY <1>1, <1>3, <2>1, <2>2, <2>3
  <2> QED
    BY <2>2, <2>3, <2>4
<1> HIDE DEF P
<1>6. \A n \in Nat : n \in P
  BY <1>4, <1>5, NatInSet
<1>7. \A n \in Nat : m + n + 1 \in Nat
  OBVIOUS
<1>8. \A n \in Nat : w[m + n + 1] # Null => w[m] # Null /\ rank[w[m + n + 1]] < rank[w[m]]
  BY <1>6 DEF P
<1> QED
  BY <1>2, <1>7, <1>8

LEMMA WalkEnds ==
    ASSUME ShmTypes, NEW S, NEW rank, NEW h \in Offsets, ChainOf(elem, S, rank, h),
           NEW n \in Nat, Nth(h, n) # Null
    PROVE  n < Cardinality(Elems)
<1> DEFINE w == [i \in 0 .. n |-> Nth(h, i)]
<1>1. ASSUME NEW i \in 0 .. n, NEW j \in 0 .. n, i < j, Nth(h, j) # Null
      PROVE  Nth(h, i) # Null /\ rank[Nth(h, j)] < rank[Nth(h, i)]
  <2>1. i \in Nat /\ j - i - 1 \in Nat /\ i + (j - i - 1) + 1 = j
    BY <1>1
  <2> QED
    BY <1>1, <2>1, WalkFalls
<1>2. \A i \in 0 .. n : Nth(h, i) # Null
  <2> TAKE i \in 0 .. n
  <2>1. CASE i < n
    BY <1>1, <2>1
  <2>2. CASE ~(i < n)
    <3>1. i = n
      BY <2>2
    <3> QED
      BY <3>1
  <2> QED
    BY <2>1, <2>2
<1>3. \A i \in 0 .. n : Nth(h, i) \in S /\ Nth(h, i) \in Elems /\ rank[Nth(h, i)] \in Nat
  <2>1. \A i \in 0 .. n : i \in Nat
    OBVIOUS
  <2>2. \A i \in 0 .. n : Nth(h, i) \in S
    BY <1>2, <2>1, WalkDown
  <2>3. \A e \in S : e \in Elems /\ rank[e] \in Nat
    BY DEF ChainOf
  <2> QED
    BY <2>2, <2>3
<1>4. w \in [0 .. n -> Elems] /\ \A i \in 0 .. n : w[i] = Nth(h, i)
  BY <1>3
<1>5. \A i, j \in 0 .. n : i < j => w[i] # w[j]
  <2> TAKE i, j \in 0 .. n
  <2> HAVE i < j
  <2>1. rank[Nth(h, j)] < rank[Nth(h, i)]
    BY <1>1, <1>2
  <2> QED
    BY <1>3, <1>4, <2>1
<1> HIDE DEF w
<1>6. \A i, j \in 0 .. n : i # j => w[i] # w[j]
  <2> TAKE i, j \in 0 .. n
  <2>1. i # j => i < j \/ j < i
    OBVIOUS
  <2> QED
    BY <1>5, <2>1
<1>7. IsFiniteSet(0 .. n) /\ Cardinality(0 .. n) = n + 1 /\ Cardinality(Elems) \in Nat
  BY FS_Interval, FS_CardinalityType
<1>8. ~(Cardinality(Elems) < Cardinality(0 .. n))
  BY <1>4, <1>6, <1>7, FS_PigeonHole
<1> QED
  BY <1>7, <1>8

LEMMA WalkAll ==
    ASSUME ShmTypes, NEW S, NEW rank, NEW h \in Offsets, ChainOf(elem, S, rank, h), NEW e \in S
    PROVE  \E n \in Nat : Nth(h, n) = e
<1> SUFFICES ASSUME \A n \in Nat : Nth(h, n) # e PROVE FALSE
  OBVIOUS
<1> DEFINE P == {n \in Nat : Nth(h, n) \in S /\ rank[e] <= rank[Nth(h, n)]}
<1>1. /\ \A x \in S : x \in Elems /\ rank[x] \in Nat /\ x # Null
      /\ \A x, y \in S : x # y => rank[x] # rank[y]
  BY DEF ChainOf, Null
<1>2. 0 \in P
  <2>1. Nth(h, 0) = h /\ h \in S /\ rank[e] <= rank[h]
    BY NthSteps DEF ChainOf, Top
  <2> QED
    BY <2>1
<1>3. ASSUME NEW n \in Nat, n \in P PROVE n + 1 \in P
  <2> DEFINE x == Nth(h, n)
  <2>1. x \in S /\ rank[e] <= rank[x] /\ x # e
    BY <1>3
  <2>2. e \in {f \in S : rank[f] < rank[x]}
    BY <1>1, <2>1
  <2>3. Nth(h, n + 1) = elem[x].next
    BY <1>1, <2>1, NthSteps
  <2>4. Top(rank, {f \in S : rank[f] < rank[x]}, elem[x].next)
    BY <2>1 DEF ChainOf
  <2>5. elem[x].next \in S /\ rank[e] <= rank[elem[x].next]
    BY <2>2, <2>4 DEF Top
  <2> QED
    BY <2>3, <2>5
<1> HIDE DEF P
<1>4. \A n \in Nat : n \in P
  BY <1>2, <1>3, NatInSet
<1>5. Cardinality(Elems) \in Nat
  BY FS_CardinalityType
<1>6. Nth(h, Cardinality(Elems)) # Null
  BY <1>1, <1>4, <1>5 DEF P
<1> QED
  BY <1>5, <1>6, WalkEnds

\* A list in the order of the ranks ends, and find2() sees all of its elements and no other.
LEMMA ChainIs ==
    ASSUME ShmTypes, NEW S, NEW rank, NEW h \in Offsets, ChainOf(elem, S, rank, h)
    PROVE  /\ Nth(h, Cardinality(Elems)) = Null
           /\ \A n \in Nat : Nth(h, n) = Null \/ Nth(h, n) \in S
           /\ \A e \in S : \E n \in 0 .. Cardinality(Elems) : Nth(h, n) = e
           /\ Chain(h) = S
<1>1. Cardinality(Elems) \in Nat
  BY FS_CardinalityType
<1>2. Nth(h, Cardinality(Elems)) = Null
  BY <1>1, WalkEnds
<1>3. \A n \in Nat : Nth(h, n) = Null \/ Nth(h, n) \in S
  BY WalkDown
<1>4. ASSUME NEW e \in S PROVE \E n \in 0 .. Cardinality(Elems) : Nth(h, n) = e
  <2>1. PICK n \in Nat : Nth(h, n) = e
    BY WalkAll
  <2>2. e # Null
    BY DEF ChainOf, Null
  <2>3. n < Cardinality(Elems)
    BY <2>1, <2>2, WalkEnds
  <2> QED
    BY <1>1, <2>1, <2>3
<1>5. \A e \in S : e # Null
  BY DEF ChainOf, Null
<1>6. \A n \in 0 .. Cardinality(Elems) : n \in Nat
  BY <1>1
<1>7. Chain(h) = S
  BY <1>3, <1>4, <1>5, <1>6 DEF Chain
<1> QED
  BY <1>2, <1>3, <1>4, <1>7

-----------------------------------------------------------------------------
(***************************************************************************)
(* What the stores do to a list.                                           *)
(***************************************************************************)

\* Stores to elements outside of the list.
LEMMA ChainKept ==
    ASSUME NEW el, NEW el2, NEW S, NEW rank, NEW rank2 \in [Elems -> Nat], NEW h,
           ChainOf(el, S, rank, h),
           \A e \in S : el2[e].next = el[e].next /\ rank2[e] = rank[e]
    PROVE  ChainOf(el2, S, rank2, h)
<1>1. Top(rank2, S, h)
  BY DEF ChainOf, Top
<1>2. ASSUME NEW e \in S PROVE Top(rank2, {f \in S : rank2[f] < rank2[e]}, el2[e].next)
  <2>1. Top(rank, {f \in S : rank[f] < rank[e]}, el[e].next)
    BY DEF ChainOf
  <2>2. {f \in S : rank2[f] < rank2[e]} = {f \in S : rank[f] < rank[e]}
    OBVIOUS
  <2> DEFINE B == {f \in S : rank[f] < rank[e]}
  <2>3. B \subseteq S /\ Top(rank, B, el2[e].next)
    BY <2>1
  <2> HIDE DEF B
  <2>4. Top(rank2, B, el2[e].next)
    BY <2>3 DEF Top
  <2> QED
    BY <2>2, <2>4 DEF B
<1>3. /\ S \subseteq Elems
      /\ \A e, f \in S : e # f => rank2[e] # rank2[f]
  BY DEF ChainOf
<1> QED
  BY <1>1, <1>2, <1>3 DEF ChainOf

\* The head leaves the list.
LEMMA ChainPop ==
    ASSUME NEW el, NEW S, NEW rank, NEW h \in S, ChainOf(el, S, rank, h)
    PROVE  ChainOf(el, S \ {h}, rank, el[h].next)
<1>1. /\ S \subseteq Elems /\ \A e \in S : rank[e] \in Nat
      /\ \A e, f \in S : e # f => rank[e] # rank[f]
      /\ \A f \in S : rank[f] <= rank[h]
  BY DEF ChainOf, Top
<1>2. {f \in S : rank[f] < rank[h]} = S \ {h}
  <2>1. \A f \in S : f # h => rank[f] < rank[h]
    BY <1>1
  <2>2. ~(rank[h] < rank[h])
    BY <1>1
  <2> QED
    BY <2>1, <2>2
<1>3. Top(rank, S \ {h}, el[h].next)
  BY <1>2 DEF ChainOf
<1>4. ASSUME NEW e \in S \ {h}
      PROVE  Top(rank, {f \in S \ {h} : rank[f] < rank[e]}, el[e].next)
  <2>1. {f \in S \ {h} : rank[f] < rank[e]} = {f \in S : rank[f] < rank[e]}
    <3>1. ~(rank[h] < rank[e])
      BY <1>1
    <3> QED
      BY <3>1
  <2> QED
    BY <2>1 DEF ChainOf
<1> QED
  BY <1>1, <1>3, <1>4 DEF ChainOf

\* An element that links to the head becomes the head.
LEMMA ChainPush ==
    ASSUME NEW el, NEW S, NEW rank, NEW h, NEW e \in Elems \ S, ChainOf(el, S, rank, h),
           el[e].next = h, NEW r \in Nat, h \in S => rank[h] < r
    PROVE  ChainOf(el, S \cup {e}, [rank EXCEPT ![e] = r], e)
<1> DEFINE rank2 == [rank EXCEPT ![e] = r]
<1>1. /\ S \subseteq Elems /\ rank \in [Elems -> Nat]
      /\ \A x, y \in S : x # y => rank[x] # rank[y]
      /\ S # {} => h \in S /\ \A f \in S : rank[f] <= rank[h]
      /\ S = {} => h = Null
  BY DEF ChainOf, Top
<1>2. rank2 \in [Elems -> Nat] /\ rank2[e] = r /\ \A x \in S : rank2[x] = rank[x]
  BY <1>1
<1>3. \A x \in S : rank[x] \in Nat /\ rank[x] < r
  <2> TAKE x \in S
  <2>1. rank[x] \in Nat /\ rank[h] \in Nat /\ rank[x] <= rank[h] /\ rank[h] < r
    BY <1>1
  <2> QED
    BY <2>1
<1> HIDE DEF rank2
<1>4. \A x, y \in S \cup {e} : x # y => rank2[x] # rank2[y]
  <2> TAKE x, y \in S \cup {e}
  <2>1. CASE x \in S /\ y \in S
    BY <1>1, <1>2, <2>1
  <2>2. CASE x = e /\ y \in S
    BY <1>2, <1>3, <2>2
  <2>3. CASE x \in S /\ y = e
    BY <1>2, <1>3, <2>3
  <2> QED
    BY <2>1, <2>2, <2>3
<1>5. Top(rank2, S \cup {e}, e)
  BY <1>2, <1>3 DEF Top
<1>6. ASSUME NEW x \in S \cup {e}
      PROVE  Top(rank2, {f \in S \cup {e} : rank2[f] < rank2[x]}, el[x].next)
  <2>1. CASE x = e
    <3>1. {f \in S \cup {e} : rank2[f] < rank2[x]} = S
      <4>1. \A f \in S : rank2[f] < rank2[x]
        BY <1>2, <1>3, <2>1
      <4>2. ~(rank2[e] < rank2[x])
        BY <1>2, <2>1
      <4> QED
        BY <4>1, <4>2
    <3>2. Top(rank2, S, h)
      BY <1>1, <1>2 DEF Top
    <3> QED
      BY <2>1, <3>1, <3>2
  <2>2. CASE x \in S
    <3> DEFINE B == {f \in S : rank[f] < rank[x]}
    <3>1. {f \in S \cup {e} : rank2[f] < rank2[x]} = B
      BY <1>2, <1>3, <2>2
    <3>2. Top(rank, B, el[x].next) /\ B \subseteq S
      BY <2>2 DEF ChainOf
    <3> HIDE DEF B
    <3>3. Top(rank2, B, el[x].next)
      BY <1>2, <3>2 DEF Top
    <3> QED
      BY <3>1, <3>3
  <2> QED
    BY <2>1, <2>2
<1>7. S \cup {e} \subseteq Elems
  BY <1>1
<1>8. ChainOf(el, S \cup {e}, rank2, e)
  BY <1>2, <1>4, <1>5, <1>6, <1>7 DEF ChainOf
<1> QED
  BY <1>8 DEF rank2

\* The predecessor of an element skips it.
LEMMA ChainRemove ==
    ASSUME NEW el, NEW el2, NEW S, NEW rank, NEW h, ChainOf(el, S, rank, h),
           NEW e \in S, e # h,
           \A d \in S : el2[d].next = IF el[d].next = e THEN el[e].next ELSE el[d].next
    PROVE  ChainOf(el2, S \ {e}, rank, h)
<1>1. /\ S \subseteq Elems /\ rank \in [Elems -> Nat] /\ \A x \in S : rank[x] \in Nat /\ x # Null
      /\ \A x, y \in S : x # y => rank[x] # rank[y]
      /\ h \in S /\ \A f \in S : rank[f] <= rank[h]
  BY DEF ChainOf, Top, Null
<1>2. Top(rank, S \ {e}, h)
  BY <1>1 DEF Top
<1>3. ASSUME NEW x \in S \ {e}
      PROVE  Top(rank, {f \in S \ {e} : rank[f] < rank[x]}, el2[x].next)
  <2> DEFINE B(y) == {f \in S : rank[f] < rank[y]}
             C == {f \in S \ {e} : rank[f] < rank[x]}
  <2>1. Top(rank, B(x), el[x].next) /\ Top(rank, B(e), el[e].next)
    BY DEF ChainOf
  <2>2. CASE el[x].next = e
    <3>1. e \in B(x) /\ \A f \in B(x) : rank[f] <= rank[e]
      BY <1>1, <2>1, <2>2 DEF Top
    <3>2. C = B(e)
      <4>1. ASSUME NEW f \in C PROVE f \in B(e)
        <5>1. f \in S /\ f # e /\ f \in B(x)
          OBVIOUS
        <5>2. rank[f] <= rank[e] /\ rank[f] # rank[e] /\ rank[f] \in Nat /\ rank[e] \in Nat
          BY <1>1, <3>1, <5>1
        <5>3. rank[f] < rank[e]
          BY <5>2
        <5> QED
          BY <5>1, <5>3
      <4>2. ASSUME NEW f \in B(e) PROVE f \in C
        <5>1. f \in S /\ rank[f] < rank[e] /\ rank[e] < rank[x]
          BY <3>1
        <5>2. rank[f] \in Nat /\ rank[e] \in Nat /\ rank[x] \in Nat
          BY <1>1, <5>1
        <5>3. rank[f] < rank[x] /\ f # e
          BY <5>1, <5>2
        <5> QED
          BY <5>1, <5>3
      <4> QED
        BY <4>1, <4>2
    <3> QED
      BY <2>1, <2>2, <3>2
  <2>3. CASE el[x].next # e
    <3>1. el2[x].next = el[x].next
      BY <2>3
    <3>2. CASE B(x) = {}
      <4>1. C = {}
        BY <3>2
      <4> QED
        BY <2>1, <3>1, <3>2, <4>1 DEF Top
    <3>3. CASE B(x) # {}
      <4>1. el[x].next \in B(x) /\ \A f \in B(x) : rank[f] <= rank[el[x].next]
        BY <2>1, <3>3 DEF Top
      <4>2. el[x].next \in C
        BY <2>3, <4>1
      <4>3. \A f \in C : f \in B(x)
        OBVIOUS
      <4> HIDE DEF B, C
      <4>4. Top(rank, C, el[x].next)
        BY <4>1, <4>2, <4>3 DEF Top
      <4> QED
        BY <3>1, <4>4 DEF C
    <3> QED
      BY <3>2, <3>3
  <2> QED
    BY <2>2, <2>3
<1> QED
  BY <1>1, <1>2, <1>3 DEF ChainOf

LEMMA LiveFacts ==
    ASSUME ShmTypes
    PROVE  /\ Live \subseteq Tables /\ 0 \notin Tables
           /\ \A t \in Tables : Capacities[t] \in Nat \ {0} /\ 0 .. Capacities[t] - 1 \subseteq Buckets
           /\ \A e \in Elems, t \in Tables : Slot(e, t) \in 0 .. Capacities[t] - 1
<1>1. Live \subseteq Tables /\ 0 \notin Tables
  BY DEF ShmTypes, TableType, Live, Tables
<1>2. \A t \in Tables : Capacities[t] \in Nat \ {0} /\ Capacities[t] <= MaxCap /\ MaxCap \in Nat
  BY CapFacts
<1>3. \A t \in Tables : 0 .. Capacities[t] - 1 \subseteq Buckets
  BY <1>2 DEF Buckets
<1>4. \A e \in Elems, t \in Tables : Slot(e, t) \in 0 .. Capacities[t] - 1
  BY KeyType, CapFacts DEF Slot
<1> QED
  BY <1>1, <1>2, <1>3, <1>4

LEMMA HeadFacts ==
    ASSUME ShmTypes, NEW tab, NEW rank, Linked(tab, rank),
           NEW t \in Live, NEW b \in 0 .. Capacities[t] - 1
    PROVE  /\ idx[t][b] \in Offsets
           /\ idx[t][b] # Null => idx[t][b] \in On(tab, t, b)
           /\ idx[t][b] = Null => On(tab, t, b) = {}
<1>1. Top(rank, On(tab, t, b), idx[t][b]) /\ On(tab, t, b) \subseteq Elems
  BY DEF Linked, ChainOf
<1>2. \A x \in Elems : x # Null
  BY DEF Null
<1> QED
  BY <1>1, <1>2 DEF Top, Offsets

\* Stores that reach no element of a list.
LEMMA LinkedKept ==
    ASSUME ShmTypes, NEW tab, NEW rank, Linked(tab, rank),
           table'.hidx = table.hidx, table'.hidxNew = table.hidxNew,
           \A t \in Live : idx'[t] = idx[t],
           \A e \in Elems : tab[e] # 0 => elem'[e] = elem[e]
    PROVE  Linked(tab, rank)'
<1>1. Live' = Live
  BY DEF Live
<1>2. ASSUME NEW t \in Live, NEW b \in 0 .. Capacities[t] - 1
      PROVE  ChainOf(elem', On(tab, t, b)', rank, idx'[t][b])
  <2>1. t # 0
    BY LiveFacts
  <2>2. On(tab, t, b)' = On(tab, t, b)
    BY <2>1 DEF On, Slot
  <2>3. ChainOf(elem, On(tab, t, b), rank, idx[t][b]) /\ rank \in [Elems -> Nat]
    BY DEF Linked
  <2>4. \A e \in On(tab, t, b) : elem'[e].next = elem[e].next
    BY <2>1 DEF On
  <2>5. ChainOf(elem', On(tab, t, b), rank, idx[t][b])
    BY <2>3, <2>4, ChainKept
  <2> QED
    BY <2>2, <2>5
<1> QED
  BY <1>1, <1>2 DEF Linked

\* The head of a chain is taken off.
LEMMA LinkedPop ==
    ASSUME ShmTypes, NEW tab, NEW rank, Linked(tab, rank),
           NEW e \in Elems, NEW t \in Live, tab[e] = t, NEW b, b = Slot(e, t),
           idx[t][b] = e, table' = table, elem' = elem,
           idx' = [idx EXCEPT ![t][b] = elem[e].next]
    PROVE  Linked([tab EXCEPT ![e] = 0], rank)'
<1> DEFINE tab2 == [tab EXCEPT ![e] = 0]
<1>1. Live' = Live /\ \A c \in Live : c # 0
  BY LiveFacts DEF Live
<1>2. tab \in [Elems -> Live \cup {0}] /\ rank \in [Elems -> Nat]
  BY DEF Linked
<1>3. idx \in [Tables -> [Buckets -> Offsets]] /\ t \in Tables /\ b \in Buckets
  BY LiveFacts DEF ShmTypes
<1>4. tab2 \in [Elems -> Live \cup {0}] /\ tab2[e] = 0 /\ \A x \in Elems : x # e => tab2[x] = tab[x]
  BY <1>2
<1> HIDE DEF tab2
<1>5. ASSUME NEW c \in Live, NEW d \in 0 .. Capacities[c] - 1
      PROVE  ChainOf(elem', On(tab2, c, d)', rank, idx'[c][d])
  <2>1. ChainOf(elem, On(tab, c, d), rank, idx[c][d])
    BY DEF Linked
  <2>2. On(tab2, c, d)' = On(tab, c, d) \ {e}
    BY <1>1, <1>4 DEF On, Slot
  <2>3. CASE c = t /\ d = b
    <3>1. e \in On(tab, c, d) /\ idx[c][d] = e
      BY <2>3 DEF On
    <3>2. idx'[c][d] = elem[e].next
      BY <1>3, <2>3
    <3>3. ChainOf(elem, On(tab, c, d) \ {e}, rank, elem[e].next)
      BY <2>1, <3>1, ChainPop
    <3> QED
      BY <2>2, <3>2, <3>3
  <2>4. CASE ~(c = t /\ d = b)
    <3>1. e \notin On(tab, c, d)
      BY <2>4 DEF On
    <3>2. idx'[c][d] = idx[c][d]
      <4>1. c \in Tables /\ d \in Buckets
        BY LiveFacts
      <4> QED
        BY <1>3, <2>4, <4>1
    <3>3. On(tab2, c, d)' = On(tab, c, d)
      BY <2>2, <3>1
    <3> QED
      BY <2>1, <3>2, <3>3
  <2> QED
    BY <2>3, <2>4
<1>6. Linked(tab2, rank)'
  BY <1>1, <1>2, <1>4, <1>5 DEF Linked
<1> QED
  BY <1>6 DEF tab2

\* An element is put in front of a chain.
LEMMA LinkedPush ==
    ASSUME ShmTypes, NEW tab, NEW rank, Linked(tab, rank),
           NEW e \in Elems, tab[e] = 0, NEW t \in Live, NEW b, b = Slot(e, t),
           elem[e].next = idx[t][b], table' = table, elem' = elem,
           idx' = [idx EXCEPT ![t][b] = e]
    PROVE  \E rank2 : Linked([tab EXCEPT ![e] = t], rank2)'
<1>1. Live' = Live /\ \A c \in Live : c # 0
  BY LiveFacts DEF Live
<1>2. tab \in [Elems -> Live \cup {0}] /\ rank \in [Elems -> Nat]
  BY DEF Linked
<1>3. /\ idx \in [Tables -> [Buckets -> Offsets]] /\ t \in Tables
      /\ b \in Buckets /\ b \in 0 .. Capacities[t] - 1
  BY LiveFacts DEF ShmTypes
<1>4. PICK r \in Nat : idx[t][b] \in Elems => rank[idx[t][b]] < r
  <2>1. CASE idx[t][b] \in Elems
    <3>1. rank[idx[t][b]] \in Nat
      BY <1>2, <2>1
    <3>2. rank[idx[t][b]] + 1 \in Nat /\ rank[idx[t][b]] < rank[idx[t][b]] + 1
      BY <3>1, SMTT(30)
    <3> QED
      BY <3>2
  <2>2. CASE idx[t][b] \notin Elems
    <3>1. 0 \in Nat
      OBVIOUS
    <3> QED
      BY <2>2, <3>1
  <2> QED
    BY <2>1, <2>2
<1> DEFINE tab2 == [tab EXCEPT ![e] = t]
           rank2 == [rank EXCEPT ![e] = r]
<1>5. tab2 \in [Elems -> Live \cup {0}] /\ tab2[e] = t /\ \A x \in Elems : x # e => tab2[x] = tab[x]
  BY <1>2
<1>6. rank2 \in [Elems -> Nat] /\ \A x \in Elems : x # e => rank2[x] = rank[x]
  BY <1>2
<1>7. ASSUME NEW c \in Live, NEW d \in 0 .. Capacities[c] - 1
      PROVE  ChainOf(elem', On(tab2, c, d)', rank2, idx'[c][d])
  <2>1. ChainOf(elem, On(tab, c, d), rank, idx[c][d])
    BY DEF Linked
  <2>2. e \notin On(tab, c, d) /\ On(tab, c, d) \subseteq Elems
    BY <1>1 DEF On
  <2>3. CASE c = t /\ d = b
    <3>1. On(tab2, c, d)' = On(tab, c, d) \cup {e}
      <4> HIDE DEF tab2
      <4> QED
        BY <1>5, <2>3 DEF On, Slot
    <3>2. idx'[c][d] = e
      BY <1>3, <2>3
    <3>3. idx[c][d] \in On(tab, c, d) => rank[idx[c][d]] < r
      BY <1>4, <2>2, <2>3
    <3>4. e \in Elems \ On(tab, c, d) /\ elem[e].next = idx[c][d]
      BY <2>2, <2>3
    <3>5. ChainOf(elem, On(tab, c, d) \cup {e}, rank2, e)
      BY <2>1, <3>3, <3>4, ChainPush
    <3> QED
      BY <3>1, <3>2, <3>5
  <2>4. CASE ~(c = t /\ d = b)
    <3>1. On(tab2, c, d)' = On(tab, c, d)
      <4> HIDE DEF tab2
      <4> QED
        BY <1>1, <1>5, <2>4 DEF On, Slot
    <3>2. idx'[c][d] = idx[c][d]
      <4>1. c \in Tables /\ d \in Buckets
        BY LiveFacts
      <4> QED
        BY <1>3, <2>4, <4>1
    <3> HIDE DEF rank2, tab2
    <3>3. \A x \in On(tab, c, d) : elem[x].next = elem[x].next /\ rank2[x] = rank[x]
      BY <1>6, <2>2
    <3>4. ChainOf(elem, On(tab, c, d), rank2, idx[c][d])
      BY <1>6, <2>1, <3>3, ChainKept
    <3> QED
      BY <3>1, <3>2, <3>4
  <2> QED
    BY <2>3, <2>4
<1> HIDE DEF rank2, tab2
<1>8. Linked(tab2, rank2)'
  BY <1>1, <1>5, <1>6, <1>7 DEF Linked
<1> QED
  BY <1>8 DEF tab2

\* An element in the middle of a chain is skipped.
LEMMA LinkedRemove ==
    ASSUME ShmTypes, NEW tab, NEW rank, Linked(tab, rank),
           NEW e \in Elems, NEW t \in Live, tab[e] = t, NEW b, b = Slot(e, t),
           idx[t][b] # e, table' = table, idx' = idx,
           elem' = [d \in Elems |-> IF d \in On(tab, t, b) /\ elem[d].next = e
                                    THEN [elem[d] EXCEPT !.next = elem[e].next] ELSE elem[d]]
    PROVE  Linked([tab EXCEPT ![e] = 0], rank)'
<1> DEFINE tab2 == [tab EXCEPT ![e] = 0]
<1>1. Live' = Live /\ \A c \in Live : c # 0
  BY LiveFacts DEF Live
<1>2. tab \in [Elems -> Live \cup {0}] /\ rank \in [Elems -> Nat]
  BY DEF Linked
<1>4. tab2 \in [Elems -> Live \cup {0}] /\ tab2[e] = 0 /\ \A x \in Elems : x # e => tab2[x] = tab[x]
  BY <1>2
<1>3. /\ \A d \in Elems : elem'[d].key = elem[d].key
      /\ \A d \in On(tab, t, b) : elem'[d].next = IF elem[d].next = e THEN elem[e].next ELSE elem[d].next
      /\ \A d \in Elems : d \notin On(tab, t, b) => elem'[d].next = elem[d].next
  <2>1. \A d \in Elems : /\ [elem[d] EXCEPT !.next = elem[e].next].key = elem[d].key
                         /\ [elem[d] EXCEPT !.next = elem[e].next].next = elem[e].next
    BY DEF ShmTypes, ElemType
  <2>2. On(tab, t, b) \subseteq Elems
    BY DEF On
  <2> QED
    BY <2>1, <2>2
<1> HIDE DEF tab2
<1>5. ASSUME NEW c \in Live, NEW d \in 0 .. Capacities[c] - 1
      PROVE  ChainOf(elem', On(tab2, c, d)', rank, idx'[c][d])
  <2>1. ChainOf(elem, On(tab, c, d), rank, idx[c][d])
    BY DEF Linked
  <2>2. On(tab2, c, d)' = On(tab, c, d) \ {e}
    BY <1>1, <1>3, <1>4 DEF On, Slot
  <2>3. CASE c = t /\ d = b
    <3>1. e \in On(tab, c, d) /\ e # idx[c][d]
      BY <2>3 DEF On
    <3>2. \A x \in On(tab, c, d) :
            elem'[x].next = IF elem[x].next = e THEN elem[e].next ELSE elem[x].next
      BY <1>3, <2>3
    <3>3. ChainOf(elem', On(tab, c, d) \ {e}, rank, idx[c][d])
      BY <2>1, <3>1, <3>2, ChainRemove
    <3> QED
      BY <2>2, <3>3
  <2>4. CASE ~(c = t /\ d = b)
    <3>1. On(tab, c, d) \cap On(tab, t, b) = {}
      BY <2>4 DEF On
    <3>2. e \notin On(tab, c, d)
      BY <2>4 DEF On
    <3>3. On(tab2, c, d)' = On(tab, c, d)
      BY <2>2, <3>2
    <3>4. \A x \in On(tab, c, d) : elem'[x].next = elem[x].next
      BY <1>3, <3>1 DEF On
    <3>5. ChainOf(elem', On(tab, c, d), rank, idx[c][d])
      BY <1>2, <2>1, <3>4, ChainKept
    <3> QED
      BY <3>3, <3>5
  <2> QED
    BY <2>3, <2>4
<1>6. Linked(tab2, rank)'
  BY <1>1, <1>2, <1>4, <1>5 DEF Linked
<1> QED
  BY <1>6 DEF tab2

-----------------------------------------------------------------------------
(***************************************************************************)
(* begin() and next(): the first element of a row of chains.               *)
(***************************************************************************)

FirstOf(row, cap, b) ==
    LET full == {i \in b .. cap - 1 : row[i] # Null}
    IN  IF full = {} THEN Null ELSE row[CHOOSE i \in full : \A j \in full : i <= j]

LEMMA FirstOfCases ==
    ASSUME NEW row, NEW cap \in Nat, NEW b \in Nat
    PROVE  \/ FirstOf(row, cap, b) = Null /\ \A i \in b .. cap - 1 : row[i] = Null
           \/ \E i \in b .. cap - 1 : /\ FirstOf(row, cap, b) = row[i] /\ row[i] # Null
                                      /\ \A j \in b .. i - 1 : row[j] = Null
<1> DEFINE full == {i \in b .. cap - 1 : row[i] # Null}
<1>1. full \subseteq Nat /\ full \subseteq b .. cap - 1
  OBVIOUS
<1>2. CASE full = {}
  BY <1>2 DEF FirstOf
<1>3. CASE full # {}
  <2> DEFINE i == CHOOSE i \in full : \A j \in full : i <= j
  <2>1. i \in full /\ \A j \in full : i <= j
    <3> HIDE DEF full
    <3>1. \E m \in full : \A j \in full : m <= j
      BY <1>1, <1>3, NatLeast
    <3> QED
      BY <3>1
  <2>2. FirstOf(row, cap, b) = row[i]
    BY <1>3 DEF FirstOf
  <2> HIDE DEF i
  <2>3. i \in b .. cap - 1 /\ row[i] # Null /\ i \in Nat
    BY <2>1
  <2>4. ASSUME NEW j \in b .. i - 1 PROVE row[j] = Null
    <3>1. j \in Nat /\ j < i /\ j \in b .. cap - 1
      BY <2>3
    <3>2. row[j] # Null => j \in full
      BY <3>1
    <3>3. row[j] # Null => i <= j
      BY <2>1, <3>2
    <3> QED
      BY <2>3, <3>1, <3>3
  <2> QED
    BY <2>2, <2>3, <2>4
<1> QED
  BY <1>2, <1>3

\* The same, for every row.
Firsts(row, cap, b) ==
    \/ FirstOf(row, cap, b) = Null /\ \A i \in b .. cap - 1 : row[i] = Null
    \/ \E i \in b .. cap - 1 : /\ FirstOf(row, cap, b) = row[i] /\ row[i] # Null
                               /\ \A j \in b .. i - 1 : row[j] = Null

LEMMA FirstOfEach == \A row : \A cap, b \in Nat : Firsts(row, cap, b)
<1> SUFFICES ASSUME NEW row, NEW cap \in Nat, NEW b \in Nat PROVE Firsts(row, cap, b)
  OBVIOUS
<1> QED
  BY FirstOfCases DEF Firsts

LEMMA FirstOfNull ==
    ASSUME NEW row, NEW cap \in Nat, NEW b \in Nat, \A i \in b .. cap - 1 : row[i] = Null
    PROVE  FirstOf(row, cap, b) = Null
  BY DEF FirstOf

LEMMA FirstOfIs ==
    ASSUME NEW row, NEW cap \in Nat, NEW b \in Nat, NEW i \in b .. cap - 1, row[i] # Null,
           \A j \in b .. i - 1 : row[j] = Null
    PROVE  FirstOf(row, cap, b) = row[i]
<1>0. Firsts(row, cap, b)
  BY FirstOfEach, Zenon
<1>1. PICK k \in b .. cap - 1 : /\ FirstOf(row, cap, b) = row[k] /\ row[k] # Null
                                /\ \A j \in b .. k - 1 : row[j] = Null
  BY <1>0, Zenon DEF Firsts
<1>2. ~(k < i) /\ ~(i < k)
  <2>1. k < i => k \in b .. i - 1
    OBVIOUS
  <2>2. i < k => i \in b .. k - 1
    OBVIOUS
  <2> QED
    BY <1>1, <2>1, <2>2
<1>3. k = i
  BY <1>2
<1> QED
  BY <1>1, <1>3

\* When the first element is taken off, the next one is the first.
LEMMA FirstOfPop ==
    ASSUME NEW cap \in Nat, NEW i \in 0 .. cap - 1, NEW row, NEW row2,
           row[i] # Null, \A j \in 0 .. i - 1 : row[j] = Null,
           \A j \in 0 .. cap - 1 : j # i => row2[j] = row[j]
    PROVE  /\ row2[i] # Null => FirstOf(row2, cap, 0) = row2[i]
           /\ row2[i] = Null => FirstOf(row2, cap, 0) = FirstOf(row, cap, i + 1)
<1> \A j \in 0 .. i - 1 : j \in 0 .. cap - 1 /\ j # i
  OBVIOUS
<1>1. CASE row2[i] # Null
  <2>1. \A j \in 0 .. i - 1 : row2[j] = Null
    OBVIOUS
  <2> QED
    BY <1>1, <2>1, FirstOfIs
<1>2. CASE row2[i] = Null
  <2>0. i + 1 \in Nat
    OBVIOUS
  <2>1. CASE \A j \in i + 1 .. cap - 1 : row[j] = Null
    <3>1. ASSUME NEW j \in 0 .. cap - 1 PROVE row2[j] = Null
      <4>1. j = i \/ j \in 0 .. i - 1 \/ (j \in i + 1 .. cap - 1 /\ j # i)
        OBVIOUS
      <4> QED
        BY <1>2, <2>1, <4>1
    <3>2. FirstOf(row2, cap, 0) = Null
      BY <3>1, FirstOfNull
    <3>3. FirstOf(row, cap, i + 1) = Null
      BY <2>0, <2>1, FirstOfNull
    <3> QED
      BY <1>2, <3>2, <3>3
  <2>2. CASE \E j \in i + 1 .. cap - 1 : row[j] # Null
    <3>1. PICK k \in i + 1 .. cap - 1 :
            /\ FirstOf(row, cap, i + 1) = row[k] /\ row[k] # Null
            /\ \A j \in i + 1 .. k - 1 : row[j] = Null
      <4>1. PICK c \in Nat : c = i + 1
        BY <2>0
      <4>2. \E j \in c .. cap - 1 : row[j] # Null
        BY <2>2, <4>1
      <4>3. \E k \in c .. cap - 1 : /\ FirstOf(row, cap, c) = row[k] /\ row[k] # Null
                                     /\ \A j \in c .. k - 1 : row[j] = Null
        <5>1. Firsts(row, cap, c)
          BY FirstOfEach, Zenon
        <5> QED
          BY <4>2, <5>1, Zenon DEF Firsts
      <4> QED
        BY <4>1, <4>3
    <3>2. k \in 0 .. cap - 1 /\ k # i /\ row2[k] = row[k]
      OBVIOUS
    <3>3. ASSUME NEW j \in 0 .. k - 1 PROVE row2[j] = Null
      <4>1. j = i \/ j \in 0 .. i - 1 \/ (j \in i + 1 .. k - 1 /\ j # i /\ j \in 0 .. cap - 1)
        OBVIOUS
      <4> QED
        BY <1>2, <3>1, <4>1
    <3>4. FirstOf(row2, cap, 0) = row2[k]
      BY <3>1, <3>2, <3>3, FirstOfIs
    <3> QED
      BY <1>2, <3>1, <3>2, <3>4
  <2> QED
    BY <2>1, <2>2
<1> QED
  BY <1>1, <1>2

Popped(cap, i, row, row2) ==
    /\ row[i] # Null /\ \A j \in 0 .. i - 1 : row[j] = Null
    /\ \A j \in 0 .. cap - 1 : j # i => row2[j] = row[j]

LEMMA FirstOfPops ==
    \A cap \in Nat : \A i \in 0 .. cap - 1 : \A row, row2 :
        Popped(cap, i, row, row2)
        => FirstOf(row2, cap, 0) = IF row2[i] # Null THEN row2[i] ELSE FirstOf(row, cap, i + 1)
<1> SUFFICES ASSUME NEW cap \in Nat, NEW i \in 0 .. cap - 1, NEW row, NEW row2,
                    Popped(cap, i, row, row2)
             PROVE  FirstOf(row2, cap, 0) = IF row2[i] # Null THEN row2[i] ELSE FirstOf(row, cap, i + 1)
  OBVIOUS
<1>1. /\ row[i] # Null /\ \A j \in 0 .. i - 1 : row[j] = Null
      /\ \A j \in 0 .. cap - 1 : j # i => row2[j] = row[j]
  BY DEF Popped
<1> QED
  BY <1>1, FirstOfPop

-----------------------------------------------------------------------------
(***************************************************************************)
(* Every step keeps the lists, and what its process knows of them.         *)
(***************************************************************************)

\* Nobody but the owner of the lock has anything to know.
LEMMA HoldsOfOne ==
    ASSUME ShmInv, NEW p \in Procs, RehashSteps(p) \/ (OpSteps(p) /\ ~Unlock(p)),
           NEW tab, NEW rank, Linked(tab, rank)', Resumable(tab)', Knows(p, tab)'
    PROVE  ChainInv'
<1>1. pc \in [Procs -> Labels] /\ LockInv
  BY DEF ShmInv, ShmTypes
<1>2. InSection(p) /\ \E l \in SectionLabels : pc' = [pc EXCEPT ![p] = l]
  BY SectionShape
<1>3. \A q \in Procs : InSection(q)' => q = p
  BY <1>1, <1>2, Alone DEF InSection
<1>4. Holds(tab, rank)'
  BY <1>3 DEF Holds
<1> QED
  BY <1>4 DEF ChainInv

LEMMA ResumableKept ==
    ASSUME NEW tab, Resumable(tab), UNCHANGED <<table, idx, elem, used, stored>>
    PROVE  Resumable(tab)'
  BY DEF Resumable, InRehash, Slot

LEMMA HoldsOutside ==
    ASSUME ShmInv, NEW tab, NEW rank, Holds(tab, rank), NEW p \in Procs, OutSteps(p)
    PROVE  ChainInv'
<1>1. /\ UNCHANGED <<table, idx, elem, used, stored>>
      /\ \A q \in Procs : q # p => loc'[q] = loc[q] /\ pc'[q] = pc[q]
      /\ ~InSection(p)' \/ pc'[p] = "locked"
  BY OutShape
<1>2. Linked(tab, rank)'
  BY <1>1, LinkedKept DEF Holds, ShmInv
<1>3. Resumable(tab)'
  BY <1>1, ResumableKept DEF Holds
<1>4. ASSUME NEW q \in Procs, InSection(q)' PROVE Knows(q, tab)'
  <2>1. CASE q = p
    BY <1>1, <1>4, <2>1 DEF Knows, NewLabels, MoveLabels, EndLabels
  <2>2. CASE q # p
    <3>1. InSection(q) /\ pc'[q] = pc[q] /\ loc'[q] = loc[q]
      BY <1>1, <1>4, <2>2 DEF InSection
    <3>2. Knows(q, tab)
      BY <3>1 DEF Holds
    <3>3. /\ NewTable' = NewTable /\ FirstFrom(0)' = FirstFrom(0)
          /\ Next_(loc[q].it)' = Next_(loc'[q].it)
          /\ InRehash' = InRehash
      BY <1>1, <3>1 DEF NewTable, NextCap, FirstFrom, Next_, InRehash
    <3>4. /\ NewHead(elem[table.work].key)' = NewHead(elem[table.work].key)
          /\ Head_(loc[q].key)' = Head_(loc[q].key)
      BY <1>1, <3>1 DEF NewHead, Head_
    <3> QED
      BY <1>1, <3>1, <3>2, <3>3, <3>4 DEF Knows
  <2> QED
    BY <2>1, <2>2
<1>5. Holds(tab, rank)'
  BY <1>2, <1>3, <1>4 DEF Holds
<1> QED
  BY <1>5 DEF ChainInv

\* What the proofs of the steps start from.
LEMMA Inside ==
    ASSUME ShmInv, NEW tab, NEW rank, Holds(tab, rank), NEW p \in Procs,
           RehashSteps(p) \/ (OpSteps(p) /\ ~Unlock(p))
    PROVE  /\ ShmTypes /\ HeaderInv /\ Typed(p)
           /\ pc \in [Procs -> Labels] /\ loc \in [Procs -> LocType] /\ table \in TableType
           /\ idx \in [Tables -> [Buckets -> Offsets]] /\ elem \in [Elems -> ElemType]
           /\ used \in [elems : SUBSET Elems, tables : SUBSET Tables]
           /\ Linked(tab, rank) /\ Resumable(tab) /\ Knows(p, tab)
           /\ table.hidx \in Tables /\ table.hidxNew \in Tables /\ table.work \in Offsets
           /\ table.cap \in Nat /\ table.hidx \in Live /\ table.hidxNew \in Live
           /\ tab \in [Elems -> Live \cup {0}]
<1>1. InSection(p)
  BY SectionShape
<1>2. ShmTypes /\ TypedInv
  BY DEF ShmInv
<1>3. table \in TableType
  BY <1>2 DEF ShmTypes
<1>4. table.hidx \in Tables /\ table.hidxNew \in Tables /\ table.work \in Offsets /\ table.cap \in Nat
  BY <1>3, CapFacts DEF TableType
<1> QED
  BY <1>1, <1>2, <1>3, <1>4 DEF Holds, TypedInv, ShmTypes, Live, Linked

\* rehash() finds out where a dead process left off: x_iWorkIterOff heads its new chain
\* or has to be moved again.
LEMMA RehashStep ==
    ASSUME ShmInv, NEW tab, NEW rank, Holds(tab, rank), NEW p \in Procs, Rehash(p)
    PROVE  ChainInv'
<1> RehashSteps(p)
  BY DEF RehashSteps
<1>1. /\ ShmTypes /\ HeaderInv /\ Typed(p) /\ pc \in [Procs -> Labels]
      /\ idx \in [Tables -> [Buckets -> Offsets]]
      /\ used \in [elems : SUBSET Elems, tables : SUBSET Tables]
      /\ Linked(tab, rank) /\ Resumable(tab) /\ Knows(p, tab)
      /\ table.hidxNew \in Live /\ table.work \in Offsets /\ table.hidxNew \in Tables
  BY Inside
<1>2. pc[p] = "rehash" /\ UNCHANGED <<table, elem, loc, stored>>
  BY DEF Rehash, At
<1>3. table.size # 0 /\ table.hidx \in used.tables
  BY <1>1, <1>2 DEF Knows, Typed
<1>4. CASE InRehash
  <2>1. /\ UNCHANGED <<idx, used>>
        /\ pc' = [pc EXCEPT ![p] = IF table.work # Null /\ NewHead(elem[table.work].key) # table.work
                                   THEN "redoOld" ELSE "begin"]
    BY <1>4 DEF Rehash, Goto
  <2>2. Linked(tab, rank)' /\ Resumable(tab)'
    BY <1>1, <1>2, <2>1, LinkedKept, ResumableKept
  <2>3. table.work # Null => /\ table.work \in Elems
                             /\ NewHead(elem[table.work].key) =
                                  idx[table.hidxNew][Slot(table.work, table.hidxNew)]
                             /\ Slot(table.work, table.hidxNew) \in 0 .. Capacities[table.hidxNew] - 1
    BY <1>1, <1>4, LiveFacts DEF NewHead, Slot, HeaderInv, Offsets
  <2>4. table.work # Null =>
          (NewHead(elem[table.work].key) = table.work <=> tab[table.work] = table.hidxNew)
    <3> SUFFICES ASSUME table.work # Null
                 PROVE  NewHead(elem[table.work].key) = table.work <=> tab[table.work] = table.hidxNew
      OBVIOUS
    <3>1. tab[table.work] = table.hidxNew =>
            idx[table.hidxNew][Slot(table.work, table.hidxNew)] = table.work
      BY <1>1, <2>3, LiveFacts DEF Resumable
    <3>2. idx[table.hidxNew][Slot(table.work, table.hidxNew)] = table.work =>
            tab[table.work] = table.hidxNew
      BY <1>1, <2>3, HeadFacts DEF On
    <3> QED
      BY <2>3, <3>1, <3>2
  <2>5. \/ pc'[p] = "redoOld" /\ tab[table.work] # table.hidxNew
        \/ pc'[p] = "begin" /\ (table.work = Null \/ tab[table.work] = table.hidxNew)
    BY <1>1, <2>1, <2>4
  <2>6. Knows(p, tab)'
    BY <1>2, <2>5 DEF Knows, NewLabels, MoveLabels, EndLabels
  <2> QED
    BY <2>2, <2>6, HoldsOfOne
<1>5. CASE ~InRehash /\ NextCap(table.cap) = {}
  <2>1. UNCHANGED <<idx, used>> /\ pc'[p] \in {"unlock", "alloc"}
    BY <1>1, <1>5 DEF Rehash, Goto
  <2>2. Linked(tab, rank)' /\ Resumable(tab)'
    BY <1>1, <1>2, <2>1, LinkedKept, ResumableKept
  <2>3. Knows(p, tab)'
    BY <2>1 DEF Knows, NewLabels, MoveLabels, EndLabels
  <2> QED
    BY <2>2, <2>3, HoldsOfOne
<1>6. CASE ~InRehash /\ NextCap(table.cap) # {}
  <2>1. /\ pc'[p] = "capNew" /\ idx' = [idx EXCEPT ![NewTable] = Zeroed]
        /\ used' = [used EXCEPT !.tables = @ \cup {NewTable}]
    BY <1>1, <1>6 DEF Rehash, Goto
  <2>2. NewTable \in Tables /\ Live = {table.hidx} /\ NewTable # table.hidx
    <3>1. NewTable \in Tables /\ Capacities[NewTable] > table.cap
      BY <1>1, <1>6, NewTableFacts
    <3>2. table.cap = Capacities[table.hidx] /\ table.cap \in Nat
      BY <1>1, <1>3, CapFacts DEF HeaderInv, ShmTypes, TableType
    <3> QED
      BY <1>6, <3>1, <3>2 DEF Live, InRehash
  <2>3. \A t \in Live : idx'[t] = idx[t]
    BY <1>1, <2>1, <2>2, LiveFacts
  <2>4. Linked(tab, rank)'
    BY <1>1, <1>2, <2>3, LinkedKept
  <2>5. used'.elems = used.elems /\ table.hidx \in used'.tables
    BY <1>1, <1>3, <2>1
  <2>6. Resumable(tab)'
    BY <1>1, <1>2, <1>6, <2>5 DEF Resumable, InRehash, Null
  <2>7. NewTable' = NewTable /\ idx'[NewTable] = Zeroed
    BY <1>1, <1>2, <2>1, <2>2 DEF NewTable, NextCap
  <2>8. Knows(p, tab)'
    BY <1>2, <1>3, <2>1, <2>7 DEF Knows, NewLabels, MoveLabels, EndLabels
  <2> QED
    BY <2>4, <2>6, <2>8, HoldsOfOne
<1> QED
  BY <1>4, <1>5, <1>6

\* The header is told of the new index array, which is empty.
LEMMA NewTableStep ==
    ASSUME ShmInv, NEW tab, NEW rank, Holds(tab, rank), NEW p \in Procs,
           SetCapNew(p) \/ SetHIdxNew(p)
    PROVE  ChainInv'
<1> RehashSteps(p)
  BY DEF RehashSteps
<1>1. /\ ShmTypes /\ HeaderInv /\ Typed(p) /\ pc \in [Procs -> Labels] /\ table \in TableType
      /\ idx \in [Tables -> [Buckets -> Offsets]]
      /\ Linked(tab, rank) /\ Resumable(tab) /\ Knows(p, tab)
  BY Inside
<1>2. /\ pc[p] \in NewLabels /\ UNCHANGED <<idx, elem, used, loc, stored>>
  BY DEF SetCapNew, SetHIdxNew, SetHeader, At, NewLabels
<1>3. /\ table.size # 0 /\ ~InRehash /\ table.work = Null /\ NextCap(table.cap) # {}
      /\ idx[NewTable] = Zeroed /\ table.hidx \in used.tables
  BY <1>1, <1>2 DEF Knows, Typed, Resumable, NewLabels
<1>4. NewTable \in Tables /\ NewTable # table.hidx
  <2>1. NewTable \in Tables /\ Capacities[NewTable] > table.cap
    BY <1>1, <1>3, NewTableFacts
  <2>2. table.cap = Capacities[table.hidx] /\ table.cap \in Nat
    BY <1>1, <1>3, CapFacts DEF HeaderInv, TableType
  <2> QED
    BY <2>1, <2>2
<1>5. CASE SetCapNew(p)
  <2>1. table' = [table EXCEPT !["capNew"] = Capacities[NewTable]] /\ pc'[p] = "hidxNew"
    BY <1>1, <1>5 DEF SetCapNew, SetHeader, Goto
  <2>2. /\ table'.hidx = table.hidx /\ table'.hidxNew = table.hidxNew /\ table'.work = table.work
        /\ table'.size = table.size /\ table'.cap = table.cap
    BY <1>1, <2>1 DEF TableType
  <2>3. Linked(tab, rank)'
    BY <1>1, <1>2, <2>2, LinkedKept
  <2>4. Resumable(tab)'
    BY <1>1, <1>2, <2>2 DEF Resumable, InRehash, Slot
  <2>5. NewTable' = NewTable
    BY <2>2 DEF NewTable, NextCap
  <2>6. Knows(p, tab)'
    BY <1>2, <1>3, <2>1, <2>2, <2>5 DEF Knows, NewLabels, MoveLabels, EndLabels
  <2> QED
    BY <2>3, <2>4, <2>6, HoldsOfOne
<1>6. CASE SetHIdxNew(p)
  <2>1. table' = [table EXCEPT !["hidxNew"] = NewTable] /\ pc'[p] = "begin"
    BY <1>1, <1>6 DEF SetHIdxNew, SetHeader, Goto
  <2>2. /\ table'.hidx = table.hidx /\ table'.hidxNew = NewTable /\ table'.work = Null
        /\ table'.size = table.size
    BY <1>1, <1>3, <2>1 DEF TableType
  <2>3. Live = {table.hidx} /\ Live' = {table.hidx, NewTable}
    BY <1>3, <2>2 DEF Live, InRehash
  <2>4. Linked(tab, rank)'
    <3>1. tab \in [Elems -> Live \cup {0}] /\ rank \in [Elems -> Nat]
      BY <1>1 DEF Linked
    <3>2. tab \in [Elems -> Live' \cup {0}]
      BY <2>3, <3>1
    <3>3. ASSUME NEW b \in 0 .. Capacities[table.hidx] - 1
          PROVE  ChainOf(elem', On(tab, table.hidx, b)', rank, idx'[table.hidx][b])
      <4>1. On(tab, table.hidx, b)' = On(tab, table.hidx, b)
        BY <1>2, <2>2 DEF On, Slot
      <4> QED
        BY <1>1, <1>2, <2>3, <4>1 DEF Linked
    <3>4. ASSUME NEW b \in 0 .. Capacities[NewTable] - 1
          PROVE  ChainOf(elem', On(tab, table.hidxNew, b)', rank, idx'[NewTable][b])
      <4>1. On(tab, table.hidxNew, b)' = {}
        <5>1. \A e \in Elems : tab[e] # NewTable
          BY <1>1, <1>4, <2>3, <3>1, LiveFacts
        <5> QED
          BY <2>2, <5>1 DEF On
      <4>2. idx'[NewTable][b] = Null
        <5>1. b \in Buckets
          BY <1>1, <1>4, LiveFacts
        <5> QED
          BY <1>2, <1>3, <5>1 DEF Zeroed, Buckets, MaxCap
      <4> QED
        BY <3>1, <4>1, <4>2 DEF ChainOf, Top
    <3> QED
      BY <2>2, <2>3, <3>1, <3>2, <3>3, <3>4 DEF Linked
  <2>5. Resumable(tab)'
    <3>1. InRehash' /\ stored = {e \in Elems : tab[e] # 0} /\ stored \subseteq used.elems
      BY <1>1, <1>3, <1>4, <2>2 DEF Resumable, InRehash
    <3>2. \A e \in Elems : e # Null
      BY DEF Null
    <3> QED
      BY <1>2, <1>3, <2>2, <3>1, <3>2 DEF Resumable
  <2>6. Knows(p, tab)'
    BY <2>1, <2>2 DEF Knows, NewLabels, MoveLabels, EndLabels
  <2> QED
    BY <2>4, <2>5, <2>6, HoldsOfOne
<1> QED
  BY <1>5, <1>6

LEMMA FirstFromCases ==
    ASSUME ShmTypes
    PROVE  \/ FirstFrom(0) = Null /\ \A i \in 0 .. table.cap - 1 : idx[table.hidx][i] = Null
           \/ \E i \in 0 .. table.cap - 1 :
                /\ FirstFrom(0) = idx[table.hidx][i] /\ idx[table.hidx][i] # Null
                /\ \A j \in 0 .. i - 1 : idx[table.hidx][j] = Null
<1>1. table.cap \in Nat
  BY CapFacts DEF ShmTypes, TableType
<1>2. PICK row : row = idx[table.hidx]
  OBVIOUS
<1>6. PICK cap \in Nat : cap = table.cap
  BY <1>1
<1>3. FirstFrom(0) = FirstOf(row, cap, 0)
  BY <1>2, <1>6 DEF FirstFrom, FirstOf
<1>4. PICK z \in Nat : z = 0
  OBVIOUS
<1>5. \/ FirstOf(row, cap, z) = Null /\ \A i \in z .. cap - 1 : row[i] = Null
      \/ \E i \in z .. cap - 1 : /\ FirstOf(row, cap, z) = row[i] /\ row[i] # Null
                                 /\ \A j \in z .. i - 1 : row[j] = Null
  BY FirstOfCases, SMTT(30)
<1> QED
  BY <1>2, <1>3, <1>4, <1>5, <1>6

\* Off the old chain, if it is still on it.
LEMMA TakeOffStep ==
    ASSUME ShmTypes, HeaderInv, NEW tab, NEW rank, Linked(tab, rank), Resumable(tab),
           InRehash, table.hidx \in used.tables, NEW e \in Elems, e = table.work,
           tab[e] # table.hidxNew, NEW p, NEW l, NEW to, TakeOff(p, l, e, to)
    PROVE  \E tab2 : Linked(tab2, rank)' /\ Resumable(tab2)' /\ tab2[e] = 0
<1>1. UNCHANGED <<table, elem, used, stored>> /\ table.hidx \in Live
  BY DEF TakeOff, Live
<1> DEFINE t == table.hidx
           b == Slot(e, t)
<1>2. /\ Head_(elem[e].key) = idx[t][b] /\ getIndex(elem[e].key, table.cap) = b
      /\ b \in 0 .. Capacities[t] - 1
  BY <1>1, LiveFacts DEF HeaderInv, Head_, Slot
<1>3. tab \in [Elems -> Live \cup {0}] /\ tab[e] \in {t, 0} /\ t # 0
  BY <1>1, LiveFacts DEF Linked, Live
<1> HIDE DEF b
<1>4. CASE tab[e] = t
  <2>1. idx[t][b] = e
    BY <1>3, <1>4 DEF Resumable, b
  <2>2. idx' = [idx EXCEPT ![t][b] = elem[e].next]
    BY <1>2, <2>1 DEF TakeOff
  <2> DEFINE tab2 == [tab EXCEPT ![e] = 0]
  <2>3. Linked(tab2, rank)'
    BY <1>1, <1>4, <2>1, <2>2, LinkedPop DEF b
  <2>4. tab2[e] = 0 /\ \A x \in Elems : x # e => tab2[x] = tab[x]
    BY <1>3
  <2> HIDE DEF tab2
  <2>5. {x \in Elems : tab2[x] # 0} \cup {e} = {x \in Elems : tab[x] # 0} \cup {e}
    BY <2>4
  <2>6. {table.work} \ {Null} = {e}
    BY DEF Null
  <2>7. stored' = {x \in Elems : tab2[x] # 0} \cup ({table.work} \ {Null})
    BY <1>1, <2>5, <2>6 DEF Resumable
  <2>8. Resumable(tab2)'
    BY <1>1, <2>4, <2>7 DEF Resumable, InRehash
  <2> QED
    BY <2>3, <2>4, <2>8
<1>5. CASE tab[e] = 0
  <2>1. idx[t][b] # e
    <3>1. e \notin On(tab, t, b) /\ e # Null
      BY <1>3, <1>5 DEF On, Null
    <3> QED
      BY <1>1, <1>2, <3>1, HeadFacts
  <2>2. idx' = idx
    BY <1>2, <2>1 DEF TakeOff
  <2>3. Linked(tab, rank)' /\ Resumable(tab)'
    BY <1>1, <2>2, LinkedKept, ResumableKept
  <2> QED
    BY <1>5, <2>3
<1> QED
  BY <1>3, <1>4, <1>5

LEMMA RedoOldStep ==
    ASSUME ShmInv, NEW tab, NEW rank, Holds(tab, rank), NEW p \in Procs, RedoOld(p)
    PROVE  ChainInv'
<1> RehashSteps(p)
  BY DEF RehashSteps
<1>1. /\ ShmTypes /\ HeaderInv /\ Typed(p) /\ pc \in [Procs -> Labels]
      /\ Linked(tab, rank) /\ Resumable(tab) /\ Knows(p, tab) /\ table.work \in Offsets
  BY Inside
<1>2. pc[p] = "redoOld" /\ pc'[p] = "redoNext" /\ table' = table
  BY <1>1 DEF RedoOld, TakeOff, At, Goto
<1>3. /\ table.work \in Elems /\ InRehash /\ table.hidx \in used.tables
      /\ tab[table.work] # table.hidxNew
  BY <1>1, <1>2 DEF Typed, Knows, RedoLabels, LoopLabels, Offsets
<1>4. PICK e \in Elems : e = table.work
  BY <1>3
<1>5. TakeOff(p, "redoOld", e, "redoNext") /\ tab[e] # table.hidxNew
  BY <1>3, <1>4 DEF RedoOld
<1>6. PICK tab2 : Linked(tab2, rank)' /\ Resumable(tab2)' /\ tab2[e] = 0
  BY <1>1, <1>3, <1>4, <1>5, TakeOffStep
<1>7. Knows(p, tab2)'
  BY <1>2, <1>4, <1>6 DEF Knows, NewLabels, MoveLabels, EndLabels
<1> QED
  BY <1>6, <1>7, HoldsOfOne

\* next() was read before the element was moved: it is the first of those that are left.
LEMMA MoveOldStep ==
    ASSUME ShmInv, NEW tab, NEW rank, Holds(tab, rank), NEW p \in Procs, MoveOld(p)
    PROVE  ChainInv'
<1> RehashSteps(p)
  BY DEF RehashSteps
<1>1. /\ ShmTypes /\ HeaderInv /\ Typed(p) /\ pc \in [Procs -> Labels]
      /\ idx \in [Tables -> [Buckets -> Offsets]]
      /\ Linked(tab, rank) /\ Resumable(tab) /\ Knows(p, tab) /\ table.work \in Offsets
      /\ table.hidx \in Tables /\ table.cap \in Nat /\ table.hidx \in Live
  BY Inside
<1>2. pc[p] = "mvOld" /\ pc'[p] = "mvNext" /\ UNCHANGED <<table, elem, loc>>
  BY <1>1 DEF MoveOld, TakeOff, At, Goto
<1>3. PICK e \in Elems : e = loc[p].it /\ e = table.work /\ e = FirstFrom(0) /\ loc[p].nx = Next_(e)
  BY <1>1, <1>2 DEF Typed, Knows, HasElem, MoveLabels, Offsets
<1>4. InRehash /\ table.hidx \in used.tables /\ table.cap = Capacities[table.hidx]
  BY <1>1, <1>2 DEF Typed, MoveLabels, LoopLabels, HeaderInv
<1>5. TakeOff(p, "mvOld", e, "mvNext")
  BY <1>3 DEF MoveOld
<1> DEFINE cap == table.cap
           row == idx[table.hidx]
<1>6. PICK i \in 0 .. cap - 1 : row[i] = e /\ \A j \in 0 .. i - 1 : row[j] = Null
  <2>1. e # Null
    BY DEF Null
  <2> QED
    BY <1>1, <1>3, <2>1, FirstFromCases
<1>7. tab[e] = table.hidx /\ Slot(e, table.hidx) = i
  <2>1. i \in 0 .. Capacities[table.hidx] - 1 /\ idx[table.hidx][i] # Null
    BY <1>4, <1>6 DEF Null
  <2> QED
    BY <1>1, <1>6, <2>1, HeadFacts DEF On
<1>8. tab[e] # table.hidxNew
  BY <1>4, <1>7 DEF InRehash
<1>9. PICK tab2 : Linked(tab2, rank)' /\ Resumable(tab2)' /\ tab2[e] = 0
  BY <1>1, <1>3, <1>4, <1>5, <1>8, TakeOffStep
<1>10. FirstFrom(0)' = Next_(e)
  <2>1. getIndex(elem[e].key, table.cap) = i /\ Head_(elem[e].key) = e
    BY <1>4, <1>6, <1>7 DEF Slot, Head_
  <2>2. idx' = [idx EXCEPT ![table.hidx][i] = elem[e].next]
    BY <1>5, <2>1 DEF TakeOff
  <2>3. Next_(e) = IF elem[e].next # Null THEN elem[e].next ELSE FirstOf(row, cap, i + 1)
    BY <2>1 DEF Next_, FirstFrom, FirstOf
  <2>4. FirstFrom(0)' = FirstOf(idx'[table.hidx], cap, 0)
    BY <1>2 DEF FirstFrom, FirstOf
  <2>5. PICK row2 : row2 = idx'[table.hidx]
    OBVIOUS
  <2>6. \A j \in 0 .. cap - 1 : j \in Buckets
    BY <1>1, <1>4, LiveFacts
  <2>7. row2[i] = elem[e].next /\ \A j \in 0 .. cap - 1 : j # i => row2[j] = row[j]
    BY <1>1, <2>2, <2>5, <2>6
  <2>8. row[i] # Null /\ cap \in Nat /\ i \in 0 .. cap - 1
    BY <1>1, <1>6 DEF Null
  <2>9. FirstOf(row2, cap, 0) = IF row2[i] # Null THEN row2[i] ELSE FirstOf(row, cap, i + 1)
    <3>1. PICK r, c : r = row /\ c = cap
      OBVIOUS
    <3>2. c \in Nat /\ i \in 0 .. c - 1 /\ r[i] # Null
      BY <2>8, <3>1
    <3>3. \A j \in 0 .. i - 1 : r[j] = Null
      BY <1>6, <3>1
    <3>4. \A j \in 0 .. c - 1 : j # i => row2[j] = r[j]
      BY <2>7, <3>1
    <3>5. Popped(c, i, r, row2)
      BY <3>2, <3>3, <3>4, Zenon DEF Popped
    <3>6. FirstOf(row2, c, 0) = IF row2[i] # Null THEN row2[i] ELSE FirstOf(r, c, i + 1)
      BY <3>2, <3>5, FirstOfPops, Zenon
    <3> QED
      BY <3>1, <3>6
  <2> QED
    BY <2>3, <2>4, <2>5, <2>7, <2>9
<1>11. Knows(p, tab2)'
  BY <1>2, <1>3, <1>9, <1>10 DEF Knows, NewLabels, MoveLabels, EndLabels
<1> QED
  BY <1>9, <1>11, HoldsOfOne

\* x_iNext of an element that is in no list.
LEMMA LinkNextStep ==
    ASSUME ShmInv, NEW tab, NEW rank, Holds(tab, rank), NEW p \in Procs,
           RedoNext(p) \/ MoveNext(p)
    PROVE  ChainInv'
<1> RehashSteps(p)
  BY DEF RehashSteps
<1>1. /\ ShmTypes /\ HeaderInv /\ Typed(p) /\ pc \in [Procs -> Labels]
      /\ elem \in [Elems -> ElemType]
      /\ Linked(tab, rank) /\ Resumable(tab) /\ Knows(p, tab) /\ table.work \in Offsets
  BY Inside
<1>2. /\ UNCHANGED <<table, idx, used, loc, stored>>
      /\ \/ pc[p] = "redoNext" /\ pc'[p] = "redoNew"
         \/ pc[p] = "mvNext" /\ pc'[p] = "mvNew"
  BY <1>1 DEF RedoNext, MoveNext, LinkNext, At, Goto
<1>3. PICK e \in Elems : e = table.work
  <2>1. pc[p] = "mvNext" => loc[p].it # Null /\ loc[p].it = table.work
    BY <1>1 DEF Typed, Knows, HasElem, MoveLabels
  <2>2. pc[p] = "redoNext" => table.work # Null
    BY <1>1 DEF Typed, RedoLabels
  <2> QED
    BY <1>1, <1>2, <2>1, <2>2 DEF Offsets
<1>4. /\ tab[e] = 0
      /\ pc[p] = "mvNext" => loc[p].it = e /\ loc[p].nx = FirstFrom(0)
  BY <1>1, <1>2, <1>3 DEF Knows, MoveLabels
<1>5. elem' = [elem EXCEPT ![e].next = NewHead(elem[e].key)]
  BY <1>1, <1>2, <1>3, <1>4 DEF RedoNext, MoveNext, LinkNext, At
<1>6. /\ \A x \in Elems : x # e => elem'[x] = elem[x]
      /\ elem'[e].key = elem[e].key /\ elem'[e].next = NewHead(elem[e].key)
  BY <1>1, <1>5 DEF ElemType
<1>7. Linked(tab, rank)'
  <2>1. \A x \in Elems : tab[x] # 0 => elem'[x] = elem[x]
    BY <1>4, <1>6
  <2> QED
    BY <1>1, <1>2, <2>1, LinkedKept
<1>8. Resumable(tab)'
  BY <1>1, <1>2, <1>3, <1>4 DEF Resumable, InRehash
<1>9. NewHead(elem[e].key)' = NewHead(elem[e].key) /\ FirstFrom(0)' = FirstFrom(0)
  BY <1>2, <1>6 DEF NewHead, FirstFrom
<1>10. Knows(p, tab)'
  BY <1>2, <1>3, <1>4, <1>6, <1>9 DEF Knows, NewLabels, MoveLabels, EndLabels
<1> QED
  BY <1>7, <1>8, <1>10, HoldsOfOne

\* No chain of the old index has a first element: it is empty.
LEMMA OldIsEmpty ==
    ASSUME ShmTypes, HeaderInv, NEW tab, NEW rank, Linked(tab, rank),
           table.hidx \in used.tables, FirstFrom(0) = Null
    PROVE  \A e \in Elems : tab[e] # table.hidx
<1> DEFINE t == table.hidx
<1>1. t \in Live /\ t \in Tables /\ table.cap = Capacities[t] /\ table.cap \in Nat
  BY LiveFacts DEF Live, HeaderInv
<1>2. ASSUME NEW i \in 0 .. table.cap - 1 PROVE idx[t][i] = Null
  BY FirstFromCases
<1>3. ASSUME NEW e \in Elems, tab[e] = t PROVE FALSE
  <2>1. Slot(e, t) \in 0 .. Capacities[t] - 1
    BY <1>1, LiveFacts
  <2>2. e \in On(tab, t, Slot(e, t))
    BY <1>3 DEF On
  <2>3. idx[t][Slot(e, t)] = Null
    BY <1>1, <1>2, <2>1
  <2>4. On(tab, t, Slot(e, t)) = {}
    BY <1>1, <2>1, <2>3, HeadFacts
  <2> QED
    BY <2>2, <2>4
<1> QED
  BY <1>3

\* The element that moves becomes the head of its new chain.
LEMMA PutOnStep ==
    ASSUME ShmInv, NEW tab, NEW rank, Holds(tab, rank), NEW p \in Procs,
           RedoNew(p) \/ MoveNew(p)
    PROVE  ChainInv'
<1> RehashSteps(p)
  BY DEF RehashSteps
<1>1. /\ ShmTypes /\ HeaderInv /\ Typed(p) /\ pc \in [Procs -> Labels] /\ loc \in [Procs -> LocType]
      /\ idx \in [Tables -> [Buckets -> Offsets]] /\ table.hidxNew \in Tables /\ table.hidx \in Tables
      /\ Linked(tab, rank) /\ Resumable(tab) /\ Knows(p, tab) /\ table.work \in Offsets
      /\ table.hidxNew \in Live /\ tab \in [Elems -> Live \cup {0}]
  BY Inside
<1>2. /\ UNCHANGED <<table, elem, used, stored>>
      /\ \/ pc[p] = "redoNew" /\ pc'[p] = "begin"
         \/ pc[p] = "mvNew" /\ pc'[p] = "workDone" /\ loc[p].nx = Null
         \/ pc[p] = "mvNew" /\ pc'[p] = "work" /\ loc[p].nx # Null
      /\ loc' = [loc EXCEPT ![p].it = loc[p].nx]
  BY <1>1 DEF RedoNew, MoveNew, PutOn, At, Goto
<1>3. PICK e \in Elems : e = table.work
  <2>1. pc[p] = "mvNew" => loc[p].it # Null /\ loc[p].it = table.work
    BY <1>1 DEF Typed, Knows, HasElem, MoveLabels
  <2>2. pc[p] = "redoNew" => table.work # Null
    BY <1>1 DEF Typed, RedoLabels
  <2> QED
    BY <1>1, <1>2, <2>1, <2>2 DEF Offsets
<1>4. /\ tab[e] = 0 /\ elem[e].next = NewHead(elem[e].key)
      /\ pc[p] = "mvNew" => loc[p].it = e /\ loc[p].nx = FirstFrom(0)
      /\ InRehash /\ table.hidx \in used.tables
  BY <1>1, <1>2, <1>3 DEF Knows, Typed, MoveLabels, RedoLabels, LoopLabels
<1>5. PICK t, b : t = table.hidxNew /\ b = Slot(e, t)
  OBVIOUS
<1>6. /\ getIndex(elem[e].key, table.capNew) = b /\ NewHead(elem[e].key) = idx[t][b]
      /\ t \in Live /\ t \in Tables /\ b \in Buckets /\ t # table.hidx
  <2>1. b \in Buckets
    BY <1>1, <1>5, LiveFacts
  <2> QED
    BY <1>1, <1>4, <1>5, <2>1 DEF HeaderInv, NewHead, Slot, InRehash
<1>7. idx' = [idx EXCEPT ![t][b] = e]
  BY <1>1, <1>2, <1>3, <1>4, <1>5, <1>6 DEF RedoNew, MoveNew, PutOn, At
<1> DEFINE tab2 == [tab EXCEPT ![e] = t]
<1>8. PICK rank2 : Linked(tab2, rank2)'
  BY <1>1, <1>2, <1>4, <1>5, <1>6, <1>7, LinkedPush
<1>9. tab2[e] = t /\ \A x \in Elems : x # e => tab2[x] = tab[x]
  BY <1>1
<1> HIDE DEF tab2
<1>10. /\ idx'[t][b] = e /\ idx'[table.hidx] = idx[table.hidx]
  BY <1>1, <1>6, <1>7
<1>11. Resumable(tab2)'
  <2>1. t # 0 /\ {table.work} \ {Null} = {e}
    BY <1>1, <1>3, <1>6, LiveFacts DEF Null
  <2>2. stored = {x \in Elems : tab[x] # 0} \cup {e}
    BY <1>1, <1>4, <2>1 DEF Resumable
  <2>3. stored = {x \in Elems : tab2[x] # 0} \cup {e}
    BY <1>9, <2>2
  <2>4. Slot(e, t)' = b
    BY <1>2, <1>5 DEF Slot
  <2>5. \A x \in Elems : x = table.work /\ tab2[x] # 0 => idx'[tab2[x]][Slot(x, tab2[x])'] = x
    BY <1>3, <1>9, <1>10, <2>4 DEF Slot
  <2> QED
    BY <1>1, <1>2, <1>4, <2>1, <2>3, <2>5 DEF Resumable, InRehash
<1>12. FirstFrom(0)' = FirstFrom(0)
  BY <1>2, <1>10 DEF FirstFrom
<1>13. loc'[p].it = loc[p].nx
  BY <1>1, <1>2 DEF LocType
<1>14. pc'[p] = "workDone" => \A x \in Elems : tab2[x] # table.hidx
  <2>1. pc'[p] = "workDone" => \A x \in Elems : tab[x] # table.hidx
    BY <1>1, <1>2, <1>4, OldIsEmpty
  <2> QED
    BY <1>6, <1>9, <2>1
<1>15. Knows(p, tab2)'
  BY <1>2, <1>3, <1>4, <1>5, <1>9, <1>12, <1>13, <1>14
     DEF Knows, NewLabels, MoveLabels, EndLabels
<1> QED
  BY <1>8, <1>11, <1>15, HoldsOfOne

LEMMA BeginWorkStep ==
    ASSUME ShmInv, NEW tab, NEW rank, Holds(tab, rank), NEW p \in Procs, BeginWork(p)
    PROVE  ChainInv'
<1> RehashSteps(p)
  BY DEF RehashSteps
<1>1. /\ ShmTypes /\ HeaderInv /\ Typed(p) /\ pc \in [Procs -> Labels] /\ loc \in [Procs -> LocType]
      /\ Linked(tab, rank) /\ Resumable(tab) /\ Knows(p, tab)
  BY Inside
<1>2. /\ pc[p] = "begin" /\ UNCHANGED <<table, idx, elem, used, stored>>
      /\ loc' = [loc EXCEPT ![p].it = Begin]
      /\ \/ pc'[p] = "workDone" /\ Begin = Null
         \/ pc'[p] = "work" /\ Begin # Null
  BY <1>1 DEF BeginWork, shared, At, Goto
<1>3. /\ InRehash /\ table.hidx \in used.tables
      /\ table.work = Null \/ tab[table.work] = table.hidxNew
  BY <1>1, <1>2 DEF Typed, Knows, LoopLabels
<1>4. Begin = FirstFrom(0)
  BY <1>1, <1>3 DEF Begin, Resumable
<1>5. Linked(tab, rank)' /\ Resumable(tab)'
  BY <1>1, <1>2, LinkedKept, ResumableKept
<1>6. loc'[p].it = FirstFrom(0) /\ FirstFrom(0)' = FirstFrom(0)
  BY <1>1, <1>2, <1>4 DEF LocType, FirstFrom
<1>7. Begin = Null => \A e \in Elems : tab[e] # table.hidx
  BY <1>1, <1>3, <1>4, OldIsEmpty
<1>8. Knows(p, tab)'
  BY <1>2, <1>3, <1>6, <1>7 DEF Knows, NewLabels, MoveLabels, EndLabels
<1> QED
  BY <1>5, <1>8, HoldsOfOne

\* x_iWorkIterOff names the element before it leaves the old chain.
LEMMA WorkStep ==
    ASSUME ShmInv, NEW tab, NEW rank, Holds(tab, rank), NEW p \in Procs, Work(p)
    PROVE  ChainInv'
<1> RehashSteps(p)
  BY DEF RehashSteps
<1>1. /\ ShmTypes /\ HeaderInv /\ Typed(p) /\ pc \in [Procs -> Labels] /\ loc \in [Procs -> LocType]
      /\ table \in TableType /\ table.hidx \in Live /\ table.cap \in Nat /\ table.work \in Offsets
      /\ Linked(tab, rank) /\ Resumable(tab) /\ Knows(p, tab)
  BY Inside
<1>2. /\ pc[p] = "work" /\ pc'[p] = "mvOld" /\ UNCHANGED <<idx, elem, used, stored>>
      /\ loc' = [loc EXCEPT ![p].nx = Next_(loc[p].it)]
      /\ table' = [table EXCEPT !.work = loc[p].it]
  BY <1>1 DEF Work, At, Goto
<1>3. /\ InRehash /\ table.hidx \in used.tables /\ table.cap = Capacities[table.hidx]
      /\ table.work = Null \/ tab[table.work] = table.hidxNew
      /\ loc[p].it = FirstFrom(0) /\ loc[p].it # Null /\ loc[p].it \in Offsets
  BY <1>1, <1>2 DEF Typed, Knows, LoopLabels, HasElem, HeaderInv, LocType
<1>4. PICK e \in Elems : e = loc[p].it
  BY <1>3 DEF Offsets
<1>5. PICK i \in 0 .. table.cap - 1 : idx[table.hidx][i] = e
  BY <1>1, <1>3, <1>4, FirstFromCases
<1>6. tab[e] = table.hidx /\ Slot(e, table.hidx) = i
  <2>1. i \in 0 .. Capacities[table.hidx] - 1 /\ idx[table.hidx][i] # Null
    BY <1>3, <1>4, <1>5
  <2> QED
    BY <1>1, <1>5, <2>1, HeadFacts DEF On
<1>7. /\ table'.hidx = table.hidx /\ table'.hidxNew = table.hidxNew /\ table'.work = e
      /\ table'.size = table.size /\ table'.cap = table.cap
  BY <1>1, <1>2, <1>4 DEF TableType
<1>8. Linked(tab, rank)'
  BY <1>1, <1>2, <1>7, LinkedKept
<1>9. Resumable(tab)'
  <2>1. table.hidx # 0 /\ table.hidxNew # 0
    BY <1>1, LiveFacts DEF Live
  <2>2. stored = {x \in Elems : tab[x] # 0}
    BY <1>1, <1>3, <2>1 DEF Resumable, Offsets
  <2>3. stored = {x \in Elems : tab[x] # 0} \cup ({e} \ {Null})
    BY <1>6, <2>1, <2>2
  <2>4. \A x \in Elems : x = e => idx[tab[x]][Slot(x, tab[x])] = x
    BY <1>5, <1>6
  <2>5. \A x \in Elems : x = table'.work /\ tab[x] # 0 => idx'[tab[x]][Slot(x, tab[x])'] = x
    BY <1>2, <1>7, <2>4 DEF Slot
  <2>6. InRehash'
    BY <1>3, <1>7 DEF InRehash
  <2> QED
    BY <1>1, <1>2, <1>3, <1>7, <2>3, <2>5, <2>6 DEF Resumable
<1>10. loc'[p].it = e /\ loc'[p].nx = Next_(e)
  BY <1>1, <1>2, <1>4 DEF LocType
<1>11. FirstFrom(0)' = FirstFrom(0) /\ Next_(e)' = Next_(e)
  BY <1>2, <1>7 DEF FirstFrom, Next_
<1>12. Next_(loc[p].it)' = Next_(e)'
  BY <1>10
<1>13. Knows(p, tab)'
  BY <1>2, <1>3, <1>4, <1>7, <1>10, <1>11, <1>12 DEF Knows, NewLabels, MoveLabels, EndLabels
<1> QED
  BY <1>8, <1>9, <1>13, HoldsOfOne

\* The old index is empty: it is given back, and the new one takes its place.
LEMMA EndStep ==
    ASSUME ShmInv, NEW tab, NEW rank, Holds(tab, rank), NEW p \in Procs,
           WorkDone(p) \/ ReleaseOld(p) \/ SetCapacity(p) \/ SetHIdx(p)
    PROVE  ChainInv'
<1> RehashSteps(p)
  BY DEF RehashSteps
<1>1. /\ ShmTypes /\ HeaderInv /\ Typed(p) /\ pc \in [Procs -> Labels]
      /\ used \in [elems : SUBSET Elems, tables : SUBSET Tables]
      /\ table \in TableType /\ table.work \in Offsets
      /\ Linked(tab, rank) /\ Resumable(tab) /\ Knows(p, tab)
  BY Inside
<1>2. UNCHANGED <<idx, elem, stored>> /\ used'.elems = used.elems /\ pc[p] \in EndLabels
  BY <1>1 DEF WorkDone, ReleaseOld, SetCapacity, SetHIdx, SetHeader, At, EndLabels
<1>3. /\ \A e \in Elems : tab[e] # table.hidx
      /\ InRehash /\ table.size # 0 /\ table.hidx # 0 /\ table.hidxNew # 0
  BY <1>1, <1>2, LiveFacts DEF Knows, Typed, LoopLabels, Resumable, Live
<1>4. stored = {x \in Elems : tab[x] # 0} /\ stored \subseteq used.elems
  <2>1. table.work = Null \/ tab[table.work] # 0
    BY <1>1, <1>2, <1>3 DEF Knows, EndLabels
  <2> QED
    BY <1>1, <1>3, <2>1 DEF Resumable, Offsets
<1>5. \A e \in Elems : e # Null
  BY DEF Null
<1>6. CASE WorkDone(p)
  <2>1. /\ pc'[p] = "releaseOld" /\ used' = used
        /\ table' = [table EXCEPT !["work"] = Null]
    BY <1>1, <1>6 DEF WorkDone, SetHeader, Goto
  <2>2. /\ table'.hidx = table.hidx /\ table'.hidxNew = table.hidxNew /\ table'.work = Null
        /\ table'.size = table.size
    BY <1>1, <2>1 DEF TableType
  <2>3. Linked(tab, rank)'
    BY <1>1, <1>2, <2>2, LinkedKept
  <2>4. Resumable(tab)'
    BY <1>2, <1>3, <1>4, <1>5, <2>1, <2>2 DEF Resumable, InRehash
  <2>5. Knows(p, tab)'
    BY <1>3, <2>1, <2>2 DEF Knows, NewLabels, MoveLabels, EndLabels
  <2> QED
    BY <2>3, <2>4, <2>5, HoldsOfOne
<1>7. CASE ReleaseOld(p) \/ SetCapacity(p)
  <2>1. pc'[p] \in {"capacity", "hidx"} /\ table.work = Null
    BY <1>1, <1>7 DEF ReleaseOld, SetCapacity, SetHeader, At, Goto, Knows, EndLabels
  <2>2. table' = table \/ table' = [table EXCEPT !["cap"] = table.capNew]
    BY <1>7 DEF ReleaseOld, SetCapacity, SetHeader
  <2>3. /\ table'.hidx = table.hidx /\ table'.hidxNew = table.hidxNew /\ table'.work = Null
        /\ table'.size = table.size
    BY <1>1, <2>1, <2>2 DEF TableType
  <2>4. Linked(tab, rank)'
    BY <1>1, <1>2, <2>3, LinkedKept
  <2>5. Resumable(tab)'
    BY <1>2, <1>3, <1>4, <1>5, <2>1, <2>3 DEF Resumable, InRehash
  <2>6. Knows(p, tab)'
    BY <1>3, <2>1, <2>3 DEF Knows, NewLabels, MoveLabels, EndLabels
  <2> QED
    BY <2>4, <2>5, <2>6, HoldsOfOne
<1>8. CASE SetHIdx(p)
  <2>1. /\ pc[p] = "hidx" /\ pc'[p] = loc[p].from /\ used' = used
        /\ table' = [table EXCEPT !["hidx"] = table.hidxNew]
    BY <1>1, <1>8 DEF SetHIdx, SetHeader, At, Goto
  <2>2. /\ loc[p].from \in {"find", "alloc"} /\ table.hidxNew \in used.tables /\ table.work = Null
    BY <1>1, <1>3, <2>1 DEF Typed, LoopLabels, EndLabels, HeaderInv, Knows
  <2>3. table'.hidx = table.hidxNew /\ table'.hidxNew = table.hidxNew /\ table'.work = Null
    BY <1>1, <2>1, <2>2 DEF TableType
  <2>4. Linked(tab, rank)'
    <3>1. Live' \subseteq Live /\ Live' = {table.hidxNew}
      BY <2>3 DEF Live
    <3>2. tab \in [Elems -> Live \cup {0}] /\ rank \in [Elems -> Nat]
      BY <1>1 DEF Linked
    <3>3. \A e \in Elems : tab[e] \in Live' \cup {0}
      BY <1>3, <3>1, <3>2 DEF Live
    <3>4. tab \in [Elems -> Live' \cup {0}]
      BY <3>2, <3>3
    <3>5. ASSUME NEW t \in Live', NEW b \in 0 .. Capacities[t] - 1
          PROVE  ChainOf(elem', On(tab, t, b)', rank, idx'[t][b])
      <4>1. On(tab, t, b)' = On(tab, t, b)
        BY <1>2 DEF On, Slot
      <4> QED
        BY <1>1, <1>2, <3>1, <4>1 DEF Linked
    <3> QED
      BY <3>2, <3>4, <3>5 DEF Linked
  <2>5. Resumable(tab)'
    BY <1>2, <1>4, <1>5, <2>1, <2>2, <2>3 DEF Resumable, InRehash
  <2>6. Knows(p, tab)'
    BY <2>1, <2>2 DEF Knows, NewLabels, MoveLabels, EndLabels
  <2> QED
    BY <2>4, <2>5, <2>6, HoldsOfOne
<1> QED
  BY <1>6, <1>7, <1>8

\* The element find2() returns, when the table is not being rehashed.
LEMMA FindFinds ==
    ASSUME ShmTypes, HeaderInv, NEW tab, NEW rank, Linked(tab, rank), Resumable(tab), ~InRehash,
           table.hidx \in used.tables, NEW k \in Nat
    PROVE  IF Find(k) = Null THEN \A e \in stored : elem[e].key # k
           ELSE Find(k) \in stored /\ elem[Find(k)].key = k
<1> DEFINE t == table.hidx
           b == getIndex(k, Capacities[t])
           S == On(tab, t, b)
           h == idx[t][b]
           N == {i \in 0 .. Cardinality(Elems) : Nth(h, i) \in Elems /\ elem[Nth(h, i)].key = k}
<1>1. t \in Live /\ t \in Tables /\ t # 0 /\ Live = {t}
  BY LiveFacts DEF Live, InRehash
<1>2. b \in 0 .. Capacities[t] - 1 /\ Head_(k) = h
  BY <1>1, CapFacts DEF HeaderInv, Head_
<1>3. ChainOf(elem, S, rank, h) /\ h \in Offsets
  BY <1>1, <1>2, HeadFacts DEF Linked
<1>4. stored = {e \in Elems : tab[e] = t}
  <2>1. \A e \in Elems : tab[e] # 0 <=> tab[e] = t
    BY <1>1 DEF Linked
  <2> QED
    BY <2>1 DEF Resumable
<1>5. Find(k) = IF N = {} THEN Null ELSE Nth(h, CHOOSE i \in N : \A j \in N : i <= j)
  BY <1>2 DEF Find
<1>6. N \subseteq Nat /\ Cardinality(Elems) \in Nat
  BY FS_CardinalityType
<1>7. /\ \A n \in Nat : Nth(h, n) = Null \/ Nth(h, n) \in S
      /\ \A e \in S : \E n \in 0 .. Cardinality(Elems) : Nth(h, n) = e
  <2> HIDE DEF S, h
  <2> QED
    BY <1>3, ChainIs
<1>8. CASE N = {}
  <2>1. ASSUME NEW e \in stored, elem[e].key = k PROVE FALSE
    <3>1. e \in S /\ e \in Elems
      BY <1>4, <2>1 DEF On, Slot
    <3>2. PICK n \in 0 .. Cardinality(Elems) : Nth(h, n) = e
      BY <1>7, <3>1
    <3>3. n \in N
      BY <2>1, <3>1, <3>2
    <3> QED
      BY <1>8, <3>3
  <2> QED
    BY <1>5, <1>8, <2>1
<1>9. CASE N # {}
  <2> DEFINE i == CHOOSE i \in N : \A j \in N : i <= j
  <2>1. i \in N
    <3> HIDE DEF N
    <3>1. \E m \in N : \A j \in N : m <= j
      BY <1>6, <1>9, NatLeast
    <3> QED
      BY <3>1
  <2>2. Find(k) = Nth(h, i)
    BY <1>5, <1>9
  <2> HIDE DEF i
  <2>3. Nth(h, i) \in Elems /\ elem[Nth(h, i)].key = k /\ i \in Nat
    BY <1>6, <2>1
  <2>4. Nth(h, i) # Null
    BY <2>3 DEF Null
  <2>5. Nth(h, i) \in S
    BY <1>7, <2>3, <2>4
  <2>6. Nth(h, i) \in stored
    BY <1>4, <2>5 DEF On
  <2> QED
    BY <2>2, <2>3, <2>4, <2>6
<1> QED
  BY <1>8, <1>9

\* Steps that only read.
LEMMA ReadStep ==
    ASSUME ShmInv, NEW tab, NEW rank, Holds(tab, rank), NEW p \in Procs,
           Locked(p) \/ FindStep(p) \/ Found(p) \/ InsertCopy(p)
    PROVE  ChainInv'
<1> OpSteps(p) /\ ~Unlock(p)
  BY DEF OpSteps, Locked, FindStep, Found, InsertCopy, Unlock, At
<1>1. /\ ShmTypes /\ HeaderInv /\ Typed(p) /\ pc \in [Procs -> Labels] /\ loc \in [Procs -> LocType]
      /\ table \in TableType
      /\ Linked(tab, rank) /\ Resumable(tab) /\ Knows(p, tab)
  BY Inside
<1>2. UNCHANGED <<table, idx, elem, used, stored>>
  BY DEF Locked, FindStep, Found, InsertCopy, shared
<1>3. Linked(tab, rank)' /\ Resumable(tab)'
  BY <1>1, <1>2, LinkedKept, ResumableKept
<1>4. InRehash' = InRehash
  BY <1>2 DEF InRehash
<1>5. CASE Locked(p)
  <2>1. pc'[p] = "find" \/ (pc'[p] = "rehash" /\ InRehash)
    BY <1>1, <1>5 DEF Locked, Goto
  <2>2. Knows(p, tab)'
    BY <1>1, <1>2, <2>1 DEF Knows, Resumable, NewLabels, MoveLabels, EndLabels
  <2> QED
    BY <1>3, <2>2, HoldsOfOne
<1>6. CASE FindStep(p)
  <2>1. pc[p] = "find" /\ pc'[p] = "found"
    BY <1>1, <1>6 DEF FindStep, At, Goto
  <2>a. PICK op \in {"insert", "set", "remove"}, k \in Keys :
            loc' = [loc EXCEPT ![p] = [@ EXCEPT !.op = op, !.key = k, !.it = Find(k)]]
    BY <1>6 DEF FindStep
  <2>2. loc'[p].it = Find(k) /\ loc'[p].key = k
    BY <1>1, <2>a DEF LocType
  <2>3. k \in Nat /\ table.hidx \in used.tables
    BY <1>1, <2>1, ElemAssumption DEF Typed
  <2>4. ~InRehash => IF Find(k) = Null THEN \A e \in stored : elem[e].key # k
                     ELSE Find(k) \in stored /\ elem[Find(k)].key = k
    BY <1>1, <2>3, FindFinds
  <2>5. Knows(p, tab)'
    BY <1>2, <1>4, <2>1, <2>2, <2>4 DEF Knows, NewLabels, MoveLabels, EndLabels
  <2> QED
    BY <1>3, <2>5, HoldsOfOne
<1>7. CASE Found(p)
  <2>1. /\ pc[p] = "found" /\ loc' = loc
        /\ pc'[p] \in {"unlock", "insert"} \/ (pc'[p] = "unlink" /\ loc[p].it # Null)
    BY <1>1, <1>7 DEF Found, At, Goto
  <2>2. pc'[p] = "unlink" /\ ~InRehash => loc[p].it \in stored /\ elem[loc[p].it].key = loc[p].key
    BY <1>1, <2>1 DEF Knows
  <2>3. Knows(p, tab)'
    BY <1>2, <1>4, <2>1, <2>2 DEF Knows, NewLabels, MoveLabels, EndLabels
  <2> QED
    BY <1>3, <2>3, HoldsOfOne
<1>8. CASE InsertCopy(p)
  <2>1. pc'[p] = "alloc" \/ (pc'[p] = "rehash" /\ Wrap(table.size * FullFactor) > table.cap)
    BY <1>1, <1>8 DEF InsertCopy, Goto
  <2>2. Wrap(table.size * FullFactor) > table.cap => table.size # 0
    <3>1. table.cap \in Nat
      BY <1>1, CapFacts DEF TableType
    <3>2. Wrap(0 * FullFactor) = 0
      <4>1. 0 * FullFactor = 0
        OBVIOUS
      <4>2. \A m \in Nat \ {0} : 0 % m = 0
        OBVIOUS
      <4> QED
        BY <4>1, <4>2 DEF Wrap
    <3> QED
      BY <3>1, <3>2
  <2>3. Knows(p, tab)'
    BY <1>2, <2>1, <2>2 DEF Knows, NewLabels, MoveLabels, EndLabels
  <2> QED
    BY <1>3, <2>3, HoldsOfOne
<1> QED
  BY <1>5, <1>6, <1>7, <1>8

\* The pool hands out an element that no chain reaches.
LEMMA AllocStep ==
    ASSUME ShmInv, NEW tab, NEW rank, Holds(tab, rank), NEW p \in Procs, AllocIter(p)
    PROVE  ChainInv'
<1>0. OpSteps(p) /\ ~Unlock(p)
  BY DEF OpSteps, AllocIter, Unlock, At
<1>1. /\ ShmTypes /\ Typed(p) /\ pc \in [Procs -> Labels] /\ loc \in [Procs -> LocType]
      /\ elem \in [Elems -> ElemType] /\ used \in [elems : SUBSET Elems, tables : SUBSET Tables]
      /\ Linked(tab, rank) /\ Resumable(tab) /\ Knows(p, tab) /\ table.work \in Offsets
  BY <1>0, Inside
<1>2. UNCHANGED <<table, idx, stored>>
  BY DEF AllocIter
<1>3. CASE Elems \ used.elems = {}
  <2>1. pc'[p] = "unlock" /\ UNCHANGED <<elem, used, loc>>
    BY <1>1, <1>3 DEF AllocIter, Goto
  <2>2. Linked(tab, rank)' /\ Resumable(tab)'
    BY <1>1, <1>2, <2>1, LinkedKept, ResumableKept
  <2>3. Knows(p, tab)'
    BY <2>1 DEF Knows, NewLabels, MoveLabels, EndLabels
  <2> QED
    BY <1>0, <2>2, <2>3, HoldsOfOne
<1>4. CASE Elems \ used.elems # {}
  <2> DEFINE free == Elems \ used.elems
  <2>1. \E x \in free : \A y \in free : x <= y
    <3>1. free \subseteq Nat /\ free # {}
      BY <1>4
    <3> QED
      BY <3>1, NatLeast
  <2>2. PICK e : e = CHOOSE x \in free : \A y \in free : x <= y
    OBVIOUS
  <2>3. e \in Elems \ used.elems
    BY <2>1, <2>2
  <2>4. /\ used' = [used EXCEPT !.elems = @ \cup {e}]
        /\ elem' = [elem EXCEPT ![e].key = loc[p].key]
        /\ loc' = [loc EXCEPT ![p].it = e]
        /\ pc'[p] = "next"
    BY <1>1, <1>4, <2>2 DEF AllocIter, Goto
  <2>5. /\ used'.elems = used.elems \cup {e} /\ used'.tables = used.tables
        /\ \A x \in Elems : x # e => elem'[x] = elem[x]
        /\ elem'[e].key = loc[p].key
        /\ loc'[p].it = e /\ loc'[p].key = loc[p].key
    BY <1>1, <2>3, <2>4 DEF LocType, ElemType
  <2>6. stored \subseteq used.elems /\ e \notin stored /\ tab[e] = 0
    BY <1>1, <2>3 DEF Resumable
  <2>7. Linked(tab, rank)'
    <3>1. \A x \in Elems : tab[x] # 0 => elem'[x] = elem[x]
      BY <2>5, <2>6
    <3> QED
      BY <1>1, <1>2, <3>1, LinkedKept
  <2>8. Resumable(tab)'
    <3>1. \A x \in Elems : x = table.work /\ tab[x] # 0 => elem'[x] = elem[x]
      BY <2>5, <2>6
    <3> QED
      BY <1>1, <1>2, <2>5, <2>6, <3>1 DEF Resumable, InRehash, Slot
  <2>9. Knows(p, tab)'
    BY <1>2, <2>4, <2>5, <2>6 DEF Knows, NewLabels, MoveLabels, EndLabels
  <2> QED
    BY <1>0, <2>7, <2>8, <2>9, HoldsOfOne
<1> QED
  BY <1>3, <1>4

\* x_iNext of the new element: no chain reaches it yet.
LEMMA InsertNextStep ==
    ASSUME ShmInv, NEW tab, NEW rank, Holds(tab, rank), NEW p \in Procs, InsertNext(p)
    PROVE  ChainInv'
<1>0. OpSteps(p) /\ ~Unlock(p)
  BY DEF OpSteps, InsertNext, Unlock, At
<1>1. /\ ShmTypes /\ Typed(p) /\ pc \in [Procs -> Labels] /\ loc \in [Procs -> LocType]
      /\ elem \in [Elems -> ElemType] /\ used \in [elems : SUBSET Elems, tables : SUBSET Tables]
      /\ Linked(tab, rank) /\ Resumable(tab) /\ Knows(p, tab) /\ table.work \in Offsets
  BY <1>0, Inside
<1>2. UNCHANGED <<table, idx, used, loc, stored>> /\ pc[p] = "next" /\ pc'[p] = "link"
  BY <1>1 DEF InsertNext, At, Goto
<1>3. PICK e \in Elems : e = loc[p].it
  BY <1>1, <1>2 DEF Knows
<1>4. e \in used.elems \ stored /\ elem[e].key = loc[p].key /\ tab[e] = 0
  BY <1>1, <1>2, <1>3 DEF Knows, Resumable
<1>5. elem' = [elem EXCEPT ![e].next = Head_(loc[p].key)]
  BY <1>3 DEF InsertNext
<1>6. /\ \A x \in Elems : x # e => elem'[x] = elem[x]
      /\ elem'[e].key = elem[e].key /\ elem'[e].next = Head_(loc[p].key)
  BY <1>1, <1>5 DEF ElemType
<1>7. Linked(tab, rank)'
  <2>1. \A x \in Elems : tab[x] # 0 => elem'[x] = elem[x]
    BY <1>4, <1>6
  <2> QED
    BY <1>1, <1>2, <2>1, LinkedKept
<1>8. Resumable(tab)'
  <2>1. \A x \in Elems : elem'[x].key = elem[x].key
    BY <1>6
  <2> QED
    BY <1>1, <1>2, <2>1 DEF Resumable, InRehash, Slot
<1>9. Head_(loc[p].key)' = Head_(loc[p].key)
  BY <1>2 DEF Head_
<1>10. Knows(p, tab)'
  BY <1>2, <1>3, <1>4, <1>6, <1>9 DEF Knows, NewLabels, MoveLabels, EndLabels
<1> QED
  BY <1>0, <1>7, <1>8, <1>10, HoldsOfOne

\* The chain and the slot an operation without a rehash works on.
LEMMA AtSlot ==
    ASSUME ShmTypes, HeaderInv, NEW tab, NEW rank, Linked(tab, rank), Resumable(tab), ~InRehash,
           table.hidx \in used.tables, NEW e \in Elems, NEW k, elem[e].key = k
    PROVE  /\ table.hidx \in Live /\ Live = {table.hidx} /\ table.hidx # 0
           /\ getIndex(k, table.cap) = Slot(e, table.hidx)
           /\ Slot(e, table.hidx) \in 0 .. Capacities[table.hidx] - 1
           /\ Slot(e, table.hidx) \in Buckets /\ table.hidx \in Tables
           /\ Head_(k) = idx[table.hidx][Slot(e, table.hidx)]
           /\ stored = {x \in Elems : tab[x] # 0}
           /\ \A x \in Elems : tab[x] # 0 => tab[x] = table.hidx
           /\ table.work = Null
<1>1. Live = {table.hidx} /\ table.hidx \in Tables /\ table.hidx # 0
  BY LiveFacts DEF Live, InRehash
<1>2. Slot(e, table.hidx) \in 0 .. Capacities[table.hidx] - 1
  BY <1>1, LiveFacts
<1>3. Slot(e, table.hidx) \in Buckets
  BY <1>1, <1>2, LiveFacts
<1>4. getIndex(k, table.cap) = Slot(e, table.hidx)
  BY DEF HeaderInv, Slot
<1>5. \A x \in Elems : tab[x] # 0 => tab[x] = table.hidx
  BY <1>1 DEF Linked
<1>6. stored = {x \in Elems : tab[x] # 0} /\ table.work = Null
  BY DEF Resumable
<1> QED
  BY <1>1, <1>2, <1>3, <1>4, <1>5, <1>6 DEF Head_

\* The new element becomes the head of its chain.
LEMMA InsertLinkStep ==
    ASSUME ShmInv, NEW tab, NEW rank, Holds(tab, rank), NEW p \in Procs, InsertLink(p), ~split'
    PROVE  ChainInv'
<1>0. OpSteps(p) /\ ~Unlock(p)
  BY DEF OpSteps, InsertLink, Unlock, At
<1>1. /\ ShmTypes /\ HeaderInv /\ Typed(p) /\ pc \in [Procs -> Labels] /\ loc \in [Procs -> LocType]
      /\ idx \in [Tables -> [Buckets -> Offsets]]
      /\ elem \in [Elems -> ElemType] /\ used \in [elems : SUBSET Elems, tables : SUBSET Tables]
      /\ Linked(tab, rank) /\ Resumable(tab) /\ Knows(p, tab) /\ table.work \in Offsets
      /\ tab \in [Elems -> Live \cup {0}]
  BY <1>0, Inside
<1>2. /\ UNCHANGED <<table, elem, used, loc>> /\ pc[p] = "link" /\ pc'[p] = "incr" /\ ~InRehash
      /\ stored' = stored \cup {loc[p].it}
  BY <1>1 DEF InsertLink, At, Goto
<1>3. PICK e \in Elems : e = loc[p].it
  BY <1>1, <1>2 DEF Knows
<1>4. e \in used.elems \ stored /\ elem[e].key = loc[p].key /\ tab[e] = 0 /\ elem[e].next = Head_(loc[p].key)
  BY <1>1, <1>2, <1>3 DEF Knows, Resumable
<1>5. table.hidx \in used.tables
  BY <1>1, <1>2 DEF Typed
<1>6. PICK t, b : t = table.hidx /\ b = Slot(e, t)
  OBVIOUS
<1>7. /\ t \in Live /\ t # 0 /\ t \in Tables /\ b \in Buckets
      /\ getIndex(loc[p].key, table.cap) = b /\ Head_(loc[p].key) = idx[t][b]
      /\ stored = {x \in Elems : tab[x] # 0} /\ table.work = Null
  BY <1>1, <1>2, <1>4, <1>5, <1>6, AtSlot
<1>8. idx' = [idx EXCEPT ![t][b] = e]
  BY <1>3, <1>6, <1>7 DEF InsertLink
<1> DEFINE tab2 == [tab EXCEPT ![e] = t]
<1>9. PICK rank2 : Linked(tab2, rank2)'
  BY <1>1, <1>2, <1>4, <1>6, <1>7, <1>8, LinkedPush
<1>10. tab2[e] = t /\ \A x \in Elems : x # e => tab2[x] = tab[x]
  BY <1>1
<1> HIDE DEF tab2
<1>11. Resumable(tab2)'
  <2>1. stored' = {x \in Elems : tab2[x] # 0}
    BY <1>2, <1>3, <1>7, <1>10
  <2>2. \A x \in Elems : x # Null
    BY DEF Null
  <2> QED
    BY <1>1, <1>2, <1>3, <1>4, <1>5, <1>7, <2>1, <2>2 DEF Resumable, InRehash
<1>12. Knows(p, tab2)'
  BY <1>2 DEF Knows, NewLabels, MoveLabels, EndLabels, InRehash
<1> QED
  BY <1>0, <1>9, <1>11, <1>12, HoldsOfOne

\* The count has nothing to do with the chains, once the rehash is over.
LEMMA SizeStep ==
    ASSUME ShmInv, NEW tab, NEW rank, Holds(tab, rank), NEW p \in Procs,
           IncrTableSize(p) \/ DecrTableSize(p)
    PROVE  ChainInv'
<1>0. OpSteps(p) /\ ~Unlock(p)
  BY DEF OpSteps, IncrTableSize, DecrTableSize, SetHeader, Unlock, At
<1>1. /\ ShmTypes /\ Typed(p) /\ pc \in [Procs -> Labels] /\ table \in TableType
      /\ Linked(tab, rank) /\ Resumable(tab) /\ Knows(p, tab)
  BY <1>0, Inside
<1>2. /\ UNCHANGED <<idx, elem, used, loc, stored>>
      /\ \/ pc[p] = "incr" /\ pc'[p] = "unlock"
         \/ pc[p] = "decr" /\ pc'[p] = "release"
      /\ \E n : table' = [table EXCEPT !["size"] = n]
  BY <1>1 DEF IncrTableSize, DecrTableSize, SetHeader, At, Goto
<1>3. table'.hidx = table.hidx /\ table'.hidxNew = table.hidxNew /\ table'.work = table.work
  BY <1>1, <1>2 DEF TableType
<1>4. ~InRehash /\ ~InRehash'
  BY <1>1, <1>2, <1>3 DEF Knows, InRehash
<1>5. Linked(tab, rank)'
  BY <1>1, <1>2, <1>3, LinkedKept
<1>6. Resumable(tab)'
  BY <1>1, <1>2, <1>3, <1>4 DEF Resumable, Slot
<1>7. Knows(p, tab)'
  BY <1>1, <1>2, <1>4 DEF Knows, NewLabels, MoveLabels, EndLabels
<1> QED
  BY <1>0, <1>5, <1>6, <1>7, HoldsOfOne

\* The head or the predecessor skips the element.
LEMMA UnlinkStep ==
    ASSUME ShmInv, NEW tab, NEW rank, Holds(tab, rank), NEW p \in Procs, Unlink(p), ~split'
    PROVE  ChainInv'
<1>0. OpSteps(p) /\ ~Unlock(p)
  BY DEF OpSteps, Unlink, Unlock, At
<1>1. /\ ShmTypes /\ HeaderInv /\ Typed(p) /\ pc \in [Procs -> Labels] /\ loc \in [Procs -> LocType]
      /\ idx \in [Tables -> [Buckets -> Offsets]]
      /\ elem \in [Elems -> ElemType] /\ used \in [elems : SUBSET Elems, tables : SUBSET Tables]
      /\ Linked(tab, rank) /\ Resumable(tab) /\ Knows(p, tab) /\ table.work \in Offsets
      /\ tab \in [Elems -> Live \cup {0}] /\ stored \subseteq Elems
  BY <1>0, Inside DEF ShmTypes
<1>2. /\ UNCHANGED <<table, used, loc>> /\ pc[p] = "unlink" /\ pc'[p] = "decr" /\ ~InRehash
      /\ stored' = stored \ {loc[p].it}
  BY <1>1 DEF Unlink, At, Goto
<1>3. PICK e \in Elems : e = loc[p].it
  BY <1>1, <1>2 DEF Knows
<1>4. e \in stored /\ elem[e].key = loc[p].key
  BY <1>1, <1>2, <1>3 DEF Knows
<1>5. table.hidx \in used.tables
  BY <1>1, <1>2 DEF Typed
<1>6. PICK t, b : t = table.hidx /\ b = Slot(e, t)
  OBVIOUS
<1>7. /\ t \in Live /\ t # 0 /\ t \in Tables /\ b \in Buckets /\ b \in 0 .. Capacities[t] - 1
      /\ getIndex(loc[p].key, table.cap) = b /\ Head_(loc[p].key) = idx[t][b]
      /\ stored = {x \in Elems : tab[x] # 0} /\ table.work = Null
      /\ tab[e] = t
  BY <1>1, <1>2, <1>4, <1>5, <1>6, AtSlot
<1> DEFINE tab2 == [tab EXCEPT ![e] = 0]
<1>8. Linked(tab2, rank)'
  <2>1. CASE idx[t][b] = e
    <3>1. idx' = [idx EXCEPT ![t][b] = elem[e].next] /\ elem' = elem
      BY <1>3, <1>6, <1>7, <2>1 DEF Unlink
    <3> QED
      BY <1>1, <1>2, <1>6, <1>7, <2>1, <3>1, LinkedPop
  <2>2. CASE idx[t][b] # e
    <3>1. ChainOf(elem, On(tab, t, b), rank, idx[t][b]) /\ idx[t][b] \in Offsets
      BY <1>1, <1>7, HeadFacts DEF Linked
    <3>2. Chain(idx[t][b]) = On(tab, t, b)
      BY <1>1, <3>1, ChainIs
    <3>3. /\ elem' = [d \in Elems |-> IF d \in {x \in Chain(idx[t][b]) : elem[x].next = e}
                                     THEN [elem[d] EXCEPT !.next = elem[e].next] ELSE elem[d]]
          /\ idx' = idx
      BY <1>3, <1>7, <2>2 DEF Unlink
    <3>4. elem' = [d \in Elems |-> IF d \in On(tab, t, b) /\ elem[d].next = e
                                   THEN [elem[d] EXCEPT !.next = elem[e].next] ELSE elem[d]]
      BY <3>2, <3>3
    <3>5. /\ ShmTypes /\ Linked(tab, rank) /\ table' = table /\ idx' = idx
          /\ t \in Live /\ tab[e] = t /\ b = Slot(e, t) /\ idx[t][b] # e
      BY <1>1, <1>2, <1>6, <1>7, <2>2, <3>3
    <3> HIDE DEF tab2
    <3>6. Linked([tab EXCEPT ![e] = 0], rank)'
      BY ONLY <3>4, <3>5, LinkedRemove, e \in Elems, SMTT(30)
    <3> QED
      BY <3>6 DEF tab2
  <2> QED
    BY <2>1, <2>2
<1>9. tab2[e] = 0 /\ \A x \in Elems : x # e => tab2[x] = tab[x]
  BY <1>1
<1> HIDE DEF tab2
<1>10. Resumable(tab2)'
  <2>1. stored' = {x \in Elems : tab2[x] # 0}
    BY <1>2, <1>3, <1>7, <1>9
  <2>2. \A x \in Elems : x # Null
    BY DEF Null
  <2> QED
    BY <1>1, <1>2, <1>5, <1>7, <2>1, <2>2 DEF Resumable, InRehash
<1>11. Knows(p, tab2)'
  BY <1>2 DEF Knows, NewLabels, MoveLabels, EndLabels, InRehash
<1> QED
  BY <1>0, <1>8, <1>10, <1>11, HoldsOfOne

\* The element that is given back is in no chain.
LEMMA ReleaseStep ==
    ASSUME ShmInv, NEW tab, NEW rank, Holds(tab, rank), NEW p \in Procs, Release(p)
    PROVE  ChainInv'
<1>0. OpSteps(p) /\ ~Unlock(p)
  BY DEF OpSteps, Release, Unlock, At
<1>1. /\ ShmTypes /\ Typed(p) /\ pc \in [Procs -> Labels] /\ loc \in [Procs -> LocType]
      /\ elem \in [Elems -> ElemType] /\ used \in [elems : SUBSET Elems, tables : SUBSET Tables]
      /\ Linked(tab, rank) /\ Resumable(tab) /\ Knows(p, tab)
  BY <1>0, Inside
<1>2. /\ UNCHANGED <<table, idx, stored>> /\ pc[p] = "release" /\ pc'[p] \in {"insert", "unlock"}
      /\ used' = [used EXCEPT !.elems = @ \ {loc[p].it}]
      /\ elem' = [elem EXCEPT ![loc[p].it] = FreeElem]
  BY <1>1 DEF Release, At, Goto
<1>3. PICK e \in Offsets : e = loc[p].it
  BY <1>1 DEF LocType
<1>4. e \notin stored /\ ~InRehash /\ (e \in Elems => tab[e] = 0)
  BY <1>1, <1>2, <1>3 DEF Knows, Resumable
<1>5. /\ used'.elems = used.elems \ {e} /\ used'.tables = used.tables
      /\ \A x \in Elems : x # e => elem'[x] = elem[x]
  BY <1>1, <1>2, <1>3
<1>6. \A x \in Elems : tab[x] # 0 => elem'[x] = elem[x]
  BY <1>4, <1>5
<1>7. Linked(tab, rank)'
  BY <1>1, <1>2, <1>6, LinkedKept
<1>8. Resumable(tab)'
  BY <1>1, <1>2, <1>4, <1>5, <1>6 DEF Resumable, InRehash, Slot
<1>9. Knows(p, tab)'
  BY <1>2 DEF Knows, NewLabels, MoveLabels, EndLabels
<1> QED
  BY <1>0, <1>7, <1>8, <1>9, HoldsOfOne

LEMMA InitChains == Init => ChainInv
<1> SUFFICES ASSUME Init PROVE ChainInv
  OBVIOUS
<1>1. ShmTypes
  BY InitShm DEF ShmInv
<1> DEFINE zero == [e \in Elems |-> 0]
<1>2. zero \in [Elems -> Live \cup {0}] /\ zero \in [Elems -> Nat] /\ \A e \in Elems : zero[e] = 0
  OBVIOUS
<1> HIDE DEF zero
<1>3. /\ table.hidx = 1 /\ table.hidxNew = 1 /\ table.work = Null /\ ~InRehash
      /\ stored = {} /\ used.tables = {1}
  BY DEF Init, InRehash
<1>4. ASSUME NEW t \in Live, NEW b \in 0 .. Capacities[t] - 1
      PROVE  ChainOf(elem, On(zero, t, b), zero, idx[t][b])
  <2>1. t \in Tables /\ t # 0 /\ b \in Buckets
    BY <1>1, LiveFacts
  <2>2. On(zero, t, b) = {}
    BY <1>2, <2>1 DEF On
  <2>3. idx[t][b] = Null
    BY <2>1 DEF Init, Zeroed, Buckets, MaxCap
  <2> QED
    BY <1>2, <2>2, <2>3 DEF ChainOf, Top
<1>5. Linked(zero, zero)
  BY <1>2, <1>4 DEF Linked
<1>6. Resumable(zero)
  BY <1>2, <1>3 DEF Resumable
<1>7. \A p \in Procs : ~InSection(p)
  BY DEF Init, InSection
<1>8. Holds(zero, zero)
  BY <1>5, <1>6, <1>7 DEF Holds
<1> QED
  BY <1>8 DEF ChainInv

LEMMA ChainsKept == ~split' /\ ShmInv /\ ChainInv /\ [Next]_vars => ChainInv'
<1> SUFFICES ASSUME ~split', ShmInv, ChainInv, [Next]_vars PROVE ChainInv'
  OBVIOUS
<1>1. PICK tab, rank : Holds(tab, rank)
  BY DEF ChainInv
<1>2. CASE UNCHANGED vars
  <2>1. UNCHANGED <<lock, table, idx, elem, used, pc, loc, stored, crashes>>
    BY <1>2 DEF vars
  <2>2. Linked(tab, rank)' /\ Resumable(tab)'
    BY <1>1, <2>1, LinkedKept, ResumableKept DEF Holds, ShmInv
  <2>3. \A p \in Procs : InSection(p)' => Knows(p, tab)'
    <3> SUFFICES ASSUME NEW p \in Procs, InSection(p)' PROVE Knows(p, tab)'
      OBVIOUS
    <3>1. Knows(p, tab)
      BY <1>1, <2>1 DEF Holds, InSection
    <3>2. /\ NewTable' = NewTable /\ FirstFrom(0)' = FirstFrom(0)
          /\ Next_(loc[p].it)' = Next_(loc[p].it) /\ InRehash' = InRehash
      BY <2>1 DEF NewTable, NextCap, FirstFrom, Next_, InRehash
    <3>3. /\ NewHead(elem[table.work].key)' = NewHead(elem[table.work].key)
          /\ Head_(loc[p].key)' = Head_(loc[p].key)
      BY <2>1 DEF NewHead, Head_
    <3> QED
      BY <2>1, <3>1, <3>2, <3>3 DEF Knows
  <2>4. Holds(tab, rank)'
    BY <2>2, <2>3 DEF Holds
  <2> QED
    BY <2>4 DEF ChainInv
<1>3. CASE Next
  <2>1. PICK p \in Procs : OutSteps(p) \/ RehashSteps(p) \/ (OpSteps(p) /\ ~Unlock(p))
    BY <1>3, StepCases
  <2>2. CASE OutSteps(p)
    BY <1>1, <2>2, HoldsOutside
  <2>3. CASE RehashSteps(p)
    BY <1>1, <2>3, RehashStep, NewTableStep, RedoOldStep, MoveOldStep, LinkNextStep, PutOnStep,
       BeginWorkStep, WorkStep, EndStep DEF RehashSteps
  <2>4. CASE OpSteps(p) /\ ~Unlock(p)
    BY <1>1, <2>4, ReadStep, AllocStep, InsertNextStep, InsertLinkStep, SizeStep, UnlinkStep,
       ReleaseStep DEF OpSteps
  <2> QED
    BY <2>1, <2>2, <2>3, <2>4
<1> QED
  BY <1>2, <1>3

\* The chains are lists between any two stores, as long as nobody has changed a table that
\* is half moved.
ChainSafe == ~split => ChainInv

THEOREM ChainsHold == Spec => []ChainSafe
<1>1. Init => ChainSafe
  BY InitChains DEF ChainSafe
<1>2. ShmInv /\ ChainSafe /\ [Next]_vars => ChainSafe'
  <2> SUFFICES ASSUME ShmInv, ChainSafe, [Next]_vars, ~split' PROVE ChainInv'
    BY DEF ChainSafe
  <2>1. ~split
    BY SplitSteps
  <2> QED
    BY <2>1, ChainsKept DEF ChainSafe
<1> QED
  BY <1>1, <1>2, ShmInvHolds, PTL DEF Spec

-----------------------------------------------------------------------------
(***************************************************************************)
(* What the chains hold.                                                   *)
(***************************************************************************)

LEMMA TableHolds ==
    ASSUME ShmTypes, NEW tab, NEW rank, Linked(tab, rank), NEW t \in Live
    PROVE  WellLinked(t) /\ InTable(t) = {e \in Elems : tab[e] = t}
<1>1. t \in Tables
  BY LiveFacts
<1>2. ASSUME NEW b \in 0 .. Capacities[t] - 1
      PROVE  Nth(idx[t][b], Cardinality(Elems)) = Null /\ Bucket(t, b) = On(tab, t, b)
  <2>1. ChainOf(elem, On(tab, t, b), rank, idx[t][b]) /\ idx[t][b] \in Offsets
    BY HeadFacts DEF Linked
  <2> QED
    BY <2>1, ChainIs DEF Bucket
<1>3. WellLinked(t)
  BY <1>2 DEF WellLinked, On, Slot
<1>4. ASSUME NEW e \in Elems, tab[e] = t PROVE e \in InTable(t)
  <2>1. Slot(e, t) \in 0 .. Capacities[t] - 1
    BY <1>1, LiveFacts
  <2>2. e \in Bucket(t, Slot(e, t))
    BY <1>2, <1>4, <2>1 DEF On
  <2> QED
    BY <2>1, <2>2 DEF InTable
<1>5. ASSUME NEW e \in InTable(t) PROVE e \in Elems /\ tab[e] = t
  <2>1. PICK b \in 0 .. Capacities[t] - 1 : e \in Bucket(t, b)
    BY DEF InTable
  <2> QED
    BY <1>2, <2>1 DEF On
<1> QED
  BY <1>3, <1>4, <1>5

\* Whichever store of an insertion, a removal or a rehash a process dies at, no entry is
\* lost or on two chains, and no chain has a cycle: the next owner can finish the rehash.
\* That is until the process that took the lock over changes the half moved table.
THEOREM NothingLost == Spec => []Intact
<1>1. ShmInv /\ ChainSafe => Intact
  <2> SUFFICES ASSUME ShmInv, ChainSafe, ~split PROVE Intact
    BY DEF Intact
  <2>0. ChainInv
    BY DEF ChainSafe
  <2>1. ShmTypes
    BY DEF ShmInv
  <2>2. PICK tab, rank : Linked(tab, rank) /\ Resumable(tab)
    BY <2>0 DEF ChainInv, Holds
  <2>3. /\ WellLinked(table.hidx) /\ InTable(table.hidx) = {e \in Elems : tab[e] = table.hidx}
        /\ WellLinked(table.hidxNew)
        /\ InTable(table.hidxNew) = {e \in Elems : tab[e] = table.hidxNew}
    BY <2>1, <2>2, TableHolds DEF Live
  <2>4. \A e \in Elems : tab[e] # 0 <=> tab[e] \in {table.hidx, table.hidxNew}
    BY <2>1, <2>2, LiveFacts DEF Linked, Live
  <2>5. CASE InRehash
    <3>1. stored = {e \in Elems : tab[e] # 0} \cup ({table.work} \ {Null}) /\ stored \subseteq used.elems
      BY <2>2, <2>5 DEF Resumable
    <3>2. InTable(table.hidx) \cap InTable(table.hidxNew) = {}
      BY <2>3, <2>5 DEF InRehash
    <3>3. InTable(table.hidx) \cup InTable(table.hidxNew) = {e \in Elems : tab[e] # 0}
      BY <2>3, <2>4
    <3> QED
      BY <2>3, <2>5, <3>1, <3>2, <3>3 DEF Intact
  <2>6. CASE ~InRehash
    BY <2>2, <2>3, <2>4, <2>6 DEF Intact, Resumable, InRehash
  <2> QED
    BY <2>5, <2>6
<1> QED
  BY <1>1, ShmInvHolds, ChainsHold, PTL

\* Outside of a rehash, find2() finds the entry of a key exactly when the table has one,
\* until a process that took the lock over has changed a half moved table.
THEOREM LookupsWork == Spec => []LookupWorks
<1>1. ChainSafe => LookupWorks
  <2> SUFFICES ASSUME ChainSafe, NEW p \in Procs, ~split, At(p, "found"), ~InRehash
               PROVE  IF loc[p].it = Null THEN \A e \in stored : elem[e].key # loc[p].key
                      ELSE loc[p].it \in stored /\ elem[loc[p].it].key = loc[p].key
    BY DEF LookupWorks
  <2>1. PICK tab, rank : Holds(tab, rank)
    BY DEF ChainSafe, ChainInv
  <2>2. pc[p] = "found" /\ InSection(p)
    BY DEF At, InSection
  <2>3. Knows(p, tab)
    BY <2>1, <2>2 DEF Holds
  <2> QED
    BY <2>2, <2>3 DEF Knows
<1> QED
  BY <1>1, ChainsHold, PTL

-----------------------------------------------------------------------------
(***************************************************************************)
(* The count of the entries.  The process between its store to a chain and *)
(* the one to the count owes it one; who dies there leaves the debt.       *)
(***************************************************************************)

\* Counting up or down by one wraps as the sum does.
LEMMA NextRemainder ==
    ASSUME NEW m \in Nat \ {0}, NEW n \in Int
    PROVE  /\ ((n % m) + 1) % m = (n + 1) % m
           /\ ((n % m) - 1) % m = (n - 1) % m
<1>1. PICK q \in Int, r \in 0 .. m - 1 : r = n % m /\ n = m * q + r
  BY DivMod
<1>2. /\ m * q \in Int /\ m * (q + 1) = m * q + m /\ m * (q - 1) = m * q - m
      /\ m * 0 = 0 /\ m * 1 = m /\ m * (-1) = -m
  OBVIOUS
<1>3. (r + 1) % m = (n + 1) % m
  <2>1. PICK c \in {0, 1}, s \in 0 .. m - 1 : r + 1 = m * c + s
    <3>1. r + 1 \in 0 .. m - 1 \/ r + 1 = m + 0
      OBVIOUS
    <3>2. 0 \in 0 .. m - 1
      OBVIOUS
    <3>3. r + 1 \in 0 .. m - 1 => r + 1 = m * 0 + (r + 1)
      BY <1>2
    <3>4. r + 1 = m + 0 => r + 1 = m * 1 + 0
      BY <1>2
    <3> QED
      BY <3>1, <3>2, <3>3, <3>4
  <2>2. m * (q + c) = m * q + m * c /\ m * c \in Int
    BY <1>2, <2>1
  <2>3. n + 1 = m * (q + c) + s /\ n + 1 \in Int /\ r + 1 \in Int /\ q + c \in Int /\ c \in Int
    BY <1>1, <1>2, <2>1, <2>2
  <2>4. (n + 1) % m = s /\ (r + 1) % m = s
    BY <2>1, <2>3, Remainder
  <2> QED
    BY <2>4
<1>4. (r - 1) % m = (n - 1) % m
  <2>1. PICK c \in {0, -1}, s \in 0 .. m - 1 : r - 1 = m * c + s
    <3>1. r - 1 \in 0 .. m - 1 \/ r - 1 = -m + (m - 1)
      OBVIOUS
    <3>2. m - 1 \in 0 .. m - 1
      OBVIOUS
    <3>3. r - 1 \in 0 .. m - 1 => r - 1 = m * 0 + (r - 1)
      BY <1>2
    <3>4. r - 1 = -m + (m - 1) => r - 1 = m * (-1) + (m - 1)
      BY <1>2
    <3> QED
      BY <3>1, <3>2, <3>3, <3>4
  <2>2. m * (q + c) = m * q + m * c /\ m * c \in Int
    BY <1>2, <2>1
  <2>3. n - 1 = m * (q + c) + s /\ n - 1 \in Int /\ r - 1 \in Int /\ q + c \in Int /\ c \in Int
    BY <1>1, <1>2, <2>1, <2>2
  <2>4. (n - 1) % m = s /\ (r - 1) % m = s
    BY <2>1, <2>3, Remainder
  <2> QED
    BY <2>4
<1> QED
  BY <1>1, <1>3, <1>4

LEMMA WrapNext == \A n \in Int : Wrap(Wrap(n) + 1) = Wrap(n + 1) /\ Wrap(Wrap(n) - 1) = Wrap(n - 1)
<1> DEFINE m == 2^SizeBits
<1>1. m \in Nat \ {0}
  OBVIOUS
<1> HIDE DEF m
<1>2. \A n \in Int : ((n % m) + 1) % m = (n + 1) % m /\ ((n % m) - 1) % m = (n - 1) % m
  BY <1>1, NextRemainder
<1> QED
  BY <1>2 DEF Wrap, m

Off(c, x) == \E d \in -c .. c : table.size = Wrap(Cardinality(stored) + d + x)

Owed == IF \E p \in Procs : pc[p] = "incr" THEN -1
        ELSE IF \E p \in Procs : pc[p] = "decr" THEN 1 ELSE 0

DriftInv == Off(crashes, Owed)

LEMMA StoredFacts ==
    ASSUME ShmTypes
    PROVE  IsFiniteSet(stored) /\ Cardinality(stored) \in Nat /\ crashes \in Nat
<1>1. stored \subseteq Elems /\ crashes \in 0 .. MaxCrashes
  BY DEF ShmTypes
<1>2. IsFiniteSet(stored)
  BY <1>1, FS_Subset
<1>3. Cardinality(stored) \in Nat
  BY <1>2, FS_CardinalityType
<1> QED
  BY <1>1, <1>2, <1>3

\* What the owner of the lock owes is all that is owed.
LEMMA OwedByOne ==
    ASSUME ShmInv, NEW p \in Procs, InSection(p)
    PROVE  Owed = IF pc[p] = "incr" THEN -1 ELSE IF pc[p] = "decr" THEN 1 ELSE 0
<1>1. \A q \in Procs : InSection(q) => q = p
  BY Alone DEF ShmInv
<1>2. \A q \in Procs : pc[q] \in {"incr", "decr"} => InSection(q)
  BY DEF InSection
<1> QED
  BY <1>1, <1>2 DEF Owed

LEMMA OwedThen ==
    ASSUME ShmInv', NEW p \in Procs, InSection(p)'
    PROVE  Owed' = IF pc'[p] = "incr" THEN -1 ELSE IF pc'[p] = "decr" THEN 1 ELSE 0
<1>1. \A q \in Procs : InSection(q)' => q = p
  BY DEF ShmInv, LockInv, MutualExclusion
<1>2. \A q \in Procs : pc'[q] \in {"incr", "decr"} => InSection(q)'
  BY DEF InSection
<1> QED
  BY <1>1, <1>2 DEF Owed

\* The steps that leave the entries and their count alone.
LEMMA QuietSteps ==
    ASSUME ShmInv, NEW p \in Procs, RehashSteps(p) \/ (OpSteps(p) /\ ~Unlock(p)),
           ~InsertLink(p), ~Unlink(p), ~IncrTableSize(p), ~DecrTableSize(p)
    PROVE  /\ stored' = stored /\ table'.size = table.size
           /\ pc[p] \notin {"incr", "decr"} /\ pc'[p] \notin {"incr", "decr"}
<1>1. pc \in [Procs -> Labels] /\ table \in TableType /\ TypedInv
  BY DEF ShmInv, ShmTypes
<1>2. CASE RehashSteps(p)
  <2>1. stored' = stored /\ pc[p] \notin {"incr", "decr"}
    BY <1>2 DEF RehashSteps, Rehash, SetCapNew, SetHIdxNew, RedoOld, RedoNext, RedoNew, BeginWork, Work,
       MoveOld, MoveNext, MoveNew, WorkDone, ReleaseOld, SetCapacity, SetHIdx, SetHeader, TakeOff,
       LinkNext, PutOn, At, shared
  <2>2. CASE Rehash(p) \/ SetCapNew(p) \/ SetHIdxNew(p) \/ WorkDone(p) \/ SetCapacity(p) \/ Work(p)
    BY <1>1, <2>1, <2>2 DEF Rehash, SetCapNew, SetHIdxNew, WorkDone, SetCapacity, Work, SetHeader,
       Goto, TableType
  <2>3. CASE \/ RedoOld(p) \/ RedoNext(p) \/ RedoNew(p) \/ BeginWork(p) \/ MoveOld(p) \/ MoveNext(p)
             \/ MoveNew(p) \/ ReleaseOld(p)
    BY <1>1, <2>1, <2>3 DEF RedoOld, RedoNext, RedoNew, BeginWork, MoveOld, MoveNext, MoveNew,
       ReleaseOld, TakeOff, LinkNext, PutOn, Goto, shared
  <2>4. CASE SetHIdx(p)
    <3>1. /\ pc[p] = "hidx" /\ pc'[p] = loc[p].from
          /\ table' = [table EXCEPT !["hidx"] = table.hidxNew]
      BY <1>1, <2>4 DEF SetHIdx, SetHeader, At, Goto
    <3>2. loc[p].from \in {"find", "alloc"}
      BY <1>1, <3>1 DEF TypedInv, Typed, InSection, LoopLabels, EndLabels
    <3> QED
      BY <1>1, <2>1, <3>1, <3>2 DEF TableType
  <2> QED
    BY <1>2, <2>2, <2>3, <2>4 DEF RehashSteps
<1>3. CASE OpSteps(p) /\ ~Unlock(p)
  <2>1. Locked(p) \/ FindStep(p) \/ Found(p) \/ InsertCopy(p) \/ AllocIter(p) \/ InsertNext(p) \/ Release(p)
    BY <1>3 DEF OpSteps
  <2> QED
    BY <1>1, <2>1 DEF Locked, FindStep, Found, InsertCopy, AllocIter, InsertNext, Release, At, Goto, shared
<1> QED
  BY <1>2, <1>3

\* Linking an entry and counting it are two stores: the debt is between them.
LEMMA DriftKept ==
    ~split' /\ ShmInv /\ ShmInv' /\ ChainInv /\ DriftInv /\ [Next]_vars => DriftInv'
<1> SUFFICES ASSUME ~split', ShmInv, ShmInv', ChainInv, DriftInv, [Next]_vars PROVE DriftInv'
  OBVIOUS
<1>1. /\ IsFiniteSet(stored) /\ Cardinality(stored) \in Nat /\ crashes \in Nat
      /\ stored \subseteq Elems /\ pc \in [Procs -> Labels]
  BY StoredFacts DEF ShmInv, ShmTypes
<1>2. PICK d \in -crashes .. crashes : table.size = Wrap(Cardinality(stored) + d + Owed)
  BY DEF DriftInv, Off
<1>3. Owed \in Int /\ d \in Int
  BY <1>1 DEF Owed
<1>4. CASE UNCHANGED vars
  BY <1>4 DEF vars, DriftInv, Off, Owed
<1>5. CASE Next
  <2>1. PICK p \in Procs : OutSteps(p) \/ RehashSteps(p) \/ (OpSteps(p) /\ ~Unlock(p))
    BY <1>5, StepCases
  <2>2. CASE OutSteps(p) /\ ~Crash(p)
    <3>1. UNCHANGED <<table, stored, crashes>> /\ pc[p] \notin {"incr", "decr"}
      BY <2>2 DEF OutSteps, LockSteps, Start, TryLock, Probe, TakeOver, Unlock, At, shared
    <3>2. pc'[p] \notin {"incr", "decr"} /\ \A q \in Procs : q # p => pc'[q] = pc[q]
      BY <1>1, <2>2 DEF OutSteps, LockSteps, Start, TryLock, Probe, TakeOver, Unlock, Goto
    <3>3. Owed' = Owed
      BY <3>1, <3>2 DEF Owed
    <3> QED
      BY <3>1, <3>3 DEF DriftInv, Off
  <2>3. CASE Crash(p)
    <3>1. /\ UNCHANGED <<table, stored>> /\ crashes' = crashes + 1 /\ pc'[p] = "dead"
          /\ \A q \in Procs : q # p => pc'[q] = pc[q]
      BY <1>1, <2>3 DEF Crash, Goto
    <3>2. CASE pc[p] \in {"incr", "decr"}
      <4>1. InSection(p)
        BY <3>2 DEF InSection
      <4>2. Owed \in {-1, 1}
        BY <3>2, <4>1, OwedByOne
      <4>3. \A q \in Procs : InSection(q) => q = p
        BY <4>1, Alone DEF ShmInv
      <4>4. Owed' = 0
        BY <3>1, <4>3 DEF Owed, InSection
      <4>5. d + Owed \in -(crashes') .. crashes'
        BY <1>1, <3>1, <4>2
      <4>6. Cardinality(stored) + d + Owed = Cardinality(stored) + (d + Owed) + 0
        BY <1>1, <1>3
      <4> QED
        BY <1>2, <3>1, <4>4, <4>5, <4>6 DEF DriftInv, Off
    <3>3. CASE pc[p] \notin {"incr", "decr"}
      <4>1. Owed' = Owed
        BY <3>1, <3>3 DEF Owed
      <4>2. d \in -(crashes') .. crashes'
        BY <1>1, <3>1
      <4> QED
        BY <1>2, <3>1, <4>1, <4>2 DEF DriftInv, Off
    <3> QED
      BY <3>2, <3>3
  <2>4. CASE RehashSteps(p) \/ (OpSteps(p) /\ ~Unlock(p))
    <3>1. InSection(p) /\ InSection(p)' /\ crashes' = crashes
      BY <2>4, SectionShape
    <3>2. /\ Owed = IF pc[p] = "incr" THEN -1 ELSE IF pc[p] = "decr" THEN 1 ELSE 0
          /\ Owed' = IF pc'[p] = "incr" THEN -1 ELSE IF pc'[p] = "decr" THEN 1 ELSE 0
      BY <3>1, OwedByOne, OwedThen
    <3>3. PICK tab, rank : Holds(tab, rank)
      BY DEF ChainInv
    <3>4. Knows(p, tab)
      BY <3>1, <3>3 DEF Holds
    <3>5. table \in TableType
      BY DEF ShmInv, ShmTypes
    <3>6. CASE InsertLink(p)
      <4>1. /\ pc[p] = "link" /\ pc'[p] = "incr" /\ table' = table
            /\ stored' = stored \cup {loc[p].it} /\ loc[p].it \notin stored
        BY <1>1, <3>4, <3>6 DEF InsertLink, At, Goto, Knows
      <4>2. Cardinality(stored') = Cardinality(stored) + 1
        BY <1>1, <4>1, FS_AddElement
      <4>3. Cardinality(stored) + d + Owed = Cardinality(stored') + d + Owed'
        BY <1>1, <1>3, <3>2, <4>1, <4>2
      <4> QED
        BY <1>2, <3>1, <4>1, <4>3 DEF DriftInv, Off
    <3>7. CASE Unlink(p)
      <4>1. /\ pc[p] = "unlink" /\ pc'[p] = "decr" /\ table' = table
            /\ stored' = stored \ {loc[p].it} /\ loc[p].it \in stored
        BY <1>1, <3>4, <3>7 DEF Unlink, At, Goto, Knows
      <4>2. Cardinality(stored') = Cardinality(stored) - 1
        BY <1>1, <4>1, FS_RemoveElement
      <4>3. Cardinality(stored) + d + Owed = Cardinality(stored') + d + Owed'
        BY <1>1, <1>3, <3>2, <4>1, <4>2
      <4> QED
        BY <1>2, <3>1, <4>1, <4>3 DEF DriftInv, Off
    <3>8. CASE IncrTableSize(p)
      <4>1. /\ pc[p] = "incr" /\ pc'[p] = "unlock" /\ stored' = stored
            /\ table' = [table EXCEPT !["size"] = Wrap(table.size + 1)]
        BY <1>1, <3>8 DEF IncrTableSize, SetHeader, At, Goto
      <4>2. table'.size = Wrap(table.size + 1) /\ Owed = -1 /\ Owed' = 0
        BY <3>2, <3>5, <4>1 DEF TableType
      <4>3. PICK n \in Int : n = Cardinality(stored) + d + Owed
        BY <1>1, <1>3
      <4>4. Wrap(Wrap(n) + 1) = Wrap(n + 1)
        BY WrapNext
      <4>5. n + 1 = Cardinality(stored) + d + 0
        BY <1>1, <1>3, <4>2, <4>3
      <4> QED
        BY <1>2, <3>1, <4>1, <4>2, <4>3, <4>4, <4>5 DEF DriftInv, Off
    <3>9. CASE DecrTableSize(p)
      <4>1. /\ pc[p] = "decr" /\ pc'[p] = "release" /\ stored' = stored
            /\ table' = [table EXCEPT !["size"] = Wrap(table.size - 1)]
        BY <1>1, <3>9 DEF DecrTableSize, SetHeader, At, Goto
      <4>2. table'.size = Wrap(table.size - 1) /\ Owed = 1 /\ Owed' = 0
        BY <3>2, <3>5, <4>1 DEF TableType
      <4>3. PICK n \in Int : n = Cardinality(stored) + d + Owed
        BY <1>1, <1>3
      <4>4. Wrap(Wrap(n) - 1) = Wrap(n - 1)
        BY WrapNext
      <4>5. n - 1 = Cardinality(stored) + d + 0
        BY <1>1, <1>3, <4>2, <4>3
      <4> QED
        BY <1>2, <3>1, <4>1, <4>2, <4>3, <4>4, <4>5 DEF DriftInv, Off
    <3>10. CASE ~InsertLink(p) /\ ~Unlink(p) /\ ~IncrTableSize(p) /\ ~DecrTableSize(p)
      <4>1. stored' = stored /\ pc[p] \notin {"incr", "decr"} /\ pc'[p] \notin {"incr", "decr"}
        BY <2>4, <3>10, QuietSteps
      <4>2. table'.size = table.size
        BY <2>4, <3>10, QuietSteps
      <4> QED
        BY <3>1, <3>2, <4>1, <4>2 DEF DriftInv, Off
    <3> QED
      BY <3>6, <3>7, <3>8, <3>9, <3>10
  <2> QED
    BY <2>1, <2>2, <2>3, <2>4
<1> QED
  BY <1>4, <1>5

DriftSafe == ~split => DriftInv

\* x_iSize is the number of entries, give or take one for each process that died, until a
\* process that took the lock over has changed a half moved table.
THEOREM SizeDrifts == Spec => []SizeDrift
<1>1. Init => DriftSafe
  <2> SUFFICES ASSUME Init PROVE DriftInv
    BY DEF DriftSafe
  <2>1. table.size = 0 /\ stored = {} /\ crashes = 0 /\ Owed = 0
    BY DEF Init, Owed
  <2>2. Cardinality(stored) = 0
    BY <2>1, FS_EmptySet
  <2>3. Wrap(0) = 0
    <3>1. \A m \in Nat \ {0} : 0 % m = 0
      OBVIOUS
    <3> QED
      BY <3>1 DEF Wrap
  <2>4. 0 \in -crashes .. crashes /\ Cardinality(stored) + 0 + Owed = 0
    BY <2>1, <2>2
  <2> QED
    BY <2>1, <2>3, <2>4 DEF DriftInv, Off
<1>2. ShmInv /\ DriftSafe => SizeDrift
  <2> SUFFICES ASSUME ShmInv, DriftSafe, ~split, lock = LS_LOCK_AVAIL PROVE SizeDrift
    BY DEF SizeDrift
  <2>1. \A p \in Procs : ~InSection(p)
    BY DEF ShmInv, LockInv, MutualExclusion, LS_LOCK_AVAIL, LS_SPIN_MIN_PID
  <2>2. Owed = 0
    BY <2>1 DEF Owed, InSection
  <2>3. Cardinality(stored) \in Nat /\ crashes \in Nat
    BY StoredFacts DEF ShmInv, ShmTypes
  <2>4. PICK d \in -crashes .. crashes : table.size = Wrap(Cardinality(stored) + d + 0)
    BY <2>2 DEF DriftSafe, DriftInv, Off
  <2>5. Cardinality(stored) + d + 0 = Cardinality(stored) + d
    BY <2>3
  <2> QED
    BY <2>4, <2>5 DEF SizeDrift
<1>3. ShmInv /\ ShmInv' /\ ChainSafe /\ DriftSafe /\ [Next]_vars => DriftSafe'
  <2> SUFFICES ASSUME ShmInv, ShmInv', ChainSafe, DriftSafe, [Next]_vars, ~split' PROVE DriftInv'
    BY DEF DriftSafe
  <2>1. ~split
    BY SplitSteps
  <2> QED
    BY <2>1, DriftKept DEF ChainSafe, DriftSafe
<1>4. Spec => []DriftSafe
  BY <1>1, <1>3, ShmInvHolds, ChainsHold, PTL DEF Spec
<1> QED
  BY <1>2, <1>4, ShmInvHolds, PTL
=============================================================================
