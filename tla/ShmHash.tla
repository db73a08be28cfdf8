------------------------------- MODULE ShmHash -------------------------------
(***************************************************************************)
(* A hash table in shared memory (LsShmHash) and the lock that protects it *)
(* (ls_atomic_spin_pidlock): processes insert, remove and rehash, and any  *)
(* of them may die between two stores.  The lock word holds the process id *)
(* of its owner; a waiter that finds the owner dead takes the lock over.   *)
(* The next owner resumes a rehash that was interrupted.                   *)
(*                                                                         *)
(* One step is one store to shared memory, with the reads before it.  The  *)
(* table has no bloom bitmap (it is below MINSZ_FOR_BITMAP) and no LRU     *)
(* list.  The allocator (LsShmPool) is atomic.  Hash keys are numbers, and *)
(* an element's key is its hash key.                                       *)
(***************************************************************************)
EXTENDS Integers, Sequences, FiniteSets

CONSTANTS
    Procs,       \* process ids
    Keys,        \* hash keys
    Elems,       \* offsets of the elements the pool can hand out
    Capacities,  \* stand-in for s_primeList: the capacities a table grows through
    FullFactor,  \* x_iFullFactor
    SizeBits,    \* stand-in for 32: the width of x_iSize
    MaxCrashes   \* bound: processes that die

LS_LOCK_AVAIL   == 0
LS_SPIN_MIN_PID == 10
Null            == 0       \* offset 0

ASSUME ProcAssumption == Procs \subseteq Nat /\ \A p \in Procs : p >= LS_SPIN_MIN_PID
ASSUME ElemAssumption == Elems \subseteq Nat \ {0} /\ IsFiniteSet(Elems) /\ Keys \subseteq Nat
ASSUME CapacityAssumption ==
    /\ Capacities \in Seq(Nat \ {0}) /\ Capacities # <<>>
    /\ \A i, j \in 1..Len(Capacities) : i < j => Capacities[i] < Capacities[j]
ASSUME FactorAssumption ==
    /\ FullFactor \in Nat \ {0} /\ SizeBits \in Nat \ {0} /\ MaxCrashes \in Nat
    /\ 2^SizeBits \in Nat \ {0}

Wrap(n) == n % 2^SizeBits
Tables == 1..Len(Capacities)    \* one index array per capacity

VARIABLES
    lock,     \* the lock word
    table,    \* LsShmHTable
    idx,      \* the index arrays: table -> bucket -> first element
    elem,     \* LsShmHElem: x_iNext, x_hkey
    used,     \* elements and index arrays that are allocated
    pc,       \* process -> what it does next
    loc,      \* process -> its local variables
    stored,   \* history: elements that were linked and have not been unlinked
    split,    \* history: an element was linked or unlinked while the table was half moved
    crashes   \* processes that died

vars == <<lock, table, idx, elem, used, pc, loc, stored, split, crashes>>
shared == <<table, idx, elem, used, stored, split, crashes>>

Offsets == Elems \cup {Null}
Labels ==
    {"idle", "dead", "lock", "probe", "takeover", "locked", "find", "found", "unlock",
     "rehash", "capNew", "hidxNew", "redoOld", "redoNext", "redoNew", "begin", "work",
     "mvOld", "mvNext", "mvNew", "workDone", "releaseOld", "capacity", "hidx",
     "insert", "alloc", "next", "link", "incr", "unlink", "decr", "release"}

NoLocals == [op |-> "none", key |-> 0, waitpid |-> 0, ret |-> 0, it |-> Null,
             nx |-> Null, from |-> "none"]

TypeOK ==
    /\ lock \in Procs \cup {LS_LOCK_AVAIL}
    /\ table \in [hidx : Tables, hidxNew : Tables, cap : Nat, capNew : Nat, work : Offsets,
                  size : 0..2^SizeBits - 1]
    /\ idx \in [Tables -> [0..Capacities[Len(Capacities)] - 1 -> Offsets]]
    /\ elem \in [Elems -> [next : Offsets, key : Keys \cup {0}]]
    /\ used.elems \subseteq Elems /\ used.tables \subseteq Tables
    /\ pc \in [Procs -> Labels]
    /\ \A p \in Procs : loc[p].it \in Offsets /\ loc[p].nx \in Offsets
    /\ stored \subseteq Elems /\ split \in BOOLEAN
    /\ crashes \in 0..MaxCrashes

FreeElem == [next |-> Null, key |-> 0]     \* what is left in a released element
Zeroed == [b \in 0..Capacities[Len(Capacities)] - 1 |-> Null]

\* LsShmHash::allocHTable()
Init ==
    /\ lock = LS_LOCK_AVAIL
    /\ table = [hidx |-> 1, hidxNew |-> 1, cap |-> Capacities[1], capNew |-> 0, work |-> Null,
                size |-> 0]
    /\ idx = [t \in Tables |-> Zeroed]
    /\ elem = [e \in Elems |-> FreeElem]
    /\ used = [elems |-> {}, tables |-> {1}]
    /\ pc = [p \in Procs |-> "idle"]
    /\ loc = [p \in Procs |-> NoLocals]
    /\ stored = {} /\ split = FALSE /\ crashes = 0

-----------------------------------------------------------------------------
(* Chains and buckets. *)

getIndex(k, cap) == k % cap

\* The element n links behind e, Null past the end.
Nth(e, n) ==
    LET walk[i \in Nat] ==
            IF i = 0 THEN e
            ELSE LET d == walk[i - 1] IN IF d = Null THEN Null ELSE elem[d].next
    IN  walk[n]

Chain(e) == {Nth(e, n) : n \in 0..Cardinality(Elems)} \ {Null}

Bucket(t, b) == Chain(idx[t][b])
InTable(t)   == UNION {Bucket(t, b) : b \in 0..Capacities[t] - 1}

Head_(k)    == idx[table.hidx][getIndex(k, table.cap)]
NewHead(k)  == idx[table.hidxNew][getIndex(k, table.capNew)]

\* LsShmHash::find2(): the first element of the chain with the key.
Find(k) ==
    LET n == {i \in 0..Cardinality(Elems) :
                Nth(Head_(k), i) \in Elems /\ elem[Nth(Head_(k), i)].key = k}
    IN  IF n = {} THEN Null ELSE Nth(Head_(k), CHOOSE i \in n : \A j \in n : i <= j)

\* The first element of the buckets from b on.
FirstFrom(b) ==
    LET full == {i \in b..table.cap - 1 : idx[table.hidx][i] # Null}
    IN  IF full = {} THEN Null ELSE idx[table.hidx][CHOOSE i \in full : \A j \in full : i <= j]

\* LsShmHash::begin() and next()
Begin   == IF table.size = 0 THEN Null ELSE FirstFrom(0)
Next_(e) == IF elem[e].next # Null THEN elem[e].next
            ELSE FirstFrom(getIndex(elem[e].key, table.cap) + 1)

InRehash == table.hidx # table.hidxNew
NextCap(c) == {i \in Tables : Capacities[i] > c}

-----------------------------------------------------------------------------
(* Processes. *)

Goto(p, label) == pc' = [pc EXCEPT ![p] = label]
At(p, label)   == pc[p] = label
Alive(p)       == pc[p] # "dead"

\* A process calls insert(), set() or remove(): which of them, and with which key, is told
\* apart by nothing before find2() and is chosen there.
Start(p) ==
    /\ At(p, "idle")
    /\ Goto(p, "lock")
    /\ UNCHANGED <<lock, loc, shared>>

\* A process dies, with what it has stored so far.
Crash(p) ==
    /\ Alive(p) /\ crashes < MaxCrashes
    /\ Goto(p, "dead")
    /\ crashes' = crashes + 1
    /\ loc' = [loc EXCEPT ![p] = NoLocals]
    /\ UNCHANGED <<lock, table, idx, elem, used, stored, split>>

\* ls_atomic_spin_pidlock(), and every turn of ls_atomic_spin_pidwait(): compare and swap.
TryLock(p) ==
    /\ At(p, "lock")
    /\ IF lock = LS_LOCK_AVAIL
       THEN /\ lock' = p /\ Goto(p, "locked")
            /\ loc' = [loc EXCEPT ![p].ret = 0, ![p].waitpid = 0]
       ELSE /\ lock' = IF lock < LS_SPIN_MIN_PID THEN LS_LOCK_AVAIL ELSE lock
            /\ loc' = [loc EXCEPT ![p].waitpid = lock]
            /\ Goto(p, IF lock < LS_SPIN_MIN_PID THEN "lock" ELSE "probe")
    /\ UNCHANGED shared

\* kill(waitpid, 0): the turns that only spin are left out.
Probe(p) ==
    /\ At(p, "probe")
    /\ Goto(p, IF Alive(loc[p].waitpid) THEN "lock" ELSE "takeover")
    /\ UNCHANGED <<lock, loc, shared>>

\* The compare and swap of the dead owner's id; the result is -waitpid.
TakeOver_Store(p) ==
    /\ At(p, "takeover")
    /\ lock' = p /\ Goto(p, "locked")
    /\ loc' = [loc EXCEPT ![p].ret = -loc[p].waitpid, ![p].waitpid = 0]
    /\ UNCHANGED shared

TakeOver_Bug(p) ==
    /\ At(p, "takeover")
    /\ Goto(p, "lock")
    /\ UNCHANGED <<lock, loc, shared>>

TakeOver(p) ==
    /\ At(p, "takeover")
    /\ IF lock = loc[p].waitpid
       THEN /\ lock' = p /\ Goto(p, "locked")
            /\ loc' = [loc EXCEPT ![p].ret = -loc[p].waitpid, ![p].waitpid = 0]
       ELSE Goto(p, "lock") /\ UNCHANGED <<lock, loc>>
    /\ UNCHANGED shared

\* autoLockChkRehash(): an interrupted rehash is resumed by an owner that did not
\* take the lock over.  The model stops when a process has died between release2()
\* and the last store of rehash(): what follows reads released memory.
Locked(p) ==
    /\ At(p, "locked") /\ table.hidx \in used.tables
    /\ IF InRehash /\ loc[p].ret = 0
       THEN Goto(p, "rehash") /\ loc' = [loc EXCEPT ![p].from = "find"]
       ELSE Goto(p, "find") /\ loc' = [loc EXCEPT ![p].ret = 0]
    /\ UNCHANGED <<lock, shared>>

\* autoUnlock()
Unlock(p) ==
    /\ At(p, "unlock")
    /\ lock' = LS_LOCK_AVAIL
    /\ Goto(p, "idle")
    /\ loc' = [loc EXCEPT ![p] = NoLocals]
    /\ UNCHANGED shared
-----------------------------------------------------------------------------
(* LsShmHash::rehash(): one step per store. *)

NewTable == CHOOSE i \in NextCap(table.cap) : \A j \in NextCap(table.cap) : i <= j

Rehash(p) ==
    /\ At(p, "rehash")
    /\ IF InRehash
       THEN /\ Goto(p, IF table.work # Null /\ NewHead(elem[table.work].key) # table.work
                       THEN "redoOld" ELSE "begin")
            /\ UNCHANGED <<idx, used>>
       ELSE IF NextCap(table.cap) = {}                   \* alloc2() fails
       THEN /\ Goto(p, IF table.size = table.cap THEN "unlock" ELSE "alloc")
            /\ UNCHANGED <<idx, used>>
       ELSE /\ used' = [used EXCEPT !.tables = @ \cup {NewTable}]
            /\ idx' = [idx EXCEPT ![NewTable] = Zeroed]
            /\ Goto(p, "capNew")
    /\ UNCHANGED <<lock, table, elem, loc, stored, split, crashes>>

\* One store to the header.  x_iCapacityNew comes before x_iHIdxNew, which says that a
\* rehash is in progress.
SetHeader(p, label, field, value, to) ==
    /\ At(p, label)
    /\ table' = [table EXCEPT ![field] = value]
    /\ Goto(p, to)
    /\ UNCHANGED <<lock, idx, elem, used, loc, stored, split, crashes>>
SetCapNew(p)  == SetHeader(p, "capNew", "capNew", Capacities[NewTable], "hidxNew")
SetHIdxNew(p) == SetHeader(p, "hidxNew", "hidxNew", NewTable, "begin")

\* The stores that move one element: off the old chain, onto the new one.
TakeOff(p, label, e, to) ==
    /\ At(p, label)
    /\ IF Head_(elem[e].key) = e
       THEN idx' = [idx EXCEPT ![table.hidx][getIndex(elem[e].key, table.cap)] = elem[e].next]
       ELSE UNCHANGED idx
    /\ Goto(p, to)
    /\ UNCHANGED <<lock, table, elem, used, loc, stored, split, crashes>>
LinkNext(p, label, e, to) ==
    /\ At(p, label)
    /\ elem' = [elem EXCEPT ![e].next = NewHead(elem[e].key)]
    /\ Goto(p, to)
    /\ UNCHANGED <<lock, table, idx, used, loc, stored, split, crashes>>
PutOn(p, label, e, to) ==
    /\ At(p, label)
    /\ idx' = [idx EXCEPT ![table.hidxNew][getIndex(elem[e].key, table.capNew)] = e]
    /\ loc' = [loc EXCEPT ![p].it = loc[p].nx]
    /\ Goto(p, to)
    /\ UNCHANGED <<lock, table, elem, used, stored, split, crashes>>

\* A move that was interrupted is done again.
RedoOld(p)  == TakeOff(p, "redoOld", table.work, "redoNext")
RedoNext(p) == LinkNext(p, "redoNext", table.work, "redoNew")
RedoNew(p)  == PutOn(p, "redoNew", table.work, "begin")

BeginWork(p) ==
    /\ At(p, "begin")
    /\ loc' = [loc EXCEPT ![p].it = Begin]
    /\ Goto(p, IF Begin = Null THEN "workDone" ELSE "work")
    /\ UNCHANGED <<lock, shared>>

\* The loop: next() is read and x_iWorkIterOff is set before the element moves.
Work_Bug(p) ==
    /\ At(p, "work")
    /\ loc' = [loc EXCEPT ![p].nx = Next_(loc[p].it)]
    /\ Goto(p, "mvOld")
    /\ UNCHANGED <<lock, shared>>

Work(p) ==
    /\ At(p, "work")
    /\ loc' = [loc EXCEPT ![p].nx = Next_(loc[p].it)]
    /\ table' = [table EXCEPT !.work = loc[p].it]
    /\ Goto(p, "mvOld")
    /\ UNCHANGED <<lock, idx, elem, used, stored, split, crashes>>
MoveOld(p)  == TakeOff(p, "mvOld", loc[p].it, "mvNext")
MoveNext(p) == LinkNext(p, "mvNext", loc[p].it, "mvNew")
MoveNew(p)  == PutOn(p, "mvNew", loc[p].it, IF loc[p].nx = Null THEN "workDone" ELSE "work")

WorkDone(p) == SetHeader(p, "workDone", "work", Null, "releaseOld")
ReleaseOld(p) ==
    /\ At(p, "releaseOld")
    /\ used' = [used EXCEPT !.tables = @ \ {table.hidx}]
    /\ Goto(p, "capacity")
    /\ UNCHANGED <<lock, table, idx, elem, loc, stored, split, crashes>>
SetCapacity_Bug(p) == SetHeader(p, "capacity", "cap", table.cap, "hidx")

SetCapacity(p) == SetHeader(p, "capacity", "cap", table.capNew, "hidx")
SetHIdx(p)     == SetHeader(p, "hidx", "hidx", table.hidxNew, loc[p].from)

-----------------------------------------------------------------------------
(* Look up, insert, remove. *)

\* find2(); on a chain with a cycle and without the key it never returns.
FindStep(p) ==
    /\ At(p, "find")
    /\ \E op \in {"insert", "set", "remove"}, k \in Keys :
        /\ Find(k) # Null \/ Nth(Head_(k), Cardinality(Elems)) = Null
        /\ loc' = [loc EXCEPT ![p] = [@ EXCEPT !.op = op, !.key = k, !.it = Find(k)]]
    /\ Goto(p, "found")
    /\ UNCHANGED <<lock, shared>>

\* doInsert() refuses a key that is present; doSet() updates it in place when the new
\* value fits, else removes it and inserts anew; a removal needs it.
Found(p) ==
    /\ At(p, "found")
    /\ LET op == loc[p].op
           present == loc[p].it # Null
       IN  \/ op = "insert" /\ Goto(p, IF present THEN "unlock" ELSE "insert")
           \/ op = "remove" /\ Goto(p, IF present THEN "unlink" ELSE "unlock")
           \/ op = "set" /\ ~present /\ Goto(p, "insert")
           \/ op = "set" /\ present /\ \E fits \in BOOLEAN :
                Goto(p, IF fits THEN "unlock" ELSE "unlink")
    /\ UNCHANGED <<lock, loc, shared>>

\* insertCopy2(): a table that is too full is rehashed first.
InsertCopy(p) ==
    /\ At(p, "insert")
    /\ IF Wrap(table.size * FullFactor) > table.cap
       THEN Goto(p, "rehash") /\ loc' = [loc EXCEPT ![p].from = "alloc"]
       ELSE Goto(p, "alloc") /\ UNCHANGED loc
    /\ UNCHANGED <<lock, shared>>

\* allocIter(): the pool may be exhausted.
AllocIter(p) ==
    /\ At(p, "alloc")
    /\ LET free == Elems \ used.elems
           e    == CHOOSE x \in free : \A y \in free : x <= y
       IN  IF free = {}
           THEN Goto(p, "unlock") /\ UNCHANGED <<elem, used, loc>>
           ELSE /\ used' = [used EXCEPT !.elems = @ \cup {e}]
                /\ elem' = [elem EXCEPT ![e].key = loc[p].key]
                /\ loc' = [loc EXCEPT ![p].it = e]
                /\ Goto(p, "next")
    /\ UNCHANGED <<lock, table, idx, stored, split, crashes>>

\* insertAlloced(): x_iNext, the head of the chain, the count.  A process that took the lock
\* over links into the old index of a table that is half moved, and unlinks from it.
InsertNext(p) ==
    /\ At(p, "next")
    /\ elem' = [elem EXCEPT ![loc[p].it].next = Head_(loc[p].key)]
    /\ Goto(p, "link")
    /\ UNCHANGED <<lock, table, idx, used, loc, stored, split, crashes>>
InsertLink(p) ==
    /\ At(p, "link")
    /\ idx' = [idx EXCEPT ![table.hidx][getIndex(loc[p].key, table.cap)] = loc[p].it]
    /\ stored' = stored \cup {loc[p].it} /\ split' = (split \/ InRehash)
    /\ Goto(p, "incr")
    /\ UNCHANGED <<lock, table, elem, used, loc, crashes>>
IncrTableSize_Bug(p) == SetHeader(p, "incr", "size", table.size, "unlock")

IncrTableSize(p) == SetHeader(p, "incr", "size", Wrap(table.size + 1), "unlock")

\* remove(): the head or the predecessor skips the element.
Unlink(p) ==
    /\ At(p, "unlink")
    /\ LET e == loc[p].it
           pred == {d \in Chain(Head_(loc[p].key)) : elem[d].next = e}
       IN  /\ IF Head_(loc[p].key) = e
              THEN /\ idx' = [idx EXCEPT ![table.hidx][getIndex(loc[p].key, table.cap)] =
                                         elem[e].next]
                   /\ UNCHANGED elem
              ELSE /\ elem' = [d \in Elems |-> IF d \in pred
                                             THEN [elem[d] EXCEPT !.next = elem[e].next]
                                             ELSE elem[d]]
                   /\ UNCHANGED idx
           /\ stored' = stored \ {e} /\ split' = (split \/ InRehash)
    /\ Goto(p, "decr")
    /\ UNCHANGED <<lock, table, used, loc, crashes>>
DecrTableSize_Bug(p) == SetHeader(p, "decr", "size", table.size - 1, "release")

DecrTableSize(p) == SetHeader(p, "decr", "size", Wrap(table.size - 1), "release")

\* eraseIteratorHelper() releases the element; doSet() goes on to insert.
Release(p) ==
    /\ At(p, "release")
    /\ used' = [used EXCEPT !.elems = @ \ {loc[p].it}]
    /\ elem' = [elem EXCEPT ![loc[p].it] = FreeElem]
    /\ loc' = [loc EXCEPT ![p].it = Null]
    /\ Goto(p, IF loc[p].op = "set" THEN "insert" ELSE "unlock")
    /\ UNCHANGED <<lock, table, idx, stored, split, crashes>>

-----------------------------------------------------------------------------
LockSteps(p) == TryLock(p) \/ Probe(p) \/ TakeOver(p)
RehashSteps(p) ==
    \/ Rehash(p) \/ SetCapNew(p) \/ SetHIdxNew(p) \/ RedoOld(p) \/ RedoNext(p) \/ RedoNew(p)
    \/ BeginWork(p) \/ Work(p) \/ MoveOld(p) \/ MoveNext(p) \/ MoveNew(p)
    \/ WorkDone(p) \/ ReleaseOld(p) \/ SetCapacity(p) \/ SetHIdx(p)
OpSteps(p) ==
    \/ Locked(p) \/ FindStep(p) \/ Found(p) \/ InsertCopy(p) \/ AllocIter(p)
    \/ InsertNext(p) \/ InsertLink(p) \/ IncrTableSize(p)
    \/ Unlink(p) \/ DecrTableSize(p) \/ Release(p) \/ Unlock(p)

Next ==
    \E p \in Procs :
        \/ Start(p) \/ LockSteps(p) \/ RehashSteps(p) \/ OpSteps(p)
        \/ Crash(p)

\* A live process runs on.
Fairness == \A p \in Procs : WF_vars(LockSteps(p) \/ RehashSteps(p) \/ OpSteps(p))
Spec     == Init /\ [][Next]_vars /\ Fairness

-----------------------------------------------------------------------------
(* Properties. *)

InSection(p) == pc[p] \notin {"idle", "dead", "lock", "probe", "takeover"}

\* A live process that uses the table owns the lock word: two waiters that both find the
\* owner dead, or an owner that was only slow, never share the table
\* (ls_atomic_spin_pidwait()).
MutualExclusion == \A p \in Procs : InSection(p) => lock = p

WellLinked(t) ==
    \A b \in 0..Capacities[t] - 1 :
        /\ Nth(idx[t][b], Cardinality(Elems)) = Null
        /\ \A e \in Bucket(t, b) : getIndex(elem[e].key, Capacities[t]) = b

\* Whichever store of an insertion, a removal or a rehash a process died at, every entry
\* is in the old index, in the new one or is the one x_iWorkIterOff says is on its way,
\* never in two chains; no chain has a cycle or reaches a released element.  It is what
\* rehash() relies on to finish the work of a dead process.  It does not outlast a change
\* of a half moved table, which the process that takes the lock over may make.
Intact == ~split =>
    LET old == InTable(table.hidx)
        new == IF InRehash THEN InTable(table.hidxNew) ELSE {}
        moving == IF InRehash THEN {table.work} \ {Null} ELSE {}
    IN  /\ WellLinked(table.hidx) /\ WellLinked(table.hidxNew)
        /\ old \cap new = {}
        /\ old \cup new \cup moving = stored
        /\ stored \subseteq used.elems

\* Outside of a rehash, a lookup (find2()) finds the entry of a key exactly when the table
\* has one, also after the rehash of a dead process was finished by another; but not once
\* a half moved table was changed: the resumed rehash may then link a released element.
LookupWorks ==
    \A p \in Procs : ~split /\ At(p, "found") /\ ~InRehash =>
        IF loc[p].it = Null THEN \A e \in stored : elem[e].key # loc[p].key
        ELSE loc[p].it \in stored /\ elem[loc[p].it].key = loc[p].key

\* x_iSize counts the entries, but for one for each process that died between the store
\* to a chain and the store to the count; it may wrap below zero.  It is claimed of tables
\* that were not changed while half moved.
SizeDrift ==
    ~split /\ lock = LS_LOCK_AVAIL =>
        \E d \in -crashes..crashes : table.size = Wrap(Cardinality(stored) + d)

DeadOwner  == \E q \in Procs : lock = q /\ At(q, "dead")
Waiting(p) == pc[p] \in {"lock", "probe", "takeover"}

\* The lock of a dead process does not stay locked while a live process waits for it.
LockNotStuck ==
    (DeadOwner /\ \E p \in Procs : Waiting(p)) ~> (~DeadOwner \/ \A p \in Procs : ~Waiting(p))

\* "The key must NOT currently exist in the table": insert and set never leave two
\* entries with one key (include/lsr/ls_shm.h).
OneEntryPerKey == \A e, f \in stored : elem[e].key = elem[f].key => e = f
=============================================================================
