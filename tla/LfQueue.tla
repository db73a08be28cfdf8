------------------------------- MODULE LfQueue -------------------------------
(***************************************************************************)
(* The lock-free queue of lsr (ls_lfqueue.c), one action per access to     *)
(* shared memory.  Workers put finished jobs into such a queue and the     *)
(* event loop takes them out; with LS_WORKCREW_LF the jobs themselves wait *)
(* in one, which all workers take from.                                    *)
(*                                                                         *)
(* Nodes are linked through next, from the oldest, which tail.m_ptr points *)
(* to, to the youngest, which phead points to.  m_ptr is the first word of *)
(* tail, so tail serves as a node: next[TAIL] is tail.m_ptr, and phead is  *)
(* TAIL in an empty queue.                                                 *)
(*                                                                         *)
(* Memory is sequentially consistent here.  A node that was taken belongs  *)
(* to its taker, who may put it again: its next still holds an old value.  *)
(* Nothing keeps the taker from doing so while another get still looks at  *)
(* the node, which the queue does not survive: reused records that it      *)
(* happened, and the properties speak of the time before.  With a single   *)
(* consumer it never happens.                                              *)
(***************************************************************************)
EXTENDS Integers, Sequences, FiniteSets

CONSTANTS
    Putters, Getters,   \* threads
    Nodes, TAIL, NULL,
    MaxPuts             \* bound: calls of put and putn

ASSUME LfAssumption ==
    /\ Putters \cap Getters = {} /\ TAIL \notin Nodes /\ NULL \notin Nodes \cup {TAIL}
    /\ IsFiniteSet(Nodes) /\ MaxPuts \in Nat

Threads == Putters \cup Getters

VARIABLES
    next,    \* next of every node, and tail.m_ptr
    seq,     \* tail.m_seq
    phead,
    pc,      \* where each thread is
    data,    \* of a putter: the first and the last node it puts
    prev,    \* of a putter: what phead was
    tail,    \* of a getter: its copy of tail, m_ptr and m_seq
    xchg,    \* of a getter: the next m_ptr it will try to set
    free,    \* the nodes in nobody's queue
    puts,    \* calls of put so far
    items,   \* history: the nodes that are in the queue, the oldest first
    got,     \* history: what the last get of a thread took
    reused   \* history: a node was put again while another get still looked at it

queue   == <<next, seq, phead>>
locals  == <<data, prev, tail, xchg>>
history == <<items, got, reused>>
vars    == <<queue, pc, locals, free, puts, history>>

NoTail == [ptr |-> NULL, seq |-> 0]

\* ls_lfqueue_init()
Init ==
    /\ next = [n \in Nodes \cup {TAIL} |-> NULL]
    /\ seq = 0 /\ phead = TAIL
    /\ pc = [t \in Threads |-> "idle"]
    /\ data = [t \in Putters |-> <<NULL, NULL>>]
    /\ prev = [t \in Putters |-> NULL]
    /\ tail = [t \in Getters |-> NoTail]
    /\ xchg = [t \in Getters |-> NULL]
    /\ free = Nodes /\ puts = 0
    /\ items = <<>> /\ got = [t \in Getters |-> NULL] /\ reused = FALSE

PutterAt == {"idle", "xchg", "link", "wake"}
GetterAt == {"idle", "load", "seq", "test", "next", "dcas", "head", "dcas0", "cashead", "spin",
             "store", "wait", "sleep"}

TypeOK ==
    /\ next \in [Nodes \cup {TAIL} -> Nodes \cup {NULL}]
    /\ seq \in Nat /\ (~reused => seq <= MaxPuts * 2) /\ phead \in Nodes \cup {TAIL}
    /\ \A t \in Putters : pc[t] \in PutterAt
    /\ \A t \in Getters : pc[t] \in GetterAt
    /\ \A t \in Putters : pc[t] \in {"xchg", "link"} => data[t] \in Nodes \X Nodes
    /\ \A t \in Putters : pc[t] = "link" => prev[t] \in Nodes \cup {TAIL}
    /\ free \subseteq Nodes /\ items \in Seq(Nodes) /\ reused \in BOOLEAN

-----------------------------------------------------------------------------
(* ls_lfqueue_put() and ls_lfqueue_putn() *)

\* a get is between its read of tail.m_ptr and its end, and read n
InUse(n) == \E t \in Getters : tail[t].ptr = n /\ pc[t] \notin {"idle", "load", "sleep", "wait"}

Goto(t, l) == pc' = [pc EXCEPT ![t] = l]

\* data->next = NULL; of a list, the last node's.
PutStart(t, n, m) ==
    /\ pc[t] = "idle" /\ puts < MaxPuts
    /\ {n, m} \subseteq free
    /\ next' = [x \in DOMAIN next |-> IF x = m THEN NULL ELSE IF x = n THEN m ELSE next[x]]
    /\ data' = [data EXCEPT ![t] = <<n, m>>]
    /\ free' = free \ {n, m} /\ puts' = puts + 1
    /\ reused' = (reused \/ InUse(n) \/ InUse(m))
    /\ Goto(t, "xchg")
    /\ UNCHANGED <<seq, phead, prev, tail, xchg, items, got>>

\* prev = phead, phead = data: from here on the node is in the queue.
PutXchg(t) ==
    /\ pc[t] = "xchg"
    /\ prev' = [prev EXCEPT ![t] = phead]
    /\ phead' = data[t][2]
    /\ items' = items \o (IF data[t][1] = data[t][2] THEN <<data[t][1]>> ELSE data[t])
    /\ Goto(t, "link")
    /\ UNCHANGED <<next, seq, data, tail, xchg, free, puts, got, reused>>

\* prev->next = data
PutLink_Bug(t) ==
    /\ pc[t] = "link"
    /\ next' = [next EXCEPT ![prev[t]] = data[t][1]]
    /\ Goto(t, "idle")
    /\ data' = [data EXCEPT ![t] = <<NULL, NULL>>]
    /\ prev' = [prev EXCEPT ![t] = NULL]
    /\ UNCHANGED <<seq, phead, tail, xchg, free, puts, history>>
PutLink(t) ==
    /\ pc[t] = "link"
    /\ next' = [next EXCEPT ![prev[t]] = data[t][1]]
    /\ Goto(t, IF prev[t] = TAIL THEN "wake" ELSE "idle")
    /\ data' = [data EXCEPT ![t] = <<NULL, NULL>>]
    /\ prev' = [prev EXCEPT ![t] = NULL]
    /\ UNCHANGED <<seq, phead, tail, xchg, free, puts, history>>

\* do_wake(): one of the threads that sleep on tail.m_ptr, if any does
PutWake(t) ==
    /\ pc[t] = "wake"
    /\ LET asleep == {g \in Getters : pc[g] = "sleep"}
       IN  IF asleep = {} THEN Goto(t, "idle")
           ELSE \E g \in asleep : pc' = [pc EXCEPT ![t] = "idle", ![g] = "load"]
    /\ UNCHANGED <<queue, locals, free, puts, history>>

-----------------------------------------------------------------------------
(* ls_lfqueue_get() *)

GetStart(t) ==
    /\ pc[t] = "idle"
    /\ got' = [got EXCEPT ![t] = NULL]
    /\ Goto(t, "load")
    /\ UNCHANGED <<queue, locals, free, puts, items, reused>>

\* tail.m_ptr and tail.m_seq are read one after the other.
GetLoad(t) ==
    /\ pc[t] = "load"
    /\ tail' = [tail EXCEPT ![t].ptr = next[TAIL]]
    /\ Goto(t, "seq")
    /\ UNCHANGED <<queue, data, prev, xchg, free, puts, history>>

GetSeq(t) ==
    /\ pc[t] = "seq"
    /\ tail' = [tail EXCEPT ![t].seq = seq]
    /\ Goto(t, "test")
    /\ UNCHANGED <<queue, data, prev, xchg, free, puts, history>>

\* The end of a call of get(), which forgets its locals; a node it took is its caller's,
\* to be put again some time.
Return_Bug(t, l) ==
    /\ Goto(t, l)
    /\ tail' = [tail EXCEPT ![t] = NoTail]
    /\ xchg' = [xchg EXCEPT ![t] = NULL]
    /\ free' = free \cup {tail[t].ptr}
Return(t, l) ==
    /\ Goto(t, l)
    /\ tail' = [tail EXCEPT ![t] = NoTail]
    /\ xchg' = [xchg EXCEPT ![t] = NULL]
    /\ free' = free \cup ({tail[t].ptr} \ {NULL})

\* Nothing there: get() returns NULL, and timedget() waits or, without a time, returns it.
\* Otherwise, is there a node after this one?
GetTest(t) ==
    /\ pc[t] = "test"
    /\ \/ tail[t].ptr = NULL /\ (Return(t, "idle") \/ Return(t, "wait"))
       \/ /\ tail[t].ptr # NULL
          /\ Goto(t, IF next[tail[t].ptr] # NULL THEN "next" ELSE "head")
          /\ UNCHANGED <<tail, xchg, free>>
    /\ UNCHANGED <<queue, data, prev, puts, history>>

GetNext(t) ==
    /\ pc[t] = "next"
    /\ xchg' = [xchg EXCEPT ![t] = next[tail[t].ptr]]
    /\ Goto(t, "dcas")
    /\ UNCHANGED <<queue, data, prev, tail, free, puts, history>>

Same_Bug(t) == tail[t].seq = seq
Same(t) == tail[t] = [ptr |-> next[TAIL], seq |-> seq]

\* The compare and swap of both words of tail: the node is t's, and the queue has lost
\* its oldest node, which a queue that is first in, first out gave to t.
Swap(t, new) ==
    /\ Same(t)
    /\ next' = [next EXCEPT ![TAIL] = new]
    /\ seq' = seq + 1
    /\ got' = [got EXCEPT ![t] = tail[t].ptr]
    /\ items' = IF items = <<>> THEN <<>> ELSE Tail(items)
    /\ UNCHANGED reused

\* It fails, and has read both words.
Retry(t) ==
    /\ ~Same(t)
    /\ tail' = [tail EXCEPT ![t] = [ptr |-> next[TAIL], seq |-> seq]]
    /\ Goto(t, "test")
    /\ UNCHANGED <<next, seq, xchg, free, history>>

GetDcas(t) ==
    /\ pc[t] = "dcas"
    /\ \/ Swap(t, xchg[t]) /\ Return(t, "idle")
       \/ Retry(t)
    /\ UNCHANGED <<phead, data, prev, puts>>

\* The last node, unless another was put behind it that is not linked yet.
GetHead(t) ==
    /\ pc[t] = "head"
    /\ Goto(t, IF tail[t].ptr # phead THEN "load" ELSE "dcas0")
    /\ UNCHANGED <<queue, locals, free, puts, history>>

GetDcas0(t) ==
    /\ pc[t] = "dcas0"
    /\ \/ Swap(t, NULL) /\ Goto(t, "cashead") /\ UNCHANGED <<tail, xchg, free>>
       \/ Retry(t)
    /\ UNCHANGED <<phead, data, prev, puts>>

GetCasHead_Bug(t) ==
    /\ pc[t] = "cashead"
    /\ phead' = TAIL /\ Return(t, "idle")
    /\ UNCHANGED <<next, seq, data, prev, puts, history>>
GetCasHead(t) ==
    /\ pc[t] = "cashead"
    /\ \/ phead = tail[t].ptr /\ phead' = TAIL /\ Return(t, "idle")
       \/ phead # tail[t].ptr /\ Goto(t, "spin") /\ UNCHANGED <<phead, tail, xchg, free>>
    /\ UNCHANGED <<next, seq, data, prev, puts, history>>

\* Another node was put meanwhile: once it is linked it becomes the oldest.  The link is
\* read in the loop and once more for the store; the node belongs to t and a link, once
\* there, is not stored again, so both reads are one here.
GetSpin_Bug(t) ==
    /\ pc[t] = "spin"
    /\ xchg' = [xchg EXCEPT ![t] = next[tail[t].ptr]]
    /\ Goto(t, "store")
    /\ UNCHANGED <<queue, data, prev, tail, free, puts, history>>
GetSpin(t) ==
    /\ pc[t] = "spin" /\ next[tail[t].ptr] # NULL
    /\ xchg' = [xchg EXCEPT ![t] = next[tail[t].ptr]]
    /\ Goto(t, "store")
    /\ UNCHANGED <<queue, data, prev, tail, free, puts, history>>

GetStore(t) ==
    /\ pc[t] = "store"
    /\ next' = [next EXCEPT ![TAIL] = xchg[t]]
    /\ Return(t, "idle")
    /\ UNCHANGED <<seq, phead, data, prev, puts, history>>

\* do_wait(): the futex sleeps only while tail.m_ptr is NULL.  (The system call compares 32
\* bits of the pointer; here no node's address looks like NULL to it.)
GetWait(t) ==
    /\ pc[t] = "wait"
    /\ Goto(t, IF next[TAIL] = NULL THEN "sleep" ELSE "load")
    /\ UNCHANGED <<queue, locals, free, puts, history>>

\* The time is up, or a signal makes the thread look again.
GetTimeout(t) ==
    /\ pc[t] = "sleep"
    /\ Goto(t, "idle") \/ Goto(t, "load")
    /\ UNCHANGED <<queue, locals, free, puts, history>>

PutStep(t) == PutXchg(t) \/ PutLink(t) \/ PutWake(t)
GetStep(t) ==
    \/ GetLoad(t) \/ GetSeq(t) \/ GetTest(t) \/ GetNext(t) \/ GetDcas(t)
    \/ GetHead(t) \/ GetDcas0(t) \/ GetCasHead(t) \/ GetSpin(t)
    \/ GetStore(t) \/ GetWait(t)

Next ==
    \/ \E t \in Putters : PutStep(t) \/ \E n, m \in Nodes : PutStart(t, n, m)
    \/ \E t \in Getters : GetStep(t) \/ GetStart(t) \/ GetTimeout(t)

Spec == Init /\ [][Next]_vars

\* Threads run, and the getters go on getting; no time has to run out.
FairSpec ==
    /\ Spec
    /\ \A t \in Putters : WF_vars(PutStep(t))
    /\ \A t \in Getters : WF_vars(GetStep(t)) /\ WF_vars(GetStart(t))

-----------------------------------------------------------------------------
(* Properties. *)

F == INSTANCE Fifo

\* First in, first out, for several consumers: as long as no node was put again while
\* another get looked at it, every node is taken once, by one thread, in the order of the
\* puts' exchanges of phead.  ls_lfqueue.h:121 promises it without the condition; the code
\* keeps that promise for one consumer only (OneConsumerFifo in LfQueueProofs).
IsFifo == F!Init /\ [][reused' \/ F!Next]_F!vars

Chain == LET step[i \in 0..Cardinality(Nodes) + 1] ==
                 IF i = 0 THEN TAIL
                 ELSE IF step[i - 1] = NULL THEN NULL ELSE next[step[i - 1]]
         IN  [i \in 1..Len(items) + 1 |-> step[i]]

\* When no call is under way, and no node was reused too early, the links hold the queue:
\* from tail through every node in order to the one phead points to.
AtRest ==
    ~reused /\ (\A t \in Threads : pc[t] \in {"idle", "sleep"}) =>
        /\ Chain = Append(items, NULL)
        /\ phead = IF items = <<>> THEN TAIL ELSE items[Len(items)]

\* tail.m_ptr is NULL, so that a get returns nothing and a futex sleeps, only when the queue
\* is empty or another call is about to set it, as long as no node was reused too early.
NullMeansEmpty ==
    ~reused /\ next[TAIL] = NULL /\ items # <<>> =>
        \/ \E t \in Putters : pc[t] = "link" /\ prev[t] = TAIL
        \/ \E t \in Getters : pc[t] \in {"cashead", "spin", "store"}

\* The behaviours that the properties are about; a run need not look further.
NotReused == ~reused

\* What is put is taken, as long as the getters go on, unless a node is reused too early.
Taken == \A n \in Nodes : (\E i \in 1..Len(items) : items[i] = n) ~> n \in free \/ reused
=============================================================================
