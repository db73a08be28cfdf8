-------------------------------- MODULE Fifo --------------------------------
(***************************************************************************)
(* What ls_lfqueue.h promises: a queue of nodes, first in, first out, that *)
(* any number of threads put to and get from.  A get may find nothing; it  *)
(* then leaves the queue as it is, which is a stuttering step here.        *)
(***************************************************************************)
EXTENDS Integers, Sequences

CONSTANTS Nodes, Getters, NULL

VARIABLES
    items,   \* the nodes in the queue, the oldest first
    got      \* got[t]: the node the last get of t took, or NULL

vars == <<items, got>>

Members == {items[i] : i \in 1..Len(items)}

Init == items = <<>> /\ got = [t \in Getters |-> NULL]

Put(n) == n \notin Members /\ items' = Append(items, n) /\ UNCHANGED got

\* ls_lfqueue_putn() puts a list of nodes at once.
PutTwo(n, m) ==
    /\ n # m /\ {n, m} \cap Members = {}
    /\ items' = items \o <<n, m>>
    /\ UNCHANGED got

Get(t) ==
    /\ items # <<>>
    /\ got' = [got EXCEPT ![t] = Head(items)]
    /\ items' = Tail(items)

\* The next get of a thread forgets what the last one returned.
Forget(t) == got' = [got EXCEPT ![t] = NULL] /\ UNCHANGED items

Next ==
    \/ \E n \in Nodes : Put(n) \/ \E m \in Nodes : PutTwo(n, m)
    \/ \E t \in Getters : Get(t) \/ Forget(t)

Spec == Init /\ [][Next]_vars
=============================================================================
