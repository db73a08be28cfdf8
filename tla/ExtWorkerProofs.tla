-------------------------- MODULE ExtWorkerProofs --------------------------
(***************************************************************************)
(* Theorems about ExtWorker, with their proofs.  One thread runs           *)
(* everything, so what has to be shown is that the handlers may re-enter   *)
(* the worker: what every frame of the call stack may rely on when it      *)
(* continues.                                                              *)
(***************************************************************************)
EXTENDS ExtWorker, Iteration, FiniteSetTheorems, SequenceTheorems, TLAPS

-----------------------------------------------------------------------------
(***************************************************************************)
(* Lists.                                                                  *)
(***************************************************************************)

LEMMA ToSetHas ==
    ASSUME NEW S, NEW q \in Seq(S)
    PROVE  \A x : x \in ToSet(q) <=> Has(q, x)
  BY DEF ToSet, Has

\* What NoDuplicates says with cardinalities.
LEMMA OnceCounts ==
    ASSUME NEW S, NEW q \in Seq(S), Once(q)
    PROVE  NoDuplicates(q)
<1>1. Len(q) \in Nat /\ DOMAIN q = 1 .. Len(q)
  OBVIOUS
<1>2. q \in [1 .. Len(q) -> ToSet(q)]
  BY <1>1 DEF ToSet
<1>3. q \in Bijection(1 .. Len(q), ToSet(q))
  BY <1>1, <1>2 DEF Once, ToSet, Bijection, Injection, Surjection, IsInjective
<1>4. IsFiniteSet(1 .. Len(q)) /\ Cardinality(1 .. Len(q)) = Len(q)
  BY <1>1, FS_Interval
<1>5. Cardinality(ToSet(q)) = Cardinality(1 .. Len(q))
  <2>1. ExistsBijection(1 .. Len(q), ToSet(q))
    BY <1>3 DEF ExistsBijection
  <2> QED
    BY <1>4, <2>1, FS_Bijection
<1> QED
  BY <1>4, <1>5 DEF NoDuplicates

LEMMA FrontHas ==
    ASSUME NEW S, NEW q \in Seq(S), q # <<>>, Once(q)
    PROVE  /\ Front(q) \in Seq(S) /\ Last(q) \in S
           /\ Has(q, Last(q))
           /\ \A x : Has(Front(q), x) <=> Has(q, x) /\ x # Last(q)
           /\ Once(Front(q))
<1>1. /\ Len(q) \in Nat /\ Len(q) > 0 /\ Last(q) = q[Len(q)]
      /\ Front(q) \in Seq(S) /\ Len(Front(q)) = Len(q) - 1
      /\ \A i \in 1 .. Len(q) - 1 : Front(q)[i] = q[i]
  <2>1. PICK n \in Nat : n = Len(q)
    OBVIOUS
  <2>2. n > 0 /\ \A i \in 1 .. n - 1 : q[i] \in S
    BY <2>1
  <2>3. PICK f : f = SubSeq(q, 1, n - 1)
    OBVIOUS
  <2>4. f \in Seq(S) /\ Len(f) = n - 1 /\ \A i \in 1 .. n - 1 : f[i] = q[i]
    BY <2>2, <2>3
  <2> QED
    BY <2>1, <2>2, <2>3, <2>4 DEF Front, Last
<1>2. Last(q) \in S /\ Has(q, Last(q))
  BY <1>1 DEF Has
<1>3. \A x : Has(Front(q), x) <=> Has(q, x) /\ x # Last(q)
  BY <1>1 DEF Has, Once
<1>4. Once(Front(q))
  BY <1>1 DEF Once
<1> QED
  BY <1>1, <1>2, <1>3, <1>4

\* The last member takes the place of the one erased.
LEMMA EraseHas ==
    ASSUME NEW S, NEW q \in Seq(S), Once(q), NEW c
    PROVE  /\ Erase(q, c) \in Seq(S)
           /\ \A x : Has(Erase(q, c), x) <=> Has(q, x) /\ x # c
           /\ Once(Erase(q, c))
<1>1. CASE ~Has(q, c)
  <2>1. Erase(q, c) = q
    BY <1>1, ToSetHas DEF Erase
  <2> QED
    BY <1>1, <2>1
<1>2. CASE Has(q, c)
  <2>1. PICK k \in 1 .. Len(q) : q[k] = c
    BY <1>2 DEF Has
  <2>2. k = CHOOSE i \in 1 .. Len(q) : q[i] = c /\ \A j \in 1 .. (i - 1) : q[j] # c
    <3>1. \A j \in 1 .. (k - 1) : q[j] # c
      BY <2>1 DEF Once
    <3>2. \A i \in 1 .. Len(q) : q[i] = c /\ (\A j \in 1 .. (i - 1) : q[j] # c) => i = k
      BY <2>1 DEF Once
    <3> QED
      BY <2>1, <3>1, <3>2
  <2>3. PICK e : e = Erase(q, c)
    OBVIOUS
  <2>4. e = [i \in 1 .. (Len(q) - 1) |-> IF i = k THEN q[Len(q)] ELSE q[i]]
    BY <1>2, <2>2, <2>3, ToSetHas DEF Erase
  <2>5. /\ Len(q) \in Nat /\ Len(q) > 0 /\ e \in Seq(S) /\ Len(e) = Len(q) - 1
        /\ \A i \in 1 .. Len(q) - 1 : e[i] = IF i = k THEN q[Len(q)] ELSE q[i]
    BY <2>1, <2>4
  <2>6. ASSUME NEW x PROVE Has(e, x) <=> Has(q, x) /\ x # c
    <3>1. Has(e, x) => Has(q, x) /\ x # c
      BY <2>1, <2>5 DEF Has, Once
    <3>2. ASSUME NEW i \in 1 .. Len(q), q[i] = x, x # c PROVE Has(e, x)
      <4>1. CASE i = Len(q)
        <5>1. k \in 1 .. Len(q) - 1
          BY <2>1, <2>5, <3>2, <4>1
        <5>2. e[k] = x
          BY <2>5, <3>2, <4>1, <5>1
        <5> QED
          BY <2>5, <5>1, <5>2 DEF Has
      <4>2. CASE i # Len(q)
        <5>1. i \in 1 .. Len(q) - 1 /\ e[i] = x
          BY <2>1, <2>5, <3>2, <4>2
        <5> QED
          BY <2>5, <5>1 DEF Has
      <4> QED
        BY <4>1, <4>2
    <3> QED
      BY <3>1, <3>2 DEF Has
  <2>7. Once(e)
    BY <2>1, <2>5 DEF Once
  <2> QED
    BY <2>3, <2>5, <2>6, <2>7
<1> QED
  BY <1>1, <1>2

LEMMA UnlinkHas ==
    ASSUME NEW S, NEW q \in Seq(S), Once(q), NEW c
    PROVE  /\ Unlink(q, c) \in Seq(S)
           /\ \A x : Has(Unlink(q, c), x) <=> Has(q, x) /\ x # c
           /\ Once(Unlink(q, c))
<1>1. CASE ~Has(q, c)
  <2>1. Unlink(q, c) = q
    BY <1>1, ToSetHas DEF Unlink
  <2> QED
    BY <1>1, <2>1
<1>2. CASE Has(q, c)
  <2>1. PICK k \in 1 .. Len(q) : q[k] = c
    BY <1>2 DEF Has
  <2>2. k = CHOOSE i \in 1 .. Len(q) : q[i] = c
    BY <2>1 DEF Once
  <2>3. PICK a, b, e : a = SubSeq(q, 1, k - 1) /\ b = SubSeq(q, k + 1, Len(q)) /\ e = Unlink(q, c)
    OBVIOUS
  <2>4. e = a \o b
    BY <1>2, <2>2, <2>3, ToSetHas DEF Unlink, RemoveAt
  <2>5. /\ Len(q) \in Nat /\ a \in Seq(S) /\ b \in Seq(S) /\ Len(a) = k - 1 /\ Len(b) = Len(q) - k
        /\ \A i \in 1 .. k - 1 : a[i] = q[i]
        /\ \A i \in 1 .. Len(q) - k : b[i] = q[i + k]
    BY <2>1, <2>3
  <2>6. e \in Seq(S) /\ Len(e) = Len(q) - 1
    BY <2>4, <2>5
  <2>7. \A i \in 1 .. k - 1 : e[i] = q[i]
    BY <2>4, <2>5
  <2>8. \A i \in k .. Len(q) - 1 : e[i] = q[i + 1]
    <3> TAKE i \in k .. Len(q) - 1
    <3>1. i - (k - 1) \in 1 .. Len(q) - k /\ i - (k - 1) + k = i + 1
      BY <2>5
    <3>2. \A j \in 1 .. Len(a) + Len(b) : (a \o b)[j] = IF j <= Len(a) THEN a[j] ELSE b[j - Len(a)]
      BY <2>5
    <3>3. i \in 1 .. Len(a) + Len(b) /\ ~(i <= Len(a))
      BY <2>1, <2>5
    <3>4. e[i] = b[i - (k - 1)]
      BY <2>4, <2>5, <3>2, <3>3
    <3> QED
      BY <2>5, <3>1, <3>4
  <2>9. ASSUME NEW x PROVE Has(e, x) <=> Has(q, x) /\ x # c
    <3>1. ASSUME NEW i \in 1 .. Len(e), e[i] = x PROVE Has(q, x) /\ x # c
      <4>1. CASE i < k
        <5>1. i \in 1 .. Len(q) /\ q[i] = x /\ i # k
          BY <2>5, <2>6, <2>7, <3>1, <4>1
        <5> QED
          BY <2>1, <5>1 DEF Has, Once
      <4>2. CASE i >= k
        <5>1. i + 1 \in 1 .. Len(q) /\ q[i + 1] = x /\ i + 1 # k
          BY <2>5, <2>6, <2>8, <3>1, <4>2
        <5> QED
          BY <2>1, <5>1 DEF Has, Once
      <4> QED
        BY <2>5, <2>6, <4>1, <4>2
    <3>2. ASSUME NEW i \in 1 .. Len(q), q[i] = x, x # c PROVE Has(e, x)
      <4>1. CASE i < k
        BY <2>5, <2>6, <2>7, <3>2, <4>1 DEF Has
      <4>2. CASE i > k
        <5>1. i - 1 \in 1 .. Len(e) /\ i - 1 \in k .. Len(q) - 1 /\ (i - 1) + 1 = i
          BY <2>5, <2>6, <4>2
        <5>2. e[i - 1] = x
          BY <2>8, <3>2, <5>1
        <5> QED
          BY <5>1, <5>2 DEF Has
      <4>3. i # k
        BY <2>1, <3>2
      <4> QED
        BY <2>5, <4>1, <4>2, <4>3
    <3> QED
      BY <3>1, <3>2 DEF Has
  <2>10. Once(e)
    <3> SUFFICES ASSUME NEW i \in 1 .. Len(e), NEW j \in 1 .. Len(e), e[i] = e[j] PROVE i = j
      BY DEF Once
    <3> DEFINE at(n) == IF n < k THEN n ELSE n + 1
    <3>1. at(i) \in 1 .. Len(q) /\ at(j) \in 1 .. Len(q)
      BY <2>5, <2>6
    <3>2. e[i] = q[at(i)] /\ e[j] = q[at(j)]
      <4>1. \A n \in 1 .. Len(e) : n < k => n \in 1 .. k - 1
        BY <2>5, <2>6
      <4>2. \A n \in 1 .. Len(e) : ~(n < k) => n \in k .. Len(q) - 1
        BY <2>5, <2>6
      <4> QED
        BY <2>7, <2>8, <4>1, <4>2
    <3>3. at(i) = at(j)
      BY <3>1, <3>2 DEF Once
    <3> QED
      BY <2>5, <2>6, <3>3
  <2> QED
    BY <2>3, <2>6, <2>9, <2>10
<1> QED
  BY <1>1, <1>2

\* One list behind another, turned round.
LEMMA ReverseHas ==
    ASSUME NEW S, NEW p \in Seq(S), NEW q \in Seq(S), Once(p), Once(q),
           \A x : ~(Has(p, x) /\ Has(q, x))
    PROVE  /\ p \o Reverse(q) \in Seq(S)
           /\ \A x : Has(p \o Reverse(q), x) <=> Has(p, x) \/ Has(q, x)
           /\ Once(p \o Reverse(q))
<1>1. PICK r, e : r = Reverse(q) /\ e = p \o r
  OBVIOUS
<1>2. /\ Len(p) \in Nat /\ Len(q) \in Nat /\ r \in Seq(S) /\ Len(r) = Len(q)
      /\ \A i \in 1 .. Len(q) : r[i] = q[(Len(q) - i) + 1] /\ (Len(q) - i) + 1 \in 1 .. Len(q)
  BY <1>1 DEF Reverse
<1>3. /\ e \in Seq(S) /\ Len(e) = Len(p) + Len(q)
      /\ \A i \in 1 .. Len(p) : e[i] = p[i]
      /\ \A i \in 1 .. Len(q) : e[i + Len(p)] = r[i]
  <2>0. r \in Seq(S) /\ e = p \o r
    BY <1>1, <1>2
  <2>1. e \in Seq(S) /\ Len(e) = Len(p) + Len(r)
    BY ONLY <2>0, p \in Seq(S)
  <2>2. \A i \in 1 .. Len(p) : e[i] = p[i]
    BY <1>1, <1>2
  <2>3. ASSUME NEW i \in 1 .. Len(q) PROVE e[i + Len(p)] = r[i]
    <3>1. i + Len(p) \in 1 .. Len(p) + Len(r) /\ ~(i + Len(p) <= Len(p)) /\ (i + Len(p)) - Len(p) = i
      BY <1>2
    <3>2. \A j \in 1 .. Len(p) + Len(r) : (p \o r)[j] = IF j <= Len(p) THEN p[j] ELSE r[j - Len(p)]
      BY <1>2
    <3> QED
      BY <1>1, <3>1, <3>2
  <2> QED
    BY <1>2, <2>1, <2>2, <2>3
<1>4. \A i \in Len(p) + 1 .. Len(p) + Len(q) :
          /\ (Len(q) - (i - Len(p))) + 1 \in 1 .. Len(q)
          /\ e[i] = q[(Len(q) - (i - Len(p))) + 1]
  <2> TAKE i \in Len(p) + 1 .. Len(p) + Len(q)
  <2>1. i - Len(p) \in 1 .. Len(q) /\ (i - Len(p)) + Len(p) = i
    BY <1>2
  <2> QED
    BY <1>2, <1>3, <2>1
<1>5. ASSUME NEW x PROVE Has(e, x) <=> Has(p, x) \/ Has(q, x)
  <2>1. Has(p, x) => Has(e, x)
    BY <1>2, <1>3 DEF Has
  <2>2. ASSUME NEW i \in 1 .. Len(q), q[i] = x PROVE Has(e, x)
    <3>1. (Len(q) - i) + 1 \in 1 .. Len(q) /\ (Len(q) - ((Len(q) - i) + 1)) + 1 = i
      BY <1>2
    <3>2. r[(Len(q) - i) + 1] = x
      BY <1>2, <2>2, <3>1
    <3>3. PICK m \in 1 .. Len(q) : m = (Len(q) - i) + 1
      BY <3>1
    <3>4. e[m + Len(p)] = x
      BY <1>3, <3>2, <3>3
    <3>5. m + Len(p) \in 1 .. Len(e)
      <4>1. Len(p) \in Nat /\ Len(q) \in Nat /\ Len(e) = Len(p) + Len(q)
        BY <1>2, <1>3
      <4> QED
        BY ONLY <4>1, m \in 1 .. Len(q)
    <3> QED
      BY <3>4, <3>5 DEF Has
  <2>3. ASSUME NEW i \in 1 .. Len(e), e[i] = x PROVE Has(p, x) \/ Has(q, x)
    <3>1. CASE i <= Len(p)
      BY <1>2, <1>3, <2>3, <3>1 DEF Has
    <3>2. CASE i > Len(p)
      <4>1. i \in Len(p) + 1 .. Len(p) + Len(q)
        BY <1>2, <1>3, <3>2
      <4> QED
        BY <1>4, <2>3, <4>1 DEF Has
    <3> QED
      BY <1>2, <1>3, <3>1, <3>2
  <2> QED
    BY <2>1, <2>2, <2>3 DEF Has
<1>6. Once(e)
  <2> SUFFICES ASSUME NEW i \in 1 .. Len(e), NEW j \in 1 .. Len(e), e[i] = e[j] PROVE i = j
    BY DEF Once
  <2> DEFINE at(n) == (Len(q) - (n - Len(p))) + 1
  <2>1. \A n \in 1 .. Len(e) : n <= Len(p) => n \in 1 .. Len(p) /\ e[n] = p[n]
    BY <1>2, <1>3
  <2>2. \A n \in 1 .. Len(e) : n > Len(p) => at(n) \in 1 .. Len(q) /\ e[n] = q[at(n)]
    <3> TAKE n \in 1 .. Len(e)
    <3> HAVE n > Len(p)
    <3>1. n \in Len(p) + 1 .. Len(p) + Len(q)
      BY <1>2, <1>3
    <3> QED
      BY <1>4, <3>1
  <2>3. CASE i <= Len(p) /\ j <= Len(p)
    BY <2>1, <2>3 DEF Once
  <2>4. CASE i > Len(p) /\ j > Len(p)
    <3>1. at(i) = at(j)
      BY <2>2, <2>4 DEF Once
    <3> QED
      BY <1>2, <1>3, <3>1
  <2>5. CASE i <= Len(p) /\ j > Len(p)
    <3>1. Has(p, e[i]) /\ Has(q, e[j])
      BY <2>1, <2>2, <2>5 DEF Has
    <3> QED
      BY <3>1
  <2>6. CASE i > Len(p) /\ j <= Len(p)
    <3>1. Has(q, e[i]) /\ Has(p, e[j])
      BY <2>1, <2>2, <2>6 DEF Has
    <3> QED
      BY <3>1
  <2> QED
    BY <1>2, <1>3, <2>3, <2>4, <2>5, <2>6
<1> QED
  BY <1>1, <1>3, <1>5, <1>6

-----------------------------------------------------------------------------
(***************************************************************************)
(* The pool.  What every handler has to know about it is which connections *)
(* are busy: live, and not free.                                           *)
(***************************************************************************)

PoolType == [created : SUBSET Conns, conn : SUBSET Conns, free : Seq(Conns), bad : Seq(Conns), max : Int]

PoolLists(p) ==
    /\ Once(p.free) /\ Once(p.bad)
    /\ \A c \in Conns : Has(p.free, c) => c \in p.conn
    /\ \A c \in Conns : Has(p.bad, c) => c \notin p.conn
    /\ \A c \in Conns : c \in p.created <=> c \in p.conn \/ Has(p.bad, c)

PoolSizes(p) ==
    /\ Cardinality(p.conn) <= p.max /\ p.max <= CfgMaxConns
    /\ Cardinality(p.created) <= CfgMaxConns

PoolOK(p) == p \in PoolType /\ PoolLists(p) /\ PoolSizes(p)

Busy(p) == {c \in p.conn : ~Has(p.free, c)}

LEMMA Finite ==
    ASSUME NEW S \in SUBSET Conns
    PROVE  /\ IsFiniteSet(S) /\ Cardinality(S) \in Nat /\ Cardinality(S) <= Cardinality(Conns)
           /\ Cardinality(Conns) \in Nat
           /\ \A T \in SUBSET S : Cardinality(T) <= Cardinality(S)
  BY MaxAssumption, FS_Subset, FS_CardinalityType

LEMMA HasConns ==
    ASSUME NEW q \in Seq(Conns), NEW x, Has(q, x)
    PROVE  x \in Conns
  BY DEF Has

LEMMA RemoveConnOK ==
    ASSUME NEW p, PoolOK(p), NEW c \in Conns, NEW q, q = RemoveConn(p, c)
    PROVE  /\ PoolOK(q) /\ q.max = p.max
           /\ Busy(q) = Busy(p) \ {c}
           /\ c \notin q.conn
           /\ \A x \in Conns : x # c => (Has(q.free, x) <=> Has(p.free, x))
<1>1. PICK f, b : f = p.free /\ b = p.bad
  OBVIOUS
<1>2. /\ p \in PoolType /\ f \in Seq(Conns) /\ b \in Seq(Conns) /\ Once(f) /\ Once(b)
      /\ p.conn \in SUBSET Conns /\ p.created \in SUBSET Conns
  BY <1>1 DEF PoolOK, PoolLists, PoolType
<1>3. \A x : x \in ToSet(f) <=> Has(f, x)
  BY <1>2, ToSetHas
<1>4. CASE c \in p.conn
  <2>1. PICK e : e = Erase(f, c)
    OBVIOUS
  <2>2. PICK a : a = Append(b, c)
    OBVIOUS
  <2>3. e \in Seq(Conns) /\ Once(e) /\ \A x : Has(e, x) <=> Has(f, x) /\ x # c
    BY <1>2, <2>1, EraseHas
  <2>4. ~Has(b, c)
    BY <1>1, <1>4 DEF PoolOK, PoolLists
  <2>5. a \in Seq(Conns) /\ Once(a) /\ \A x : Has(a, x) <=> Has(b, x) \/ x = c
    BY <1>2, <2>2, <2>4, AppendHas
  <2>6. q = [p EXCEPT !.conn = p.conn \ {c}, !.free = e, !.bad = a]
    BY <1>1, <1>4, <2>1, <2>2 DEF RemoveConn
  <2>7. /\ q.conn = p.conn \ {c} /\ q.free = e /\ q.bad = a /\ q.created = p.created /\ q.max = p.max
        /\ q \in PoolType
    BY <1>2, <2>3, <2>5, <2>6 DEF PoolType
  <2>8. PoolLists(q)
    BY <1>1, <1>4, <2>3, <2>5, <2>7 DEF PoolOK, PoolLists
  <2>9. PoolSizes(q)
    <3>1. p.conn \ {c} \in SUBSET p.conn
      OBVIOUS
    <3>2. Cardinality(p.conn \ {c}) <= Cardinality(p.conn) /\ Cardinality(p.conn) \in Nat
          /\ Cardinality(p.conn \ {c}) \in Nat
      BY <1>2, <3>1, Finite
    <3>3. PICK m \in Int : m = p.max
      BY <1>2 DEF PoolType
    <3> QED
      BY <2>7, <3>2, <3>3 DEF PoolOK, PoolSizes
  <2>10. Busy(q) = Busy(p) \ {c}
    BY <1>1, <2>3, <2>7 DEF Busy
  <2> QED
    BY <1>1, <2>3, <2>7, <2>8, <2>9, <2>10 DEF PoolOK
<1>5. CASE c \notin p.conn
  <2>1. ~Has(f, c)
    BY <1>1, <1>5 DEF PoolOK, PoolLists
  <2>2. q = p
    BY <1>1, <1>3, <1>5, <2>1 DEF RemoveConn
  <2>3. c \notin Busy(p)
    BY <1>5 DEF Busy
  <2> QED
    BY <1>5, <2>2, <2>3
<1> QED
  BY <1>4, <1>5

LEMMA SetMaxOK ==
    ASSUME NEW p, PoolOK(p), NEW m \in Int, NEW q, q = [p EXCEPT !.max = m],
           Cardinality(p.conn) <= m, m <= CfgMaxConns
    PROVE  PoolOK(q) /\ Busy(q) = Busy(p) /\ q.conn = p.conn /\ q.free = p.free /\ q.max = m
<1>1. /\ q \in PoolType /\ q.conn = p.conn /\ q.free = p.free /\ q.bad = p.bad
      /\ q.created = p.created /\ q.max = m
  BY DEF PoolOK, PoolType
<1> QED
  BY <1>1 DEF PoolOK, PoolLists, PoolSizes, Busy

LEMMA PoolNumbers ==
    ASSUME NEW p, PoolOK(p)
    PROVE  /\ p.max \in Int /\ Cardinality(p.conn) \in Nat /\ CfgMaxConns \in Nat
           /\ Cardinality(p.conn) <= p.max /\ p.max <= CfgMaxConns
<1>1. p.conn \in SUBSET Conns /\ p.max \in Int
  BY DEF PoolOK, PoolType
<1> QED
  BY <1>1, Finite, MaxAssumption DEF PoolOK, PoolSizes

LEMMA DecMaxConnOK ==
    ASSUME NEW p, PoolOK(p), NEW q, q = DecMaxConn(p)
    PROVE  PoolOK(q) /\ Busy(q) = Busy(p) /\ q.conn = p.conn /\ q.free = p.free
<1>1. PICK n \in Nat, m \in Int : n = Cardinality(p.conn) /\ m = p.max
  BY PoolNumbers
<1>2. CanAddMore(p) <=> m > n
  BY <1>1 DEF CanAddMore
<1>3. CASE m > n
  <2>1. q = [p EXCEPT !.max = m - 1]
    BY <1>1, <1>2, <1>3 DEF DecMaxConn
  <2>2. n <= m - 1 /\ m - 1 \in Int
    BY <1>3
  <2>3. m - 1 <= CfgMaxConns
    BY <1>1, PoolNumbers
  <2> QED
    BY <1>1, <2>1, <2>2, <2>3, SetMaxOK
<1>4. CASE ~(m > n)
  BY <1>2, <1>4 DEF DecMaxConn
<1> QED
  BY <1>3, <1>4

LEMMA StartPoolOK ==
    ASSUME NEW p, PoolOK(p), NEW w, NEW q, q = StartPool(w, p)
    PROVE  PoolOK(q) /\ Busy(q) = Busy(p) /\ q.conn = p.conn /\ q.free = p.free
<1>1. CASE Starts(w) /\ p.max < CfgMaxConns
  <2>1. q = [p EXCEPT !.max = CfgMaxConns]
    BY <1>1 DEF StartPool, SetMaxConns
  <2>2. Cardinality(p.conn) <= CfgMaxConns /\ CfgMaxConns \in Int
    BY PoolNumbers
  <2> QED
    BY <2>1, <2>2, SetMaxOK
<1>2. CASE ~(Starts(w) /\ p.max < CfgMaxConns)
  BY <1>2 DEF StartPool, SetMaxConns
<1> QED
  BY <1>1, <1>2

LEMMA DropFreeOK ==
    ASSUME NEW p, PoolOK(p), NEW q, q = DropFree(p)
    PROVE  PoolOK(q) /\ Busy(q) = Busy(p) /\ q.conn = Busy(p) /\ q.free = <<>>
<1>1. PICK f, b : f = p.free /\ b = p.bad
  OBVIOUS
<1>2. /\ p \in PoolType /\ f \in Seq(Conns) /\ b \in Seq(Conns) /\ Once(f) /\ Once(b)
      /\ p.conn \in SUBSET Conns /\ p.created \in SUBSET Conns
  BY <1>1 DEF PoolOK, PoolLists, PoolType
<1>3. \A x : x \in ToSet(f) <=> Has(f, x)
  BY <1>2, ToSetHas
<1>4. \A x : ~(Has(b, x) /\ Has(f, x))
  BY <1>1, <1>2, HasConns DEF PoolOK, PoolLists
<1>5. PICK a : a = b \o Reverse(f)
  OBVIOUS
<1>6. a \in Seq(Conns) /\ Once(a) /\ \A x : Has(a, x) <=> Has(b, x) \/ Has(f, x)
  BY <1>2, <1>4, <1>5, ReverseHas
<1>7. PICK k : k = p.conn \ ToSet(f)
  OBVIOUS
<1>8. k = Busy(p) /\ k \in SUBSET p.conn
  BY <1>1, <1>3, <1>7 DEF Busy
<1>9. q = [p EXCEPT !.conn = k, !.free = <<>>, !.bad = a]
  BY <1>1, <1>5, <1>7 DEF DropFree
<1>10. /\ q.conn = k /\ q.free = <<>> /\ q.bad = a /\ q.created = p.created /\ q.max = p.max
       /\ q \in PoolType
  <2>1. <<>> \in Seq(Conns) /\ k \in SUBSET Conns
    BY <1>2, <1>8
  <2> QED
    BY <1>2, <1>6, <1>9, <2>1 DEF PoolType
<1>11. \A x : ~Has(<<>>, x)
  BY DEF Has
<1>12. Once(<<>>)
  BY DEF Once
<1>13. PoolLists(q)
  <2>1. \A c \in Conns : c \in k <=> c \in p.conn /\ ~Has(f, c)
    BY <1>1, <1>8 DEF Busy
  <2>2. \A c \in Conns : Has(a, c) => c \notin k
    BY <1>1, <1>6, <2>1 DEF PoolOK, PoolLists
  <2>3. \A c \in Conns : c \in p.created <=> c \in k \/ Has(a, c)
    BY <1>1, <1>6, <2>1 DEF PoolOK, PoolLists
  <2> QED
    BY <1>6, <1>10, <1>11, <1>12, <2>2, <2>3 DEF PoolLists
<1>14. PoolSizes(q)
  <2>1. Cardinality(k) <= Cardinality(p.conn) /\ Cardinality(k) \in Nat
    BY <1>2, <1>8, Finite
  <2>2. PICK m \in Int : m = p.max
    BY <1>2 DEF PoolType
  <2>3. Cardinality(p.conn) \in Nat /\ Cardinality(p.conn) <= m
    BY <2>2, PoolNumbers
  <2> QED
    BY <1>10, <2>1, <2>2, <2>3 DEF PoolOK, PoolSizes
<1>15. Busy(q) = k
  BY <1>10, <1>11 DEF Busy
<1> QED
  BY <1>8, <1>10, <1>13, <1>14, <1>15 DEF PoolOK

\* A connection that is busy goes back to the free ones.
LEMMA ReuseOK ==
    ASSUME NEW p, PoolOK(p), NEW c \in Busy(p), NEW q, q = [p EXCEPT !.free = Append(@, c)]
    PROVE  PoolOK(q) /\ Busy(q) = Busy(p) \ {c} /\ q.conn = p.conn
<1>1. PICK f : f = p.free
  OBVIOUS
<1>2. p \in PoolType /\ f \in Seq(Conns) /\ Once(f) /\ c \in Conns /\ c \in p.conn /\ ~Has(f, c)
  BY <1>1 DEF PoolOK, PoolLists, PoolType, Busy
<1>3. PICK a : a = Append(f, c)
  OBVIOUS
<1>4. a \in Seq(Conns) /\ Once(a) /\ \A x : Has(a, x) <=> Has(f, x) \/ x = c
  BY <1>2, <1>3, AppendHas
<1>5. q = [p EXCEPT !.free = a]
  BY <1>1, <1>3
<1>6. /\ q.conn = p.conn /\ q.free = a /\ q.bad = p.bad /\ q.created = p.created /\ q.max = p.max
      /\ q \in PoolType
  BY <1>2, <1>4, <1>5 DEF PoolType
<1>7. PoolLists(q)
  BY <1>1, <1>2, <1>4, <1>6 DEF PoolOK, PoolLists
<1>8. PoolSizes(q)
  BY <1>6 DEF PoolOK, PoolSizes
<1>9. Busy(q) = Busy(p) \ {c}
  BY <1>1, <1>4, <1>6 DEF Busy
<1> QED
  BY <1>6, <1>7, <1>8, <1>9 DEF PoolOK

\* What getConn() hands out was not busy and is now.
Got(p, g) ==
    /\ PoolOK(g.p)
    /\ g.c = NoConn => g.p = p
    /\ g.c # NoConn => /\ g.c \in Conns /\ g.c \notin Busy(p)
                       /\ Busy(g.p) = Busy(p) \cup {g.c}

LEMMA GetConnOK ==
    ASSUME NEW p, PoolOK(p), NEW g, g = GetConn(p)
    PROVE  Got(p, g)
<1>1. PICK f, b : f = p.free /\ b = p.bad
  OBVIOUS
<1>2. /\ p \in PoolType /\ f \in Seq(Conns) /\ b \in Seq(Conns) /\ Once(f) /\ Once(b)
      /\ p.conn \in SUBSET Conns /\ p.created \in SUBSET Conns
  BY <1>1 DEF PoolOK, PoolLists, PoolType
<1>3. CASE f # <<>>
  <2>1. PICK c, a : c = Last(f) /\ a = Front(f)
    OBVIOUS
  <2>2. a \in Seq(Conns) /\ c \in Conns /\ Has(f, c) /\ Once(a) /\ \A x : Has(a, x) <=> Has(f, x) /\ x # c
    BY <1>2, <1>3, <2>1, FrontHas
  <2>3. PICK q : q = [p EXCEPT !.free = a]
    OBVIOUS
  <2>4. g = [c |-> c, p |-> q]
    BY <1>1, <1>3, <2>1, <2>3 DEF GetConn
  <2>5. /\ q.conn = p.conn /\ q.free = a /\ q.bad = p.bad /\ q.created = p.created /\ q.max = p.max
        /\ q \in PoolType
    BY <1>2, <2>2, <2>3 DEF PoolType
  <2>6. PoolOK(q)
    BY <1>1, <2>2, <2>5 DEF PoolOK, PoolLists, PoolSizes
  <2>7. c \in p.conn
    BY <1>1, <2>2 DEF PoolOK, PoolLists
  <2>8. Busy(q) = Busy(p) \cup {c} /\ c \notin Busy(p)
    BY <1>1, <2>2, <2>5, <2>7 DEF Busy
  <2>9. c # NoConn
    BY <2>2, ConnAssumption
  <2> QED
    BY <2>2, <2>4, <2>6, <2>8, <2>9 DEF Got
<1>4. CASE f = <<>> /\ ~CanAddMore(p)
  BY <1>1, <1>4 DEF GetConn, Got
<1>5. CASE f = <<>> /\ CanAddMore(p)
  <2>1. \A x : ~Has(f, x)
    BY <1>5 DEF Has
  <2>2. PICK n \in Nat, m \in Int : n = Cardinality(p.conn) /\ m = p.max
    BY PoolNumbers
  <2>3. m > n /\ m <= CfgMaxConns /\ CfgMaxConns \in Nat
    BY <1>5, <2>2, PoolNumbers DEF CanAddMore
  <2>4. CASE b # <<>>
    <3>1. PICK c, a : c = Last(b) /\ a = Front(b)
      OBVIOUS
    <3>2. a \in Seq(Conns) /\ c \in Conns /\ Has(b, c) /\ Once(a) /\ \A x : Has(a, x) <=> Has(b, x) /\ x # c
      BY <1>2, <2>4, <3>1, FrontHas
    <3>3. PICK q : q = [p EXCEPT !.bad = a, !.conn = p.conn \cup {c}]
      OBVIOUS
    <3>4. g = [c |-> c, p |-> q]
      BY <1>1, <1>5, <2>4, <3>1, <3>3 DEF GetConn
    <3>5. /\ q.conn = p.conn \cup {c} /\ q.free = p.free /\ q.bad = a /\ q.created = p.created
          /\ q.max = p.max /\ q \in PoolType
      BY <1>2, <3>2, <3>3 DEF PoolType
    <3>6. c \notin p.conn
      BY <1>1, <3>2 DEF PoolOK, PoolLists
    <3>7. PoolLists(q)
      BY <1>1, <3>2, <3>5, <3>6 DEF PoolOK, PoolLists
    <3>8. Cardinality(q.conn) = n + 1
      BY <1>2, <2>2, <3>5, <3>6, Finite, FS_AddElement
    <3>9. PoolSizes(q)
      BY <2>2, <2>3, <3>5, <3>8 DEF PoolOK, PoolSizes
    <3>10. Busy(q) = Busy(p) \cup {c} /\ c \notin Busy(p)
      BY <1>1, <2>1, <3>5, <3>6 DEF Busy
    <3>11. c # NoConn
      BY <3>2, ConnAssumption
    <3> QED
      BY <3>2, <3>4, <3>5, <3>7, <3>9, <3>10, <3>11 DEF Got, PoolOK
  <2>5. CASE b = <<>>
    <3>1. \A x : ~Has(b, x)
      BY <2>5 DEF Has
    <3>2. p.created = p.conn
      BY <1>1, <1>2, <3>1 DEF PoolOK, PoolLists
    <3>3. \E x \in Conns : x \notin p.created
      <4>1. CASE Conns = p.created
        <5>1. Cardinality(Conns) = n
          BY <2>2, <3>2, <4>1
        <5> QED
          BY <2>3, <5>1, MaxAssumption
      <4> QED
        BY <1>2, <4>1
    <3>4. PICK c : c = CHOOSE x \in Conns : x \notin p.created
      OBVIOUS
    <3>5. c \in Conns /\ c \notin p.created
      BY <3>3, <3>4
    <3>6. PICK q : q = [p EXCEPT !.created = p.created \cup {c}, !.conn = p.conn \cup {c}]
      OBVIOUS
    <3>7. g = [c |-> c, p |-> q]
      BY <1>1, <1>5, <2>5, <3>4, <3>6 DEF GetConn
    <3>8. /\ q.conn = p.conn \cup {c} /\ q.free = p.free /\ q.bad = p.bad
          /\ q.created = p.created \cup {c} /\ q.max = p.max /\ q \in PoolType
      BY <1>2, <3>5, <3>6 DEF PoolType
    <3>9. PoolLists(q)
      BY <1>1, <2>1, <3>1, <3>2, <3>5, <3>8 DEF PoolOK, PoolLists
    <3>10. Cardinality(q.conn) = n + 1 /\ Cardinality(q.created) = n + 1
      BY <1>2, <2>2, <3>2, <3>5, <3>8, Finite, FS_AddElement
    <3>11. PoolSizes(q)
      BY <2>2, <2>3, <3>8, <3>10 DEF PoolOK, PoolSizes
    <3>12. Busy(q) = Busy(p) \cup {c} /\ c \notin Busy(p)
      BY <1>1, <2>1, <3>2, <3>5, <3>8 DEF Busy
    <3>13. c # NoConn
      BY <3>5, ConnAssumption
    <3> QED
      BY <3>5, <3>7, <3>8, <3>9, <3>11, <3>12, <3>13 DEF Got, PoolOK
  <2> QED
    BY <2>4, <2>5
<1> QED
  BY <1>3, <1>4, <1>5

\* What the run checks of the lists.
LEMMA PoolOKLists ==
    ASSUME PoolOK(pool)
    PROVE  ListsConsistent
<1>1. PICK f, b : f = pool.free /\ b = pool.bad
  OBVIOUS
<1>2. /\ f \in Seq(Conns) /\ b \in Seq(Conns) /\ Once(f) /\ Once(b)
      /\ pool.conn \in SUBSET Conns /\ pool.created \in SUBSET Conns
  BY <1>1 DEF PoolOK, PoolLists, PoolType
<1>3. \A x : (x \in ToSet(f) <=> Has(f, x)) /\ (x \in ToSet(b) <=> Has(b, x))
  BY <1>2, ToSetHas
<1>4. NoDuplicates(f) /\ NoDuplicates(b)
  BY <1>2, OnceCounts
<1>5. \A x : (Has(f, x) => x \in Conns) /\ (Has(b, x) => x \in Conns)
  BY <1>2, HasConns
<1>6. /\ ToSet(f) \subseteq pool.conn /\ pool.conn \cap ToSet(b) = {}
      /\ pool.created = pool.conn \cup ToSet(b)
  BY <1>1, <1>2, <1>3, <1>5 DEF PoolOK, PoolLists
<1> QED
  BY <1>1, <1>4, <1>6 DEF ListsConsistent, PoolOK, PoolSizes

-----------------------------------------------------------------------------
(***************************************************************************)
(* The inductive invariant, first part: types, and what the function at    *)
(* the top of the stack holds in its hands.                                *)
(***************************************************************************)

Rets == {0, 1, 500, SC_503, LS_FAIL}

ConnType == [st : ConnStates, req : Reqs \cup {NoReq}, toClose : BOOLEAN, used : BOOLEAN,
             sent : BOOLEAN, inProcess : BOOLEAN]
ReqType == [st : {"idle", "active", "over"}, proc : Conns \cup {NoConn}, attempts : Nat,
            hec : {"begin", "fwd", "resp"}, hdr : {"none", "ok", "close"}, err : BOOLEAN,
            abort : BOOLEAN, complete : BOOLEAN, alive : BOOLEAN, out : {0, 200, 500, SC_503}]
WorkerType == [st : {"NOTSTARTED", "BAD", "GOOD"}, errors : Nat, linger : Int,
               errRecent : BOOLEAN, restartRecent : BOOLEAN]

Types ==
    /\ conn \in [Conns -> ConnType]
    /\ worker \in WorkerType
    /\ queue \in Seq(Reqs) /\ Once(queue)
    /\ req \in [Reqs -> ReqType]
    /\ ret \in Rets
    /\ errno \in Errnos \cup {"none"}
    /\ faults \in 0 .. MaxFaults

\* A frame names the connection or the request its function works on.
Marks == Rets \cup Errnos \cup {"none"} \cup BOOLEAN
AnyFrame == [fn : FrameNames, c : Conns \cup {NoConn}, r : Reqs \cup {NoReq}, x : Marks]
OfConn == {"processRequest2", "assignReq", "assignReq2", "connectEx", "doWrite", "connError", "connError2",
           "connectionError", "recycleConn", "recycleLoop", "recycleLoop2", "processPending2",
           "onEventDone"}
OfReq  == {"process", "processRequest", "assignReq", "tryRecover", "tryRecover2", "endResponse"}

FrameOK(f) ==
    /\ f \in AnyFrame
    /\ f.fn \in OfConn => f.c \in Conns
    /\ f.fn \in OfReq => f.r \in Reqs
    /\ f.fn = "return" => f.x \in Rets

\* The functions that are found on the stack when another one returns.
Resumes == {"processRequest2", "process", "return", "recycleLoop2", "processPending2", "assignReq2",
            "connError2", "connectionError2", "failOutstandingReqs", "tryRecover2", "onEventDone",
            "resetStats2", "connError"}

Stacked(s) ==
    /\ s \in Seq(AnyFrame)
    /\ \A i \in 1 .. Len(s) : FrameOK(s[i])
    /\ \A i \in 2 .. Len(s) : s[i].fn \in Resumes

\* A request is in the queue, on one connection, or nowhere; a connection that
\* carries one is busy.
Placed(cn, q, rq, p) ==
    /\ \A c \in Conns : cn[c].req # NoReq => c \in Busy(p)
    /\ \A c \in Conns, r \in Reqs : (cn[c].req = r) <=> (rq[r].proc = c)
    /\ \A r \in Reqs : rq[r].proc # NoConn \/ Has(q, r) => rq[r].st = "active" /\ ~rq[r].complete
    /\ \A r \in Reqs : ~(rq[r].proc # NoConn /\ Has(q, r))

\* A connection, a request that only the running function knows of.
Idle(cn, p, c) == c \in Busy(p) /\ cn[c].req = NoReq
Loose(q, rq, r) == ~Has(q, r) /\ rq[r].proc = NoConn /\ rq[r].st = "active" /\ ~rq[r].complete

Held(f, cn, q, rq, p) ==
    /\ f.fn \in {"recycleConn", "recycleLoop", "assignReq"} => Idle(cn, p, f.c)
    /\ f.fn = "processPending" /\ f.c # NoConn => Idle(cn, p, f.c)
    /\ f.fn \in {"processRequest", "assignReq", "tryRecover"} => Loose(q, rq, f.r)

BaseInv ==
    /\ Types
    /\ PoolOK(pool)
    /\ Stacked(stack)
    /\ Placed(conn, queue, req, pool)
    /\ stack # <<>> => Held(Head(stack), conn, queue, req, pool)

-----------------------------------------------------------------------------

\* Resumed functions hold nothing.
LEMMA ResumedHolds ==
    ASSUME NEW f, f.fn \in Resumes, NEW cn, NEW q, NEW rq, NEW p
    PROVE  Held(f, cn, q, rq, p)
  BY DEF Resumes, Held

\* The stack after a function has returned, or has called others.
LEMMA PopStack ==
    ASSUME NEW s, Stacked(s), s # <<>>, NEW t, t = Tail(s)
    PROVE  /\ Stacked(t) /\ FrameOK(Head(s))
           /\ t # <<>> => Head(t).fn \in Resumes
<1>1. s \in Seq(AnyFrame)
  BY DEF Stacked
<1>2. /\ t \in Seq(AnyFrame) /\ Len(s) \in Nat /\ Len(s) > 0 /\ Len(t) = Len(s) - 1
      /\ Head(s) = s[1] /\ \A i \in 1 .. Len(s) - 1 : t[i] = s[i + 1]
  BY <1>1
<1>3. FrameOK(Head(s))
  BY <1>2 DEF Stacked
<1>4. \A i \in 1 .. Len(t) : i + 1 \in 1 .. Len(s) /\ i + 1 \in 2 .. Len(s) /\ t[i] = s[i + 1]
  BY <1>2
<1>5. \A i \in 1 .. Len(t) : FrameOK(t[i]) /\ t[i].fn \in Resumes
  BY <1>4 DEF Stacked
<1>6. ASSUME t # <<>> PROVE Head(t).fn \in Resumes
  <2>1. Head(t) = t[1] /\ 1 \in 1 .. Len(t)
    BY <1>2, <1>6
  <2> QED
    BY <1>5, <2>1
<1>7. \A i \in 2 .. Len(t) : i \in 1 .. Len(t)
  BY <1>2
<1> QED
  BY <1>2, <1>3, <1>5, <1>6, <1>7 DEF Stacked

\* one frame on top of frames that wait
LEMMA OnTop ==
    ASSUME NEW s, Stacked(s), s # <<>> => Head(s).fn \in Resumes, NEW f, FrameOK(f), NEW t, t = <<f>> \o s
    PROVE  Stacked(t) /\ t # <<>> /\ Head(t) = f /\ Tail(t) = s
<1>1. s \in Seq(AnyFrame) /\ f \in AnyFrame
  BY DEF Stacked, FrameOK
<1>2. /\ t \in Seq(AnyFrame) /\ Len(s) \in Nat /\ Len(t) = Len(s) + 1 /\ t # <<>>
      /\ Head(t) = f /\ t[1] = f
      /\ \A i \in 1 .. Len(s) : t[i + 1] = s[i]
  BY <1>1
<1>3. Tail(t) = s
  BY <1>1
<1>4. \A i \in 2 .. Len(t) : i - 1 \in 1 .. Len(s) /\ t[i] = s[i - 1]
  BY <1>2
<1>5. \A i \in 2 .. Len(t) : FrameOK(t[i])
  BY <1>4 DEF Stacked
<1>6. \A i \in 1 .. Len(t) : FrameOK(t[i])
  BY <1>2, <1>5
<1>7. ASSUME NEW i \in 1 .. Len(s) PROVE s[i].fn \in Resumes
  <2>1. CASE i = 1
    BY <1>1, <2>1
  <2>2. CASE i # 1
    BY <1>2, <2>2 DEF Stacked
  <2> QED
    BY <2>1, <2>2
<1> QED
  BY <1>2, <1>3, <1>4, <1>6, <1>7 DEF Stacked

LEMMA EmptyStack == Stacked(<<>>)
  BY DEF Stacked

\* Goto with one frame and with two, and calls from the event loop.
LEMMA Goto1 ==
    ASSUME NEW s, Stacked(s), s # <<>>, NEW f, FrameOK(f), NEW t, t = <<f>> \o Tail(s)
    PROVE  Stacked(t) /\ t # <<>> /\ Head(t) = f /\ Tail(t) = Tail(s)
<1>1. PICK u : u = Tail(s)
  OBVIOUS
<1>2. Stacked(u) /\ (u # <<>> => Head(u).fn \in Resumes)
  BY <1>1, PopStack
<1> QED
  BY <1>1, <1>2, OnTop

LEMMA Cons2 ==
    ASSUME NEW s, Stacked(s), NEW f, NEW g
    PROVE  <<f, g>> \o s = <<f>> \o (<<g>> \o s)
<1>1. s \in Seq(AnyFrame)
  BY DEF Stacked
<1>2. PICK S : S = AnyFrame \cup {f, g}
  OBVIOUS
<1>3. s \in Seq(S) /\ f \in S /\ g \in S
  BY <1>1, <1>2
<1>4. PICK u, v, w : u = <<f, g>> \o s /\ v = <<g>> \o s /\ w = <<f>> \o v
  OBVIOUS
<1>5. /\ v \in Seq(S) /\ Len(s) \in Nat /\ Len(v) = Len(s) + 1 /\ v[1] = g
      /\ \A i \in 1 .. Len(s) : v[i + 1] = s[i]
  BY <1>3, <1>4
<1>6. /\ w \in Seq(S) /\ Len(w) = Len(v) + 1 /\ w[1] = f
      /\ \A i \in 1 .. Len(v) : w[i + 1] = v[i]
  BY <1>3, <1>4, <1>5
<1>7. /\ u \in Seq(S) /\ Len(u) = Len(s) + 2 /\ u[1] = f /\ u[2] = g
      /\ \A i \in 1 .. Len(s) : u[i + 2] = s[i]
  BY <1>3, <1>4
<1>8. ASSUME NEW i \in 1 .. Len(u) PROVE u[i] = w[i]
  <2>1. CASE i = 1
    BY <1>6, <1>7, <2>1
  <2>2. CASE i = 2
    <3>1. w[2] = v[1]
      BY <1>5, <1>6
    <3> QED
      BY <1>5, <1>7, <2>2, <3>1
  <2>3. CASE i > 2
    <3>1. i - 2 \in 1 .. Len(s) /\ i - 1 \in 1 .. Len(v) /\ (i - 2) + 2 = i /\ (i - 1) + 1 = i /\ (i - 2) + 1 = i - 1
      BY <1>5, <1>7, <2>3
    <3>2. w[i] = v[i - 1] /\ v[i - 1] = s[i - 2]
      BY <1>5, <1>6, <3>1
    <3>3. u[i] = s[i - 2]
      BY <1>7, <3>1
    <3> QED
      BY <3>2, <3>3
  <2> QED
    BY <1>7, <2>1, <2>2, <2>3
<1>9. Len(u) = Len(w)
  BY <1>5, <1>6, <1>7
<1>10. u = w
  BY <1>6, <1>7, <1>8, <1>9, SeqEqual
<1> QED
  BY <1>4, <1>10

LEMMA Goto2 ==
    ASSUME NEW s, Stacked(s), s # <<>>, NEW f, FrameOK(f), NEW g, FrameOK(g), g.fn \in Resumes,
           NEW t, t = <<f, g>> \o Tail(s)
    PROVE  Stacked(t) /\ t # <<>> /\ Head(t) = f /\ Tail(t) = <<g>> \o Tail(s)
<1>1. PICK u, v : u = Tail(s) /\ v = <<g>> \o u
  OBVIOUS
<1>2. Stacked(u) /\ (u # <<>> => Head(u).fn \in Resumes)
  BY <1>1, PopStack
<1>3. Stacked(v) /\ v # <<>> /\ Head(v) = g
  BY <1>1, <1>2, OnTop
<1>4. t = <<f>> \o v
  BY <1>1, <1>2, Cons2
<1> QED
  BY <1>1, <1>3, <1>4, OnTop

-----------------------------------------------------------------------------
(***************************************************************************)
(* What the pieces do to connections and requests.                         *)
(***************************************************************************)

LEMMA ClosedOK ==
    ASSUME NEW k \in ConnType, NEW e, e = Closed(k)
    PROVE  /\ e \in ConnType /\ e.req = k.req /\ e.st = "DISCONNECTED"
           /\ e.toClose = k.toClose /\ e.used = k.used /\ e.sent = k.sent
           /\ k.st # "DISCONNECTED" => ~e.inProcess
           /\ k.st = "DISCONNECTED" => e = k
  BY DEF Closed, ConnType, ConnStates

LEMMA CleanedUpOK ==
    ASSUME NEW k \in ConnType, NEW e, e = CleanedUp(k)
    PROVE  /\ e \in ConnType /\ e.req = NoReq
           /\ k.st \in {"ABORT", "CLOSING"} \/ ~k.inProcess => ~e.inProcess
           /\ e.st \in {k.st, "DISCONNECTED"}
<1>1. PICK a : a = IF k.sent THEN k ELSE Closed(k)
  OBVIOUS
<1>2. /\ a \in ConnType /\ a.st \in {k.st, "DISCONNECTED"}
      /\ a.st # k.st => ~a.inProcess
      /\ a.st = k.st => a = k
  BY <1>1, ClosedOK DEF ConnType
<1>3. PICK b : b = [a EXCEPT !.req = NoReq, !.sent = FALSE]
  OBVIOUS
<1>4. b \in ConnType /\ b.req = NoReq /\ b.st = a.st /\ b.inProcess = a.inProcess
  BY <1>2, <1>3 DEF ConnType
<1>5. e = IF b.st \in {"ABORT", "CLOSING"} THEN Closed(b) ELSE b
  BY <1>1, <1>3 DEF CleanedUp
<1>6. CASE b.st \in {"ABORT", "CLOSING"}
  <2>1. e = Closed(b) /\ b.st # "DISCONNECTED"
    BY <1>5, <1>6
  <2> QED
    BY <1>4, <2>1, ClosedOK
<1>7. CASE b.st \notin {"ABORT", "CLOSING"}
  <2>1. e = b
    BY <1>5, <1>7
  <2> QED
    BY <1>2, <1>4, <1>7, <2>1
<1> QED
  BY <1>6, <1>7

\* A connection may be closed or told to close; the exchange it carries is the same.
Kept(k, e) ==
    /\ e \in ConnType /\ e.req = k.req
    /\ \/ e.st = k.st /\ e.inProcess = k.inProcess
       \/ e.st = "DISCONNECTED" /\ ~e.inProcess

AllKept(cn, dn) == dn \in [Conns -> ConnType] /\ \A c \in Conns : Kept(cn[c], dn[c])

LEMMA ClosedKept ==
    ASSUME NEW k \in ConnType
    PROVE  Kept(k, Closed(k)) /\ Kept(k, k)
  BY ClosedOK DEF Kept, ConnType

LEMMA CloseFreeOK ==
    ASSUME NEW cn \in [Conns -> ConnType], NEW p, NEW dn, dn = CloseFree(cn, p)
    PROVE  AllKept(cn, dn)
<1>1. dn = [c \in Conns |-> IF c \in ToSet(p.free) THEN Closed(cn[c]) ELSE cn[c]]
  BY DEF CloseFree
<1>2. ASSUME NEW c \in Conns PROVE Kept(cn[c], dn[c])
  BY <1>1, ClosedKept
<1>3. \A c \in Conns : dn[c] \in ConnType
  BY <1>2 DEF Kept
<1> QED
  BY <1>1, <1>2, <1>3 DEF AllKept

LEMMA ClearConnsOK ==
    ASSUME NEW cn \in [Conns -> ConnType], NEW p, NEW dn, dn = ClearConns(cn, p)
    PROVE  AllKept(cn, dn)
<1>1. PICK en : en = CloseFree(cn, p)
  OBVIOUS
<1>2. AllKept(cn, en)
  BY <1>1, CloseFreeOK
<1>3. dn = [c \in Conns |-> IF c \in ToLinger(cn, p) THEN [cn[c] EXCEPT !.toClose = TRUE] ELSE en[c]]
  BY <1>1 DEF ClearConns
<1>4. ASSUME NEW c \in Conns PROVE Kept(cn[c], dn[c])
  <2>1. CASE c \in ToLinger(cn, p)
    <3>1. cn[c] \in ConnType /\ dn[c] = [cn[c] EXCEPT !.toClose = TRUE]
      BY <1>3, <2>1
    <3> QED
      BY <3>1 DEF Kept, ConnType
  <2>2. CASE c \notin ToLinger(cn, p)
    BY <1>2, <1>3, <2>2 DEF AllKept
  <2> QED
    BY <2>1, <2>2
<1>5. \A c \in Conns : dn[c] \in ConnType
  BY <1>4 DEF Kept
<1> QED
  BY <1>3, <1>4, <1>5 DEF AllKept

LEMMA ClearLingerOK ==
    ASSUME NEW cn, NEW p, PoolOK(p)
    PROVE  ClearLinger(cn, p) \in Nat
<1>1. ToLinger(cn, p) \in SUBSET Conns
  BY DEF ToLinger, PoolOK, PoolType
<1> QED
  BY <1>1, Finite DEF ClearLinger

LEMMA StartWorkerOK ==
    ASSUME NEW w \in WorkerType
    PROVE  StartWorker(w) \in WorkerType
  BY DEF StartWorker, WorkerType

-----------------------------------------------------------------------------
(* Where requests are. *)

\* the places of requests, not what else is known of them
SameReqs(rq, sq) ==
    \A r \in Reqs : sq[r].proc = rq[r].proc /\ sq[r].st = rq[r].st /\ sq[r].complete = rq[r].complete
SameConns(cn, dn) == \A c \in Conns : dn[c].req = cn[c].req

LEMMA PlacedKeep ==
    ASSUME NEW cn, NEW dn, NEW q, NEW rq, NEW sq, NEW p, NEW o, Placed(cn, q, rq, p),
           SameConns(cn, dn), SameReqs(rq, sq),
           \A c \in Conns : cn[c].req # NoReq => c \in Busy(o)
    PROVE  Placed(dn, q, sq, o)
  BY DEF Placed, SameConns, SameReqs

LEMMA PlacedDetach ==
    ASSUME NEW cn, NEW dn, NEW q, NEW rq, NEW sq, NEW p, NEW o, Placed(cn, q, rq, p),
           NEW c \in Conns, cn[c].req \in Reqs \cup {NoReq}, dn[c].req = NoReq,
           \A d \in Conns : d # c => dn[d].req = cn[d].req,
           \A r \in Reqs : /\ sq[r].proc = IF r = cn[c].req THEN NoConn ELSE rq[r].proc
                           /\ sq[r].st = rq[r].st /\ sq[r].complete = rq[r].complete,
           \A d \in Conns : d # c /\ cn[d].req # NoReq => d \in Busy(o)
    PROVE  /\ Placed(dn, q, sq, o)
           /\ cn[c].req # NoReq => Loose(q, sq, cn[c].req)
<1>0. NoConn \notin Conns /\ NoReq \notin Reqs
  BY ConnAssumption
<1>1. \A d \in Conns : dn[d].req # NoReq => d \in Busy(o)
  BY DEF Placed
<1>2. \A d \in Conns, r \in Reqs : (dn[d].req = r) <=> (sq[r].proc = d)
  BY <1>0 DEF Placed
<1>3. \A r \in Reqs : sq[r].proc # NoConn => rq[r].proc # NoConn
  OBVIOUS
<1>4. Placed(dn, q, sq, o)
  BY <1>1, <1>2, <1>3 DEF Placed
<1>5. ASSUME cn[c].req # NoReq PROVE Loose(q, sq, cn[c].req)
  <2>1. cn[c].req \in Reqs /\ rq[cn[c].req].proc = c /\ c # NoConn
    BY <1>0, <1>5 DEF Placed
  <2> QED
    BY <2>1 DEF Placed, Loose
<1> QED
  BY <1>4, <1>5

LEMMA PlacedAssign ==
    ASSUME NEW cn, NEW dn, NEW q, NEW rq, NEW sq, NEW p, Placed(cn, q, rq, p),
           NEW c \in Conns, NEW r \in Reqs, Idle(cn, p, c), Loose(q, rq, r), dn[c].req = r,
           \A d \in Conns : d # c => dn[d].req = cn[d].req,
           \A s \in Reqs : /\ sq[s].proc = IF s = r THEN c ELSE rq[s].proc
                           /\ sq[s].st = rq[s].st /\ sq[s].complete = rq[s].complete
    PROVE  Placed(dn, q, sq, p)
<1>0. NoConn \notin Conns /\ NoReq \notin Reqs
  BY ConnAssumption
<1>1. \A d \in Conns : dn[d].req # NoReq => d \in Busy(p)
  BY DEF Placed, Idle
<1>2. \A d \in Conns, s \in Reqs : (dn[d].req = s) <=> (sq[s].proc = d)
  BY <1>0 DEF Placed, Idle, Loose
<1> QED
  BY <1>1, <1>2 DEF Placed, Loose

LEMMA PlacedEnqueue ==
    ASSUME NEW cn, NEW q, NEW o, NEW rq, NEW p, Placed(cn, q, rq, p),
           NEW r \in Reqs, Loose(q, rq, r), \A s : Has(o, s) <=> Has(q, s) \/ s = r
    PROVE  Placed(cn, o, rq, p)
  BY DEF Placed, Loose

LEMMA PlacedDequeue ==
    ASSUME NEW cn, NEW q \in Seq(Reqs), Once(q), q # <<>>, NEW rq, NEW p, Placed(cn, q, rq, p)
    PROVE  /\ Tail(q) \in Seq(Reqs) /\ Once(Tail(q)) /\ Head(q) \in Reqs
           /\ Placed(cn, Tail(q), rq, p)
           /\ Loose(Tail(q), rq, Head(q))
           /\ \A s \in Reqs : s # Head(q) => (Has(Tail(q), s) <=> Has(q, s))
<1>1. /\ Tail(q) \in Seq(Reqs) /\ Head(q) \in Reqs /\ Has(q, Head(q)) /\ Once(Tail(q))
      /\ ~Has(Tail(q), Head(q))
      /\ \A s : Has(Tail(q), s) => Has(q, s)
      /\ \A s : Has(q, s) => Has(Tail(q), s) \/ s = Head(q)
  BY TailHas
<1>2. Placed(cn, Tail(q), rq, p)
  BY <1>1 DEF Placed
<1>3. Loose(Tail(q), rq, Head(q))
  BY <1>1 DEF Placed, Loose
<1> QED
  BY <1>1, <1>2, <1>3

\* a request that ends is taken off its connection and out of the queue
Finished(cn, dn, q, o, rq, sq, r) ==
    /\ rq[r].proc \in Conns \cup {NoConn} /\ sq[r].proc = NoConn /\ ~Has(o, r)
    /\ \A s \in Reqs : s # r => /\ sq[s].proc = rq[s].proc /\ sq[s].st = rq[s].st
                                /\ sq[s].complete = rq[s].complete
                                /\ Has(o, s) <=> Has(q, s)
    /\ \A d \in Conns : dn[d].req = IF d = rq[r].proc THEN NoReq ELSE cn[d].req

LEMMA PlacedFinish ==
    ASSUME NEW cn, NEW dn, NEW q, NEW o, NEW rq, NEW sq, NEW p, Placed(cn, q, rq, p),
           NEW r \in Reqs, Finished(cn, dn, q, o, rq, sq, r)
    PROVE  /\ Placed(dn, o, sq, p)
           /\ rq[r].proc # NoConn => Idle(dn, p, rq[r].proc)
<1>0. NoConn \notin Conns /\ NoReq \notin Reqs
  BY ConnAssumption
<1>1. \A d \in Conns : dn[d].req # NoReq => d \in Busy(p)
  BY DEF Placed, Finished
<1>2. \A d \in Conns, s \in Reqs : (dn[d].req = s) <=> (sq[s].proc = d)
  BY <1>0 DEF Placed, Finished
<1>3. Placed(dn, o, sq, p)
  BY <1>1, <1>2 DEF Placed, Finished
<1>4. rq[r].proc # NoConn => Idle(dn, p, rq[r].proc)
  BY <1>0 DEF Placed, Idle, Finished
<1> QED
  BY <1>3, <1>4

-----------------------------------------------------------------------------
(***************************************************************************)
(* Every step keeps the first part of the invariant.                       *)
(***************************************************************************)

LEMMA FrameMade ==
    ASSUME NEW fn \in FrameNames, NEW c \in Conns \cup {NoConn}, NEW r \in Reqs \cup {NoReq}, NEW x \in Marks,
           fn \in OfConn => c \in Conns, fn \in OfReq => r \in Reqs, fn = "return" => x \in Rets,
           NEW f, f = Frame(fn, c, r, x)
    PROVE  FrameOK(f) /\ f.fn = fn /\ f.c = c /\ f.r = r /\ f.x = x
  BY DEF Frame, FrameOK, AnyFrame

LEMMA MarkFacts ==
    /\ Rets \subseteq Marks /\ Errnos \subseteq Marks /\ "none" \in Marks /\ BOOLEAN \subseteq Marks
    /\ 0 \in Rets /\ 1 \in Rets /\ SC_503 \in Rets /\ LS_FAIL \in Rets
    /\ IoErrnos \subseteq Errnos /\ AsyncErrnos \subseteq Errnos /\ ConnectErrnos \subseteq Errnos
  BY DEF Marks, Rets, Errnos, IoErrnos, AsyncErrnos, ConnectErrnos

LEMMA PendingFrame ==
    ASSUME NEW c \in Conns \cup {NoConn}, NEW f, f = Frame("processPending", c, NoReq, 0)
    PROVE  FrameOK(f) /\ f.fn = "processPending" /\ f.c = c /\ f.r = NoReq
  BY FrameMade, MarkFacts DEF FrameNames, OfConn, OfReq

LEMMA ReturnFrame ==
    ASSUME NEW v \in Rets, NEW f, f = Frame("return", NoConn, NoReq, v)
    PROVE  FrameOK(f) /\ f.fn = "return" /\ f.c = NoConn /\ f.r = NoReq /\ f.x = v
  BY FrameMade, MarkFacts DEF FrameNames, OfConn, OfReq

LEMMA PlainFrame ==
    ASSUME NEW fn \in {"connectionError2", "failOutstandingReqs", "resetStats2"},
           NEW f, f = Frame(fn, NoConn, NoReq, 0)
    PROVE  FrameOK(f) /\ f.fn = fn /\ f.c = NoConn /\ f.r = NoReq
<1>1. fn \in FrameNames /\ fn \notin OfConn /\ fn \notin OfReq /\ fn # "return"
  BY DEF FrameNames, OfConn, OfReq
<1>2. 0 \in Marks
  BY MarkFacts
<1> QED
  BY <1>1, <1>2, FrameMade

LEMMA ConnFrame ==
    ASSUME NEW fn \in OfConn \ OfReq, NEW c \in Conns, NEW x \in Marks, NEW f, f = Frame(fn, c, NoReq, x)
    PROVE  FrameOK(f) /\ f.fn = fn /\ f.c = c /\ f.r = NoReq /\ f.x = x
  BY FrameMade DEF FrameNames, OfConn, OfReq

LEMMA ReqFrame ==
    ASSUME NEW fn \in OfReq \ OfConn, NEW r \in Reqs, NEW x \in Marks, NEW f, f = Frame(fn, NoConn, r, x)
    PROVE  FrameOK(f) /\ f.fn = fn /\ f.c = NoConn /\ f.r = r /\ f.x = x
  BY FrameMade DEF FrameNames, OfConn, OfReq

\* what is known when a function of this name runs
LEMMA Running ==
    ASSUME BaseInv, stack # <<>>, NEW f, f = Head(stack)
    PROVE  /\ Types /\ PoolOK(pool) /\ Stacked(stack) /\ Placed(conn, queue, req, pool)
           /\ FrameOK(f) /\ Held(f, conn, queue, req, pool)
           /\ Stacked(Tail(stack)) /\ (Tail(stack) # <<>> => Head(Tail(stack)).fn \in Resumes)
  BY PopStack DEF BaseInv

\* a function returns and nothing moved
LEMMA Returned ==
    ASSUME BaseInv, stack # <<>>, stack' = Tail(stack), Types', PoolOK(pool'),
           Placed(conn', queue', req', pool')
    PROVE  BaseInv'
<1>1. Stacked(stack') /\ (stack' # <<>> => Head(stack').fn \in Resumes)
  BY Running
<1>2. stack' # <<>> => Held(Head(stack'), conn', queue', req', pool')
  BY <1>1, ResumedHolds
<1> QED
  BY <1>1, <1>2 DEF BaseInv

\* a function calls another, or goes on as another
LEMMA Called ==
    ASSUME BaseInv, stack # <<>>, NEW f, FrameOK(f), stack' = <<f>> \o Tail(stack), Types', PoolOK(pool'),
           Placed(conn', queue', req', pool'), Held(f, conn', queue', req', pool')
    PROVE  BaseInv'
<1>1. Stacked(stack') /\ stack' # <<>> /\ Head(stack') = f
  BY Goto1 DEF BaseInv
<1> QED
  BY <1>1 DEF BaseInv

LEMMA Called2 ==
    ASSUME BaseInv, stack # <<>>, NEW f, FrameOK(f), NEW g, FrameOK(g), g.fn \in Resumes,
           stack' = <<f, g>> \o Tail(stack), Types', PoolOK(pool'),
           Placed(conn', queue', req', pool'), Held(f, conn', queue', req', pool')
    PROVE  BaseInv'
<1>1. Stacked(stack') /\ stack' # <<>> /\ Head(stack') = f
  BY Goto2 DEF BaseInv
<1> QED
  BY <1>1 DEF BaseInv

LEMMA ProcessRequestBase ==
    ASSUME BaseInv, ProcessRequest
    PROVE  BaseInv'
<1>1. PICK f : f = Head(stack)
  OBVIOUS
<1>2. stack # <<>> /\ f.fn = "processRequest"
  BY <1>1 DEF ProcessRequest, Top
<1>3. /\ Types /\ PoolOK(pool) /\ Placed(conn, queue, req, pool)
      /\ FrameOK(f) /\ Held(f, conn, queue, req, pool)
  BY <1>1, <1>2, Running
<1>4. PICK r \in Reqs : r = f.r
  BY <1>2, <1>3 DEF FrameOK, OfReq
<1>5. Loose(queue, req, r)
  BY <1>2, <1>3, <1>4 DEF Held
<1>6. PICK p : p = StartPool(worker, pool)
  OBVIOUS
<1>7. PoolOK(p) /\ Busy(p) = Busy(pool)
  BY <1>3, <1>6, StartPoolOK
<1>8. PICK g : g = GetConn(p)
  OBVIOUS
<1>9. Got(p, g)
  BY <1>7, <1>8, GetConnOK
<1>10. worker' \in WorkerType /\ conn' = conn /\ req' = req /\ errno' = errno /\ faults' = faults
  <2>1. worker' = StartWorker(worker)
    BY DEF ProcessRequest
  <2> QED
    BY <1>3, <2>1, StartWorkerOK DEF Types, ProcessRequest
<1>11. CASE StartWorker(worker).st = "BAD"
  <2>1. stack' = Tail(stack) /\ ret' = SC_503 /\ pool' = pool /\ queue' = queue
    BY <1>11 DEF ProcessRequest, Return
  <2>2. Types'
    BY <1>3, <1>10, <2>1, MarkFacts DEF Types
  <2> QED
    BY <1>2, <1>3, <1>10, <2>1, <2>2, Returned
<1>12. CASE StartWorker(worker).st # "BAD" /\ (f.x \/ queue = <<>>) /\ g.c # NoConn
  <2>1. PICK a, b : a = Frame("assignReq", g.c, r, 0) /\ b = Frame("processRequest2", g.c, r, 0)
    OBVIOUS
  <2>2. stack' = <<a, b>> \o Tail(stack) /\ pool' = g.p /\ queue' = queue /\ ret' = ret
    BY <1>1, <1>4, <1>6, <1>8, <1>12, <2>1 DEF ProcessRequest, Goto, top
  <2>3. g.c \in Conns /\ g.c \notin Busy(pool) /\ Busy(g.p) = Busy(pool) \cup {g.c} /\ PoolOK(g.p)
    BY <1>7, <1>9, <1>12 DEF Got
  <2>4. FrameOK(a) /\ a.fn = "assignReq" /\ a.c = g.c /\ a.r = r /\ FrameOK(b) /\ b.fn = "processRequest2"
    BY <2>1, <2>3, FrameMade, MarkFacts DEF FrameNames, OfConn, OfReq
  <2>5. Types'
    BY <1>3, <1>10, <2>2 DEF Types
  <2>6. Placed(conn', queue', req', pool')
    BY <1>3, <1>10, <2>2, <2>3 DEF Placed
  <2>7. Held(a, conn', queue', req', pool')
    <3>1. Idle(conn', pool', g.c)
      BY <1>3, <1>10, <2>2, <2>3 DEF Placed, Idle
    <3> QED
      BY <1>5, <1>10, <2>2, <2>4, <3>1 DEF Held
  <2> QED
    BY <1>2, <2>2, <2>3, <2>4, <2>5, <2>6, <2>7, Called2 DEF Resumes
<1>13. CASE StartWorker(worker).st # "BAD" /\ ~((f.x \/ queue = <<>>) /\ g.c # NoConn)
  <2>1. /\ pool' = p /\ queue' = (IF f.x THEN <<r>> \o queue ELSE Append(queue, r))
        /\ \/ Goto(<<Frame("processPending", NoConn, NoReq, 0), Frame("return", NoConn, NoReq, 0)>>) /\ ret' = ret
           \/ Return(0)
    BY <1>1, <1>4, <1>6, <1>8, <1>13 DEF ProcessRequest, top
  <2>2. queue' \in Seq(Reqs) /\ Once(queue') /\ \A s : Has(queue', s) <=> Has(queue, s) \/ s = r
    BY <1>3, <1>5, <2>1, AppendHas, ConsHas DEF Types, Loose
  <2>3. Types'
    BY <1>3, <1>10, <2>1, <2>2, MarkFacts DEF Types, Return
  <2>4. Placed(conn, queue', req, pool)
    BY <1>3, <1>5, <2>2, PlacedEnqueue
  <2>5. Placed(conn', queue', req', pool')
    BY <1>7, <1>10, <2>1, <2>4 DEF Placed
  <2>6. CASE Return(0)
    BY <1>2, <1>7, <2>1, <2>3, <2>5, <2>6, Returned DEF Return
  <2>7. CASE Goto(<<Frame("processPending", NoConn, NoReq, 0), Frame("return", NoConn, NoReq, 0)>>)
    <3>1. PICK a, b : a = Frame("processPending", NoConn, NoReq, 0) /\ b = Frame("return", NoConn, NoReq, 0)
      OBVIOUS
    <3>2. stack' = <<a, b>> \o Tail(stack)
      BY <2>7, <3>1 DEF Goto
    <3>3. FrameOK(a) /\ a.fn = "processPending" /\ a.c = NoConn /\ FrameOK(b) /\ b.fn = "return"
      BY <3>1, PendingFrame, ReturnFrame, MarkFacts
    <3>4. Held(a, conn', queue', req', pool')
      BY <3>3 DEF Held
    <3> QED
      BY <1>2, <1>7, <2>1, <2>3, <2>5, <3>2, <3>3, <3>4, Called2 DEF Resumes
  <2> QED
    BY <2>1, <2>6, <2>7
<1> QED
  BY <1>11, <1>12, <1>13

\* A request is taken back from a connection.
Detached(cn, dn, rq, sq, c) ==
    /\ dn \in [Conns -> ConnType] /\ sq \in [Reqs -> ReqType]
    /\ dn[c].req = NoReq /\ dn[c].st = cn[c].st /\ dn[c].inProcess = cn[c].inProcess
    /\ \A d \in Conns : d # c => dn[d] = cn[d]
    /\ \A r \in Reqs : /\ sq[r].proc = IF r = cn[c].req THEN NoConn ELSE rq[r].proc
                       /\ sq[r].st = rq[r].st /\ sq[r].complete = rq[r].complete
                       /\ sq[r].err = rq[r].err /\ sq[r].out = rq[r].out /\ sq[r].alive = rq[r].alive

LEMMA DetachOK ==
    ASSUME Types, NEW c \in Conns, NEW dn, NEW sq, dn = Detach(c), sq = DetachReq(c)
    PROVE  Detached(conn, dn, req, sq, c)
<1>0. PICK k \in ConnType : k = conn[c]
  BY DEF Types
<1>1. PICK u : k = conn[c] /\ u = k.req
  BY <1>0
<1>2. u \in Reqs \cup {NoReq} /\ u = conn[c].req
  BY <1>1 DEF ConnType
<1>3. PICK e : e = [k EXCEPT !.req = NoReq]
  OBVIOUS
<1>4. e \in ConnType /\ e.req = NoReq /\ e.st = k.st /\ e.inProcess = k.inProcess
  BY <1>3 DEF ConnType
<1>5. dn = [conn EXCEPT ![c] = e]
  BY <1>1, <1>3 DEF Detach, Types
<1>6. /\ dn \in [Conns -> ConnType]
      /\ dn[c].req = NoReq /\ dn[c].st = conn[c].st /\ dn[c].inProcess = conn[c].inProcess
      /\ \A d \in Conns : d # c => dn[d] = conn[d]
  BY <1>1, <1>4, <1>5 DEF Types
<1>7. CASE u = NoReq
  <2>1. sq = req /\ \A r \in Reqs : r # conn[c].req
    BY <1>2, <1>7, ConnAssumption DEF DetachReq
  <2> QED
    BY <1>6, <2>1 DEF Detached, Types
<1>8. CASE u # NoReq
  <2>1. PICK q \in ReqType : q = req[u]
    BY <1>2, <1>8 DEF Types
  <2>2. PICK v : v = [q EXCEPT !.proc = NoConn]
    OBVIOUS
  <2>3. /\ v \in ReqType /\ v.proc = NoConn /\ v.st = q.st /\ v.complete = q.complete
        /\ v.err = q.err /\ v.out = q.out /\ v.alive = q.alive
    BY <2>1, <2>2 DEF ReqType
  <2>4. sq = [req EXCEPT ![u] = v]
    BY <1>2, <1>8, <2>1, <2>2 DEF DetachReq, Types
  <2>5. sq \in [Reqs -> ReqType] /\ sq[u] = v /\ \A r \in Reqs : r # u => sq[r] = req[r]
    BY <1>2, <1>8, <2>3, <2>4 DEF Types
  <2>6. \A r \in Reqs : /\ sq[r].proc = IF r = conn[c].req THEN NoConn ELSE req[r].proc
                        /\ sq[r].st = req[r].st /\ sq[r].complete = req[r].complete
                        /\ sq[r].err = req[r].err /\ sq[r].out = req[r].out /\ sq[r].alive = req[r].alive
    BY <1>2, <2>1, <2>3, <2>5
  <2> QED
    BY <1>6, <2>5, <2>6 DEF Detached
<1> QED
  BY <1>7, <1>8

LEMMA DetachPlaced ==
    ASSUME Types, NEW q, NEW p, NEW o, Placed(conn, q, req, p), NEW c \in Conns,
           NEW dn, NEW sq, Detached(conn, dn, req, sq, c), Busy(p) \ {c} \subseteq Busy(o)
    PROVE  /\ Placed(dn, q, sq, o)
           /\ conn[c].req # NoReq => Loose(q, sq, conn[c].req) /\ conn[c].req \in Reqs /\ c \in Busy(p)
<1>1. conn[c].req \in Reqs \cup {NoReq}
  BY DEF Types, ConnType
<1>2. \A d \in Conns : d # c /\ conn[d].req # NoReq => d \in Busy(o)
  BY DEF Placed
<1>3. /\ dn[c].req = NoReq
      /\ \A d \in Conns : d # c => dn[d].req = conn[d].req
      /\ \A r \in Reqs : /\ sq[r].proc = IF r = conn[c].req THEN NoConn ELSE req[r].proc
                         /\ sq[r].st = req[r].st /\ sq[r].complete = req[r].complete
  BY DEF Detached
<1>4. Placed(dn, q, sq, o) /\ (conn[c].req # NoReq => Loose(q, sq, conn[c].req))
  BY <1>1, <1>2, <1>3, PlacedDetach
<1>5. conn[c].req # NoReq => c \in Busy(p)
  BY DEF Placed
<1> QED
  BY <1>1, <1>4, <1>5

\* what a caller does after a failed assignReq() that left the request where it was
LEMMA TakeBack ==
    ASSUME BaseInv, NEW c \in Conns, conn' = Detach(c), req' = DetachReq(c), conn[c].req # NoReq,
           UNCHANGED <<pool, worker, queue, errno, faults, ret>>
    PROVE  /\ Types' /\ PoolOK(pool') /\ Placed(conn', queue', req', pool')
           /\ Idle(conn', pool', c)
<1>1. Types /\ PoolOK(pool) /\ Placed(conn, queue, req, pool)
  BY DEF BaseInv
<1>2. Detached(conn, conn', req, req', c)
  BY <1>1, DetachOK
<1>3. Placed(conn', queue, req', pool) /\ c \in Busy(pool)
  BY <1>1, <1>2, DetachPlaced
<1>4. Types'
  BY <1>1, <1>2 DEF Types, Detached
<1> QED
  BY <1>1, <1>2, <1>3, <1>4 DEF Idle, Detached

LEMMA NothingMoved ==
    ASSUME BaseInv, UNCHANGED <<conn, pool, worker, queue, req>>,
           ret' \in Rets, errno' \in Errnos \cup {"none"}, faults' \in 0 .. MaxFaults
    PROVE  Types' /\ PoolOK(pool') /\ Placed(conn', queue', req', pool')
  BY DEF BaseInv, Types

LEMMA ProcessRequest2Base ==
    ASSUME BaseInv, ProcessRequest2
    PROVE  BaseInv'
<1>1. PICK f : f = Head(stack)
  OBVIOUS
<1>2. stack # <<>> /\ f.fn = "processRequest2" /\ ret \in Rets
  BY <1>1 DEF ProcessRequest2, Top, BaseInv, Types
<1>3. PICK c \in Conns : c = f.c
  BY <1>1, <1>2, Running DEF FrameOK, OfConn
<1>4. PICK v \in Rets : v = IF ret > 0 THEN ret ELSE 0
  BY <1>2 DEF Rets, SC_503, LS_FAIL
<1>5. CASE ret # 0 /\ conn[c].req # NoReq
  <2>1. PICK a, b : a = Frame("recycleConn", c, NoReq, 0) /\ b = Frame("return", NoConn, NoReq, v)
    OBVIOUS
  <2>2. /\ conn' = Detach(c) /\ req' = DetachReq(c) /\ stack' = <<a, b>> \o Tail(stack) /\ ret' = ret
        /\ UNCHANGED <<pool, worker, queue, errno, faults>>
    BY <1>1, <1>3, <1>4, <1>5, <2>1 DEF ProcessRequest2, top, Goto, lists
  <2>3. Types' /\ PoolOK(pool') /\ Placed(conn', queue', req', pool') /\ Idle(conn', pool', c)
    BY <1>5, <2>2, TakeBack
  <2>4. FrameOK(a) /\ a.fn = "recycleConn" /\ a.c = c /\ FrameOK(b) /\ b.fn = "return"
    BY <2>1, ConnFrame, ReturnFrame, MarkFacts DEF OfConn, OfReq
  <2>5. Held(a, conn', queue', req', pool')
    BY <2>3, <2>4 DEF Held
  <2> QED
    BY <1>2, <2>2, <2>3, <2>4, <2>5, Called2 DEF Resumes
<1>6. CASE ~(ret # 0 /\ conn[c].req # NoReq)
  <2>1. stack' = Tail(stack) /\ ret' = v /\ UNCHANGED <<conn, pool, worker, queue, req, errno, faults>>
    BY <1>1, <1>3, <1>4, <1>6 DEF ProcessRequest2, top, Return, lists
  <2>2. Types' /\ PoolOK(pool') /\ Placed(conn', queue', req', pool')
    BY <2>1, NothingMoved DEF BaseInv, Types
  <2> QED
    BY <1>2, <2>1, <2>2, Returned
<1> QED
  BY <1>5, <1>6

LEMMA ReturnValueBase ==
    ASSUME BaseInv, ReturnValue
    PROVE  BaseInv'
<1>1. PICK f : f = Head(stack)
  OBVIOUS
<1>2. stack # <<>> /\ f.fn = "return"
  BY <1>1 DEF ReturnValue, Top
<1>3. f.x \in Rets
  BY <1>1, <1>2, Running DEF FrameOK
<1>4. stack' = Tail(stack) /\ ret' = f.x /\ UNCHANGED <<conn, pool, worker, queue, req, errno, faults>>
  BY <1>1 DEF ReturnValue, Return, top, lists
<1>5. Types' /\ PoolOK(pool') /\ Placed(conn', queue', req', pool')
  BY <1>3, <1>4, NothingMoved DEF BaseInv, Types
<1> QED
  BY <1>2, <1>4, <1>5, Returned

LEMMA RecycleLoop2Base ==
    ASSUME BaseInv, RecycleLoop2
    PROVE  BaseInv'
<1>1. PICK f : f = Head(stack)
  OBVIOUS
<1>2. stack # <<>> /\ f.fn = "recycleLoop2"
  BY <1>1 DEF RecycleLoop2, Top
<1>3. PICK c \in Conns : c = f.c
  BY <1>1, <1>2, Running DEF FrameOK, OfConn
<1>4. CASE ret # 0 /\ conn[c].req # NoReq
  <2>1. PICK a : a = Frame("recycleLoop", c, NoReq, 0)
    OBVIOUS
  <2>2. /\ conn' = Detach(c) /\ req' = DetachReq(c) /\ stack' = <<a>> \o Tail(stack)
        /\ UNCHANGED <<pool, worker, queue, errno, faults, ret>>
    BY <1>1, <1>3, <1>4, <2>1 DEF RecycleLoop2, top, Goto, lists
  <2>3. Types' /\ PoolOK(pool') /\ Placed(conn', queue', req', pool') /\ Idle(conn', pool', c)
    BY <1>4, <2>2, TakeBack
  <2>4. FrameOK(a) /\ a.fn = "recycleLoop" /\ a.c = c
    BY <2>1, ConnFrame, MarkFacts DEF OfConn, OfReq
  <2>5. Held(a, conn', queue', req', pool')
    BY <2>3, <2>4 DEF Held
  <2> QED
    BY <1>2, <2>2, <2>3, <2>4, <2>5, Called
<1>5. CASE ~(ret # 0 /\ conn[c].req # NoReq)
  <2>1. stack' = Tail(stack) /\ UNCHANGED <<conn, pool, worker, queue, req, errno, faults, ret>>
    BY <1>1, <1>3, <1>5 DEF RecycleLoop2, top, lists
  <2>2. Types' /\ PoolOK(pool') /\ Placed(conn', queue', req', pool')
    BY <2>1, NothingMoved DEF BaseInv, Types
  <2> QED
    BY <1>2, <2>1, <2>2, Returned
<1> QED
  BY <1>4, <1>5

LEMMA ProcessPending2Base ==
    ASSUME BaseInv, ProcessPending2
    PROVE  BaseInv'
<1>1. PICK f : f = Head(stack)
  OBVIOUS
<1>2. stack # <<>> /\ f.fn = "processPending2"
  BY <1>1 DEF ProcessPending2, Top
<1>3. PICK c \in Conns : c = f.c
  BY <1>1, <1>2, Running DEF FrameOK, OfConn
<1>4. CASE ret # 0 /\ conn[c].req # NoReq
  <2>1. PICK a : a = Frame("recycleConn", c, NoReq, 0)
    OBVIOUS
  <2>2. /\ conn' = Detach(c) /\ req' = DetachReq(c) /\ stack' = <<a>> \o Tail(stack)
        /\ UNCHANGED <<pool, worker, queue, errno, faults, ret>>
    BY <1>1, <1>3, <1>4, <2>1 DEF ProcessPending2, top, Goto, lists
  <2>3. Types' /\ PoolOK(pool') /\ Placed(conn', queue', req', pool') /\ Idle(conn', pool', c)
    BY <1>4, <2>2, TakeBack
  <2>4. FrameOK(a) /\ a.fn = "recycleConn" /\ a.c = c
    BY <2>1, ConnFrame, MarkFacts DEF OfConn, OfReq
  <2>5. Held(a, conn', queue', req', pool')
    BY <2>3, <2>4 DEF Held
  <2> QED
    BY <1>2, <2>2, <2>3, <2>4, <2>5, Called
<1>5. CASE ret # 0 /\ conn[c].req = NoReq
  <2>1. stack' = Tail(stack) /\ UNCHANGED <<conn, pool, worker, queue, req, errno, faults, ret>>
    BY <1>1, <1>3, <1>5 DEF ProcessPending2, top, lists
  <2>2. Types' /\ PoolOK(pool') /\ Placed(conn', queue', req', pool')
    BY <2>1, NothingMoved DEF BaseInv, Types
  <2> QED
    BY <1>2, <2>1, <2>2, Returned
<1>6. CASE ret = 0
  <2>1. PICK a : a = Frame("processPending", NoConn, NoReq, 0)
    OBVIOUS
  <2>2. /\ stack' = <<a>> \o Tail(stack)
        /\ UNCHANGED <<conn, pool, worker, queue, req, errno, faults, ret>>
    BY <1>6, <2>1 DEF ProcessPending2, Goto, lists
  <2>3. Types' /\ PoolOK(pool') /\ Placed(conn', queue', req', pool')
    BY <2>2, NothingMoved DEF BaseInv, Types
  <2>4. FrameOK(a) /\ Held(a, conn', queue', req', pool')
    BY <2>1, PendingFrame DEF Held
  <2> QED
    BY <1>2, <2>2, <2>3, <2>4, Called
<1> QED
  BY <1>4, <1>5, <1>6

LEMMA RecycleConnBase ==
    ASSUME BaseInv, RecycleConn
    PROVE  BaseInv'
<1>1. PICK f : f = Head(stack)
  OBVIOUS
<1>2. stack # <<>> /\ f.fn = "recycleConn"
  BY <1>1 DEF RecycleConn, Top
<1>3. /\ Types /\ PoolOK(pool) /\ Placed(conn, queue, req, pool)
      /\ FrameOK(f) /\ Held(f, conn, queue, req, pool)
  BY <1>1, <1>2, Running
<1>4. PICK c \in Conns : c = f.c
  BY <1>2, <1>3 DEF FrameOK, OfConn
<1>5. Idle(conn, pool, c)
  BY <1>2, <1>3, <1>4 DEF Held
<1>6. UNCHANGED <<queue, req, ret, errno, faults>>
  BY DEF RecycleConn
<1>7. CASE conn[c].toClose
  <2>1. PICK k \in ConnType : k = conn[c]
    BY <1>3 DEF Types
  <2>2. PICK e : e = Closed(k)
    OBVIOUS
  <2>3. e \in ConnType /\ e.req = NoReq
    BY <1>5, <2>1, <2>2, ClosedOK DEF Idle
  <2>4. /\ worker' = [worker EXCEPT !.linger = @ - 1]
        /\ conn' = [conn EXCEPT ![c] = Closed(@)] /\ pool' = RemoveConn(pool, c)
        /\ \/ Goto(<<Frame("processPending", NoConn, NoReq, 0)>>)
           \/ stack' = Tail(stack)
    BY <1>1, <1>4, <1>7 DEF RecycleConn, top
  <2>5. conn' = [conn EXCEPT ![c] = e]
    BY <1>3, <2>1, <2>2, <2>4 DEF Types
  <2>6. conn' \in [Conns -> ConnType] /\ SameConns(conn, conn')
    BY <1>3, <1>5, <2>3, <2>5 DEF Types, SameConns, Idle
  <2>7. worker' \in WorkerType
    <3>1. PICK w \in WorkerType, v \in Int : w = worker /\ v = worker.linger - 1
      BY <1>3 DEF Types, WorkerType
    <3>2. worker' = [w EXCEPT !.linger = v]
      BY <2>4, <3>1
    <3> QED
      BY ONLY <3>2, w \in WorkerType, v \in Int DEF WorkerType
  <2>8. PoolOK(pool') /\ Busy(pool') = Busy(pool) \ {c}
    BY <1>3, <2>4, RemoveConnOK
  <2>9. Types'
    BY <1>3, <1>6, <2>6, <2>7 DEF Types
  <2>10. \A d \in Conns : conn[d].req # NoReq => d \in Busy(pool')
    BY <1>3, <1>5, <2>8 DEF Placed, Idle
  <2>11. SameReqs(req, req')
    BY <1>6 DEF SameReqs
  <2>12. Placed(conn', queue', req', pool')
    BY <1>3, <1>6, <2>6, <2>10, <2>11, PlacedKeep
  <2>13. CASE stack' = Tail(stack)
    BY <1>2, <2>8, <2>9, <2>12, <2>13, Returned
  <2>14. CASE Goto(<<Frame("processPending", NoConn, NoReq, 0)>>)
    <3>1. PICK a : a = Frame("processPending", NoConn, NoReq, 0)
      OBVIOUS
    <3>2. stack' = <<a>> \o Tail(stack)
      BY <2>14, <3>1 DEF Goto
    <3>3. FrameOK(a) /\ Held(a, conn', queue', req', pool')
      BY <3>1, PendingFrame DEF Held
    <3> QED
      BY <1>2, <2>8, <2>9, <2>12, <3>2, <3>3, Called
  <2> QED
    BY <2>4, <2>13, <2>14
<1>8. CASE ~conn[c].toClose
  <2>1. PICK a : a = Frame("recycleLoop", c, NoReq, 0)
    OBVIOUS
  <2>2. stack' = <<a>> \o Tail(stack) /\ UNCHANGED <<conn, pool, worker>>
    BY <1>1, <1>4, <1>8, <2>1 DEF RecycleConn, top, Goto
  <2>3. Types' /\ PoolOK(pool') /\ Placed(conn', queue', req', pool')
    BY <1>6, <2>2, NothingMoved DEF BaseInv, Types
  <2>4. FrameOK(a) /\ a.fn = "recycleLoop" /\ a.c = c
    BY <2>1, ConnFrame, MarkFacts DEF OfConn, OfReq
  <2>5. Held(a, conn', queue', req', pool')
    BY <1>5, <2>2, <2>4 DEF Held
  <2> QED
    BY <1>2, <2>2, <2>3, <2>4, <2>5, Called
<1> QED
  BY <1>7, <1>8

\* a request leaves the head of the queue, for a connection that is in hand
LEMMA TakeHead ==
    ASSUME BaseInv, queue # <<>>, queue' = Tail(queue), UNCHANGED <<conn, worker, req, ret, errno, faults>>
    PROVE  /\ Types' /\ Placed(conn', queue', req', pool) /\ Head(queue) \in Reqs
           /\ Loose(queue', req', Head(queue))
<1>1. Types /\ Placed(conn, queue, req, pool)
  BY DEF BaseInv
<1>2. /\ Tail(queue) \in Seq(Reqs) /\ Once(Tail(queue)) /\ Head(queue) \in Reqs
      /\ Placed(conn, Tail(queue), req, pool) /\ Loose(Tail(queue), req, Head(queue))
  BY <1>1, PlacedDequeue DEF Types
<1>3. Types'
  BY <1>1, <1>2 DEF Types
<1> QED
  BY <1>2, <1>3

\* the connection in hand becomes free
LEMMA Release ==
    ASSUME BaseInv, NEW c \in Conns, Idle(conn, pool, c), pool' = [pool EXCEPT !.free = Append(@, c)],
           UNCHANGED <<conn, queue, worker, req, ret, errno, faults>>
    PROVE  Types' /\ PoolOK(pool') /\ Placed(conn', queue', req', pool')
<1>1. Types /\ PoolOK(pool) /\ Placed(conn, queue, req, pool)
  BY DEF BaseInv
<1>2. PoolOK(pool') /\ Busy(pool') = Busy(pool) \ {c}
  BY <1>1, ReuseOK DEF Idle
<1>3. Types'
  BY <1>1 DEF Types
<1>4. Placed(conn', queue', req', pool')
  BY <1>1, <1>2 DEF Placed, Idle
<1> QED
  BY <1>2, <1>3, <1>4

LEMMA RecycleLoopBase ==
    ASSUME BaseInv, RecycleLoop
    PROVE  BaseInv'
<1>1. PICK f : f = Head(stack)
  OBVIOUS
<1>2. stack # <<>> /\ f.fn = "recycleLoop"
  BY <1>1 DEF RecycleLoop, Top
<1>3. /\ Types /\ PoolOK(pool) /\ Placed(conn, queue, req, pool) /\ Stacked(stack)
      /\ FrameOK(f) /\ Held(f, conn, queue, req, pool)
  BY <1>1, <1>2, Running
<1>4. PICK c \in Conns : c = f.c
  BY <1>2, <1>3 DEF FrameOK, OfConn
<1>5. Idle(conn, pool, c)
  BY <1>2, <1>3, <1>4 DEF Held
<1>6. UNCHANGED <<conn, worker, req, ret, errno, faults>>
  BY DEF RecycleLoop
<1>7. CASE queue = <<>>
  <2>1. pool' = [pool EXCEPT !.free = Append(@, c)] /\ stack' = Tail(stack) /\ queue' = queue
    BY <1>1, <1>4, <1>7 DEF RecycleLoop, top
  <2>2. Types' /\ PoolOK(pool') /\ Placed(conn', queue', req', pool')
    BY <1>5, <1>6, <2>1, Release
  <2> QED
    BY <1>2, <2>1, <2>2, Returned
<1>8. CASE queue # <<>>
  <2>1. PICK r : r = Head(queue)
    OBVIOUS
  <2>2. /\ queue' = Tail(queue) /\ pool' = pool
        /\ IF req[r].alive
           THEN Goto(<<Frame("assignReq", c, r, 0), Frame("recycleLoop2", c, r, 0)>>)
           ELSE UNCHANGED stack
    BY <1>1, <1>4, <1>8, <2>1 DEF RecycleLoop, top
  <2>3. Types' /\ Placed(conn', queue', req', pool') /\ r \in Reqs /\ Loose(queue', req', r) /\ PoolOK(pool')
    BY <1>3, <1>6, <1>8, <2>1, <2>2, TakeHead
  <2>4. CASE req[r].alive
    <3>1. PICK a, b : a = Frame("assignReq", c, r, 0) /\ b = Frame("recycleLoop2", c, r, 0)
      OBVIOUS
    <3>2. stack' = <<a, b>> \o Tail(stack)
      BY <2>2, <2>4, <3>1 DEF Goto
    <3>3. FrameOK(a) /\ a.fn = "assignReq" /\ a.c = c /\ a.r = r /\ FrameOK(b) /\ b.fn = "recycleLoop2"
      BY <2>3, <3>1, FrameMade, MarkFacts DEF FrameNames, OfConn, OfReq
    <3>4. Held(a, conn', queue', req', pool')
      BY <1>5, <1>6, <2>2, <2>3, <3>3 DEF Held
    <3> QED
      BY <1>2, <2>3, <3>2, <3>3, <3>4, Called2 DEF Resumes
  <2>5. CASE ~req[r].alive
    <3>1. stack' = stack
      BY <2>2, <2>5
    <3>2. Held(f, conn', queue', req', pool')
      BY <1>2, <1>4, <1>5, <1>6, <2>2 DEF Held
    <3> QED
      BY <1>1, <1>3, <2>3, <3>1, <3>2 DEF BaseInv
  <2> QED
    BY <2>4, <2>5
<1> QED
  BY <1>7, <1>8

LEMMA ProcessPendingBase ==
    ASSUME BaseInv, ProcessPending
    PROVE  BaseInv'
<1>1. PICK f : f = Head(stack)
  OBVIOUS
<1>2. stack # <<>> /\ f.fn = "processPending"
  BY <1>1 DEF ProcessPending, Top
<1>3. /\ Types /\ PoolOK(pool) /\ Placed(conn, queue, req, pool) /\ Stacked(stack)
      /\ FrameOK(f) /\ Held(f, conn, queue, req, pool)
  BY <1>1, <1>2, Running
<1>4. f.c \in Conns \cup {NoConn} /\ (f.c # NoConn => Idle(conn, pool, f.c))
  BY <1>2, <1>3 DEF FrameOK, AnyFrame, Held
<1>5. UNCHANGED <<conn, worker, req, ret, errno, faults>>
  BY DEF ProcessPending
<1>6. CASE queue = <<>> /\ f.c = NoConn
  <2>1. pool' = pool /\ stack' = Tail(stack) /\ queue' = queue
    BY <1>1, <1>6 DEF ProcessPending, top
  <2>2. Types' /\ PoolOK(pool') /\ Placed(conn', queue', req', pool')
    BY <1>5, <2>1, NothingMoved DEF BaseInv, Types
  <2> QED
    BY <1>2, <2>1, <2>2, Returned
<1>7. CASE queue = <<>> /\ f.c # NoConn
  <2>1. pool' = [pool EXCEPT !.free = Append(@, f.c)] /\ stack' = Tail(stack) /\ queue' = queue
    BY <1>1, <1>7 DEF ProcessPending, top
  <2>2. Types' /\ PoolOK(pool') /\ Placed(conn', queue', req', pool')
    BY <1>4, <1>5, <1>7, <2>1, Release
  <2> QED
    BY <1>2, <2>1, <2>2, Returned
<1>8. CASE queue # <<>>
  <2>1. PICK r : r = Head(queue)
    OBVIOUS
  <2>2. PICK g : g = IF f.c = NoConn THEN GetConn(pool) ELSE [c |-> f.c, p |-> pool]
    OBVIOUS
  <2>3. /\ PoolOK(g.p) /\ (g.c = NoConn => g.p = pool)
        /\ g.c # NoConn => g.c \in Conns /\ Idle(conn, g.p, g.c) /\ Busy(pool) \subseteq Busy(g.p)
    <3>1. CASE f.c = NoConn
      <4>1. Got(pool, g)
        BY <1>3, <2>2, <3>1, GetConnOK
      <4>2. g.c # NoConn => g.c \in Conns /\ g.c \notin Busy(pool) /\ Busy(g.p) = Busy(pool) \cup {g.c}
        BY <4>1 DEF Got
      <4>3. g.c # NoConn => conn[g.c].req = NoReq
        BY <1>3, <4>2 DEF Placed
      <4> QED
        BY <4>1, <4>2, <4>3 DEF Got, Idle
    <3>2. CASE f.c # NoConn
      BY <1>3, <1>4, <2>2, <3>2
    <3> QED
      BY <3>1, <3>2
  <2>4. /\ pool' = g.p
        /\ IF g.c = NoConn THEN stack' = Tail(stack) /\ UNCHANGED queue
           ELSE /\ queue' = Tail(queue)
                /\ IF req[r].alive
                   THEN Goto(<<Frame("assignReq", g.c, r, 0), Frame("processPending2", g.c, r, 0)>>)
                   ELSE Goto(<<Frame("processPending", g.c, NoReq, 0)>>)
    BY <1>1, <1>8, <2>1, <2>2 DEF ProcessPending, top
  <2>5. CASE g.c = NoConn
    <3>1. pool' = pool /\ stack' = Tail(stack) /\ queue' = queue
      BY <2>3, <2>4, <2>5
    <3>2. Types' /\ PoolOK(pool') /\ Placed(conn', queue', req', pool')
      BY <1>5, <3>1, NothingMoved DEF BaseInv, Types
    <3> QED
      BY <1>2, <3>1, <3>2, Returned
  <2>6. CASE g.c # NoConn
    <3>1. queue' = Tail(queue)
      BY <2>4, <2>6
    <3>2. Types' /\ Placed(conn', queue', req', pool) /\ r \in Reqs /\ Loose(queue', req', r)
      BY <1>5, <1>8, <2>1, <3>1, TakeHead
    <3>3. Placed(conn', queue', req', pool') /\ PoolOK(pool')
      BY <2>3, <2>4, <2>6, <3>2 DEF Placed
    <3>4. Idle(conn', pool', g.c) /\ g.c \in Conns
      BY <1>5, <2>3, <2>4, <2>6
    <3>5. CASE req[r].alive
      <4>1. PICK a, b : a = Frame("assignReq", g.c, r, 0) /\ b = Frame("processPending2", g.c, r, 0)
        OBVIOUS
      <4>2. stack' = <<a, b>> \o Tail(stack)
        BY <2>4, <2>6, <3>5, <4>1 DEF Goto
      <4>3. FrameOK(a) /\ a.fn = "assignReq" /\ a.c = g.c /\ a.r = r /\ FrameOK(b) /\ b.fn = "processPending2"
        BY <3>2, <3>4, <4>1, FrameMade, MarkFacts DEF FrameNames, OfConn, OfReq
      <4>4. Held(a, conn', queue', req', pool')
        BY <3>2, <3>4, <4>3 DEF Held
      <4> QED
        BY <1>2, <3>2, <3>3, <4>2, <4>3, <4>4, Called2 DEF Resumes
    <3>6. CASE ~req[r].alive
      <4>1. PICK a : a = Frame("processPending", g.c, NoReq, 0)
        OBVIOUS
      <4>2. stack' = <<a>> \o Tail(stack)
        BY <2>4, <2>6, <3>6, <4>1 DEF Goto
      <4>3. FrameOK(a) /\ a.fn = "processPending" /\ a.c = g.c
        BY <3>4, <4>1, PendingFrame
      <4>4. Held(a, conn', queue', req', pool')
        BY <3>4, <4>3 DEF Held
      <4> QED
        BY <1>2, <3>2, <3>3, <4>2, <4>3, <4>4, Called
    <3> QED
      BY <3>5, <3>6
  <2> QED
    BY <2>5, <2>6
<1> QED
  BY <1>6, <1>7, <1>8

LEMMA HoldsNothing ==
    ASSUME NEW f, f.fn \notin {"recycleConn", "recycleLoop", "assignReq", "processPending", "processRequest",
                               "tryRecover"},
           NEW cn, NEW q, NEW rq, NEW p
    PROVE  Held(f, cn, q, rq, p)
  BY DEF Held

LEMMA AssignReqBase ==
    ASSUME BaseInv, AssignReq
    PROVE  BaseInv'
<1>1. PICK f : f = Head(stack)
  OBVIOUS
<1>2. stack # <<>> /\ f.fn = "assignReq"
  BY <1>1 DEF AssignReq, Top
<1>3. /\ Types /\ PoolOK(pool) /\ Placed(conn, queue, req, pool)
      /\ FrameOK(f) /\ Held(f, conn, queue, req, pool)
  BY <1>1, <1>2, Running
<1>4. PICK c \in Conns, r \in Reqs : c = f.c /\ r = f.r
  BY <1>2, <1>3 DEF FrameOK, OfConn, OfReq
<1>5. Idle(conn, pool, c) /\ Loose(queue, req, r)
  BY <1>2, <1>3, <1>4 DEF Held
<1>6. UNCHANGED <<pool, worker, queue, errno, faults>>
  BY DEF AssignReq, lists
<1>7. PICK k : k = IF conn[c].st \in {"ABORT", "CLOSING"} THEN Closed(conn[c]) ELSE conn[c]
  OBVIOUS
<1>8. k \in ConnType
  BY <1>3, <1>7, ClosedOK DEF Types
<1>9. PICK e : e = [k EXCEPT !.req = r, !.sent = FALSE]
  OBVIOUS
<1>10. e \in ConnType /\ e.req = r
  BY <1>8, <1>9 DEF ConnType
<1>11. PICK q \in ReqType : q = req[r]
  BY <1>3 DEF Types
<1>12. PICK u : u = [q EXCEPT !.proc = c]
  OBVIOUS
<1>13. u \in ReqType /\ u.proc = c /\ u.st = q.st /\ u.complete = q.complete
  BY <1>11, <1>12 DEF ReqType
<1>14. /\ conn' = [conn EXCEPT ![c] = e] /\ req' = [req EXCEPT ![r].proc = c]
       /\ \/ Goto(<<Frame("doWrite", c, NoReq, 0)>>) /\ ret' = ret
          \/ Return(0)
          \/ Goto(<<Frame("connectEx", c, NoReq, 0), Frame("assignReq2", c, NoReq, 0)>>) /\ ret' = ret
  BY <1>1, <1>4, <1>7, <1>9 DEF AssignReq, top
<1>15. req' = [req EXCEPT ![r] = u]
  BY <1>3, <1>11, <1>12, <1>14 DEF Types
<1>16. /\ conn' \in [Conns -> ConnType] /\ conn'[c].req = r /\ \A d \in Conns : d # c => conn'[d].req = conn[d].req
  BY <1>3, <1>10, <1>14 DEF Types
<1>17. /\ req' \in [Reqs -> ReqType]
       /\ \A s \in Reqs : /\ req'[s].proc = IF s = r THEN c ELSE req[s].proc
                          /\ req'[s].st = req[s].st /\ req'[s].complete = req[s].complete
  BY <1>3, <1>11, <1>13, <1>15 DEF Types
<1>18. ret' \in Rets
  BY <1>3, <1>14, MarkFacts DEF Types, Return
<1>19. Types' /\ PoolOK(pool')
  BY <1>3, <1>6, <1>16, <1>17, <1>18 DEF Types
<1>20. Placed(conn', queue', req', pool')
  BY <1>3, <1>5, <1>6, <1>16, <1>17, PlacedAssign
<1>21. CASE Return(0)
  BY <1>2, <1>19, <1>20, <1>21, Returned DEF Return
<1>22. CASE Goto(<<Frame("doWrite", c, NoReq, 0)>>)
  <2>1. PICK a : a = Frame("doWrite", c, NoReq, 0)
    OBVIOUS
  <2>2. stack' = <<a>> \o Tail(stack)
    BY <1>22, <2>1 DEF Goto
  <2>3. FrameOK(a) /\ a.fn = "doWrite"
    BY <2>1, ConnFrame, MarkFacts DEF OfConn, OfReq
  <2>4. Held(a, conn', queue', req', pool')
    BY <2>3, HoldsNothing
  <2> QED
    BY <1>2, <1>19, <1>20, <2>2, <2>3, <2>4, Called
<1>23. CASE Goto(<<Frame("connectEx", c, NoReq, 0), Frame("assignReq2", c, NoReq, 0)>>)
  <2>1. PICK a, b : a = Frame("connectEx", c, NoReq, 0) /\ b = Frame("assignReq2", c, NoReq, 0)
    OBVIOUS
  <2>2. stack' = <<a, b>> \o Tail(stack)
    BY <1>23, <2>1 DEF Goto
  <2>3. FrameOK(a) /\ a.fn = "connectEx" /\ FrameOK(b) /\ b.fn = "assignReq2"
    BY <2>1, ConnFrame, MarkFacts DEF OfConn, OfReq
  <2>4. Held(a, conn', queue', req', pool')
    BY <2>3, HoldsNothing
  <2> QED
    BY <1>2, <1>19, <1>20, <2>2, <2>3, <2>4, Called2 DEF Resumes
<1> QED
  BY <1>14, <1>21, <1>22, <1>23

LEMMA AssignReq2Base ==
    ASSUME BaseInv, AssignReq2
    PROVE  BaseInv'
<1>1. PICK f : f = Head(stack)
  OBVIOUS
<1>2. stack # <<>> /\ f.fn = "assignReq2"
  BY <1>1 DEF AssignReq2, Top
<1>3. PICK c \in Conns : c = f.c
  BY <1>1, <1>2, Running DEF FrameOK, OfConn
<1>4. CASE ret = LS_FAIL
  <2>1. PICK a : a = Frame("connError", c, NoReq, errno)
    OBVIOUS
  <2>2. /\ stack' = <<a>> \o Tail(stack) /\ errno' = "none" /\ ret' = ret
        /\ UNCHANGED <<conn, req, pool, worker, queue, faults>>
    BY <1>1, <1>3, <1>4, <2>1 DEF AssignReq2, top, Goto, lists
  <2>3. errno \in Marks
    BY MarkFacts DEF BaseInv, Types
  <2>4. FrameOK(a) /\ a.fn = "connError"
    BY <2>1, <2>3, ConnFrame DEF OfConn, OfReq
  <2>5. Types' /\ PoolOK(pool') /\ Placed(conn', queue', req', pool')
    BY <2>2, NothingMoved DEF BaseInv, Types
  <2>6. Held(a, conn', queue', req', pool')
    BY <2>4, HoldsNothing
  <2> QED
    BY <1>2, <2>2, <2>4, <2>5, <2>6, Called
<1>5. CASE ret # LS_FAIL
  <2>1. stack' = Tail(stack) /\ ret' = 0 /\ UNCHANGED <<conn, req, pool, worker, queue, errno, faults>>
    BY <1>5 DEF AssignReq2, Return, lists
  <2>2. Types' /\ PoolOK(pool') /\ Placed(conn', queue', req', pool')
    BY <2>1, NothingMoved, MarkFacts DEF BaseInv, Types
  <2> QED
    BY <1>2, <2>1, <2>2, Returned
<1> QED
  BY <1>4, <1>5

\* only connections change, and what they carry is the same
LEMMA ConnsMoved ==
    ASSUME BaseInv, UNCHANGED <<pool, worker, queue>>, conn' \in [Conns -> ConnType], SameConns(conn, conn'),
           req' \in [Reqs -> ReqType], SameReqs(req, req'),
           ret' \in Rets, errno' \in Errnos \cup {"none"}, faults' \in 0 .. MaxFaults
    PROVE  Types' /\ PoolOK(pool') /\ Placed(conn', queue', req', pool')
<1>1. Types /\ PoolOK(pool) /\ Placed(conn, queue, req, pool)
  BY DEF BaseInv
<1>2. \A c \in Conns : conn[c].req # NoReq => c \in Busy(pool')
  BY <1>1 DEF Placed
<1>3. Placed(conn', queue', req', pool')
  BY <1>1, <1>2, PlacedKeep
<1> QED
  BY <1>1, <1>3 DEF Types

LEMMA SameAsBefore == \A rq, cn : SameReqs(rq, rq) /\ SameConns(cn, cn)
  BY DEF SameReqs, SameConns

LEMMA FaultOK ==
    ASSUME BaseInv, Fault
    PROVE  faults' \in 0 .. MaxFaults
  BY FaultAssumption DEF Fault, BaseInv, Types

\* one connection changes, and what it carries is the same
LEMMA OneConn ==
    ASSUME Types, NEW c \in Conns, NEW e \in ConnType, e.req = conn[c].req, NEW dn, dn = [conn EXCEPT ![c] = e]
    PROVE  /\ dn \in [Conns -> ConnType] /\ SameConns(conn, dn)
           /\ dn[c] = e /\ \A d \in Conns : d # c => dn[d] = conn[d]
  BY DEF Types, SameConns

LEMMA ConnectExBase ==
    ASSUME BaseInv, ConnectEx
    PROVE  BaseInv'
<1>1. PICK f : f = Head(stack)
  OBVIOUS
<1>2. stack # <<>> /\ f.fn = "connectEx" /\ Types
  BY <1>1 DEF ConnectEx, Top, BaseInv
<1>3. PICK c \in Conns : c = f.c
  BY <1>1, <1>2, Running DEF FrameOK, OfConn
<1>4. PICK h : h = Closed(conn[c])
  OBVIOUS
<1>5. h \in ConnType /\ h.req = conn[c].req
  BY <1>2, <1>4, ClosedOK DEF Types
<1>6. PICK k : k = [h EXCEPT !.toClose = FALSE, !.used = FALSE]
  OBVIOUS
<1>7. k \in ConnType /\ k.req = conn[c].req
  BY <1>5, <1>6 DEF ConnType
<1>8. PICK e1, e2 : /\ e1 = [k EXCEPT !.st = "PROCESSING", !.used = TRUE, !.sent = FALSE]
                    /\ e2 = [k EXCEPT !.st = "CONNECTING", !.used = TRUE, !.sent = FALSE]
  OBVIOUS
<1>9. e1 \in ConnType /\ e1.req = conn[c].req /\ e2 \in ConnType /\ e2.req = conn[c].req
  BY <1>7, <1>8 DEF ConnType, ConnStates
<1>10. UNCHANGED <<pool, worker, queue, req>>
  BY DEF ConnectEx, lists
<1>11. \/ /\ conn' = [conn EXCEPT ![c] = e1]
          /\ Goto(<<Frame("doWrite", c, NoReq, 0), Frame("return", NoConn, NoReq, 0)>>)
          /\ UNCHANGED <<ret, errno, faults>>
       \/ conn' = [conn EXCEPT ![c] = e2] /\ Return(0) /\ UNCHANGED <<errno, faults>>
       \/ /\ Fault /\ conn' = [conn EXCEPT ![c] = k] /\ errno' \in ConnectErrnos /\ Return(LS_FAIL)
  BY <1>1, <1>3, <1>4, <1>6, <1>8 DEF ConnectEx, top
<1>12. req' \in [Reqs -> ReqType] /\ SameReqs(req, req')
  BY <1>2, <1>10, SameAsBefore DEF Types
<1>13. CASE conn' = [conn EXCEPT ![c] = e1] /\ UNCHANGED <<ret, errno, faults>> /\
            Goto(<<Frame("doWrite", c, NoReq, 0), Frame("return", NoConn, NoReq, 0)>>)
  <2>1. PICK a, b : a = Frame("doWrite", c, NoReq, 0) /\ b = Frame("return", NoConn, NoReq, 0)
    OBVIOUS
  <2>2. stack' = <<a, b>> \o Tail(stack)
    BY <1>13, <2>1 DEF Goto
  <2>3. FrameOK(a) /\ a.fn = "doWrite" /\ FrameOK(b) /\ b.fn = "return"
    BY <2>1, ConnFrame, ReturnFrame, MarkFacts DEF OfConn, OfReq
  <2>4. conn' \in [Conns -> ConnType] /\ SameConns(conn, conn')
    BY <1>2, <1>9, <1>13, OneConn
  <2>5. Types' /\ PoolOK(pool') /\ Placed(conn', queue', req', pool')
    BY <1>2, <1>10, <1>12, <1>13, <2>4, ConnsMoved DEF Types
  <2>6. Held(a, conn', queue', req', pool')
    BY <2>3, HoldsNothing
  <2> QED
    BY <1>2, <2>2, <2>3, <2>5, <2>6, Called2 DEF Resumes
<1>14. CASE conn' = [conn EXCEPT ![c] = e2] /\ Return(0) /\ UNCHANGED <<errno, faults>>
  <2>1. conn' \in [Conns -> ConnType] /\ SameConns(conn, conn')
    BY <1>2, <1>9, <1>14, OneConn
  <2>2. stack' = Tail(stack) /\ ret' \in Rets
    BY <1>14, MarkFacts DEF Return
  <2>3. Types' /\ PoolOK(pool') /\ Placed(conn', queue', req', pool')
    BY <1>2, <1>10, <1>12, <1>14, <2>1, <2>2, ConnsMoved DEF Types
  <2> QED
    BY <1>2, <2>2, <2>3, Returned
<1>15. CASE Fault /\ conn' = [conn EXCEPT ![c] = k] /\ errno' \in ConnectErrnos /\ Return(LS_FAIL)
  <2>1. conn' \in [Conns -> ConnType] /\ SameConns(conn, conn')
    BY <1>2, <1>7, <1>15, OneConn
  <2>2. stack' = Tail(stack) /\ ret' \in Rets /\ errno' \in Errnos
    BY <1>15, MarkFacts DEF Return
  <2>3. Types' /\ PoolOK(pool') /\ Placed(conn', queue', req', pool')
    BY <1>2, <1>10, <1>12, <1>15, <2>1, <2>2, ConnsMoved, FaultOK DEF Types
  <2> QED
    BY <1>2, <2>2, <2>3, Returned
<1> QED
  BY <1>11, <1>13, <1>14, <1>15

\* the running function goes on as another one on a connection
LEMMA CalledConn ==
    ASSUME BaseInv, stack # <<>>, NEW fn \in {"doWrite", "connError", "connectionError"}, NEW c \in Conns,
           NEW x \in Marks, stack' = <<Frame(fn, c, NoReq, x)>> \o Tail(stack), Types', PoolOK(pool'),
           Placed(conn', queue', req', pool')
    PROVE  BaseInv'
<1>1. PICK a : a = Frame(fn, c, NoReq, x)
  OBVIOUS
<1>2. FrameOK(a) /\ a.fn = fn
  BY <1>1, ConnFrame DEF OfConn, OfReq
<1>3. Held(a, conn', queue', req', pool')
  BY <1>2, HoldsNothing
<1> QED
  BY <1>1, <1>2, <1>3, Called

\* one request changes, and its place is the same
LEMMA OneReq ==
    ASSUME Types, NEW r \in Reqs, NEW u \in ReqType, u.proc = req[r].proc, u.st = req[r].st,
           u.complete = req[r].complete, NEW sq, sq = [req EXCEPT ![r] = u]
    PROVE  /\ sq \in [Reqs -> ReqType] /\ SameReqs(req, sq)
           /\ sq[r] = u /\ \A s \in Reqs : s # r => sq[s] = req[s]
  BY DEF Types, SameReqs

\* what a connection carries is a request of its own
LEMMA Carried ==
    ASSUME Types, NEW q, NEW p, Placed(conn, q, req, p), NEW c \in Conns, conn[c].req # NoReq
    PROVE  /\ conn[c].req \in Reqs /\ req[conn[c].req].proc = c /\ req[conn[c].req] \in ReqType
           /\ req[conn[c].req].st = "active" /\ ~req[conn[c].req].complete
           /\ ~Has(q, conn[c].req) /\ c \in Busy(p)
<1>1. conn[c].req \in Reqs
  BY DEF Types, ConnType
<1>2. req[conn[c].req].proc = c /\ c # NoConn /\ c \in Busy(p)
  BY <1>1, ConnAssumption DEF Placed
<1> QED
  BY <1>1, <1>2 DEF Placed, Types

LEMMA DoWriteBase ==
    ASSUME BaseInv, DoWrite
    PROVE  BaseInv'
<1>1. PICK f : f = Head(stack)
  OBVIOUS
<1>2. stack # <<>> /\ f.fn = "doWrite" /\ Types /\ Placed(conn, queue, req, pool)
  BY <1>1 DEF DoWrite, Top, BaseInv
<1>3. PICK c \in Conns : c = f.c
  BY <1>1, <1>2, Running DEF FrameOK, OfConn
<1>4. PICK k \in ConnType : k = conn[c]
  BY <1>2 DEF Types
<1>5. PICK r : r = k.req
  OBVIOUS
<1>6. UNCHANGED <<pool, worker, queue, errno>>
  BY DEF DoWrite, lists
<1>7. CASE r = NoReq \/ req[r].hec = "resp"
  <2>1. stack' = Tail(stack) /\ ret' = 0 /\ UNCHANGED <<conn, req, faults>>
    BY <1>1, <1>3, <1>4, <1>5, <1>7 DEF DoWrite, top, Return
  <2>2. Types' /\ PoolOK(pool') /\ Placed(conn', queue', req', pool')
    BY <1>6, <2>1, NothingMoved, MarkFacts DEF BaseInv, Types
  <2> QED
    BY <1>2, <2>1, <2>2, Returned
<1>8. CASE ~(r = NoReq \/ req[r].hec = "resp")
  <2>1. r \in Reqs /\ req[r] \in ReqType
    BY <1>2, <1>4, <1>5, <1>8, Carried
  <2>2. PICK hec \in {"fwd", "resp"} :
             /\ req' = [req EXCEPT ![r].hec = hec]
             /\ conn' = [conn EXCEPT ![c].inProcess = TRUE, ![c].sent = (hec = "resp")]
             /\ \/ Return(0) /\ UNCHANGED faults
                \/ Fault /\ ret' = ret /\ \E e \in IoErrnos : Goto(<<Frame("connError", c, NoReq, e)>>)
    BY <1>1, <1>3, <1>4, <1>5, <1>8 DEF DoWrite, top
  <2>3. PICK b \in BOOLEAN : b = (hec = "resp")
    OBVIOUS
  <2>4. PICK e, u : e = [k EXCEPT !.inProcess = TRUE, !.sent = b] /\ u = [req[r] EXCEPT !.hec = hec]
    OBVIOUS
  <2>5. e \in ConnType /\ e.req = k.req
    BY <2>4 DEF ConnType
  <2>6. u \in ReqType /\ u.proc = req[r].proc /\ u.st = req[r].st /\ u.complete = req[r].complete
    BY <2>1, <2>4 DEF ReqType
  <2>7. conn' = [conn EXCEPT ![c] = e] /\ req' = [req EXCEPT ![r] = u]
    BY <1>2, <1>4, <2>1, <2>2, <2>3, <2>4 DEF Types
  <2>8. conn' \in [Conns -> ConnType] /\ SameConns(conn, conn')
    BY <1>2, <1>4, <2>5, <2>7, OneConn
  <2>9. req' \in [Reqs -> ReqType] /\ SameReqs(req, req')
    BY <1>2, <2>1, <2>6, <2>7, OneReq
  <2>10. ret' \in Rets /\ faults' \in 0 .. MaxFaults
    BY <1>2, <2>2, MarkFacts, FaultOK DEF Return, Types
  <2>11. Types' /\ PoolOK(pool') /\ Placed(conn', queue', req', pool')
    BY <1>2, <1>6, <2>8, <2>9, <2>10, ConnsMoved DEF Types
  <2>12. CASE Return(0)
    BY <1>2, <2>11, <2>12, Returned DEF Return
  <2>13. ASSUME NEW x \in IoErrnos, Goto(<<Frame("connError", c, NoReq, x)>>) PROVE BaseInv'
    BY <1>2, <2>11, <2>13, CalledConn, MarkFacts DEF Goto
  <2> QED
    BY <2>2, <2>12, <2>13
<1> QED
  BY <1>7, <1>8

\* resetConnector() and errResponse() leave a request where it is
LEMMA ResetOK ==
    ASSUME NEW q \in ReqType, NEW u, u = ResetConnector(q)
    PROVE  /\ u \in ReqType /\ u.proc = q.proc /\ u.st = q.st /\ ~u.complete /\ ~u.err
           /\ u.out = q.out /\ u.alive = q.alive /\ u.attempts = q.attempts
<1>1. PICK no \in BOOLEAN : no = FALSE
  OBVIOUS
<1>2. u = [q EXCEPT !.hec = "begin", !.hdr = "none", !.err = no, !.abort = no, !.complete = no]
  BY <1>1 DEF ResetConnector
<1>3. u \in ReqType
  <2>1. PICK a : a = [q EXCEPT !.hec = "begin"]
    OBVIOUS
  <2>2. a \in ReqType
    BY <2>1 DEF ReqType
  <2>3. PICK b : b = [a EXCEPT !.hdr = "none"]
    OBVIOUS
  <2>4. b \in ReqType
    BY <2>2, <2>3 DEF ReqType
  <2>5. PICK d : d = [b EXCEPT !.err = no]
    OBVIOUS
  <2>6. d \in ReqType
    BY <2>4, <2>5 DEF ReqType
  <2>7. PICK e : e = [d EXCEPT !.abort = no]
    OBVIOUS
  <2>8. e \in ReqType
    BY <2>6, <2>7 DEF ReqType
  <2>9. PICK h : h = [e EXCEPT !.complete = no]
    OBVIOUS
  <2>10. h \in ReqType
    BY <2>8, <2>9 DEF ReqType
  <2>11. u = h
    BY <1>2, <2>1, <2>3, <2>5, <2>7, <2>9
  <2> QED
    BY <2>10, <2>11
<1>4. /\ u.proc = q.proc /\ u.st = q.st /\ u.complete = no /\ u.err = no
      /\ u.out = q.out /\ u.alive = q.alive /\ u.attempts = q.attempts
  BY <1>2 DEF ReqType
<1> QED
  BY <1>1, <1>3, <1>4

LEMMA ConnErrorBase ==
    ASSUME BaseInv, ConnError
    PROVE  BaseInv'
<1>1. PICK f : f = Head(stack)
  OBVIOUS
<1>2. stack # <<>> /\ f.fn = "connError" /\ Types /\ Placed(conn, queue, req, pool)
  BY <1>1 DEF ConnError, Top, BaseInv
<1>3. PICK c \in Conns, x \in Marks : c = f.c /\ x = f.x
  BY <1>1, <1>2, Running DEF FrameOK, OfConn, AnyFrame
<1>4. PICK e : e = Closed(conn[c])
  OBVIOUS
<1>5. e \in ConnType /\ e.req = conn[c].req
  BY <1>2, <1>4, ClosedOK DEF Types
<1>6. PICK r : r = conn[c].req
  OBVIOUS
<1>7. UNCHANGED <<pool, worker, queue, errno, faults>>
  BY DEF ConnError, lists
<1>8. CASE x = "intr"
  <2>1. stack' = Tail(stack) /\ ret' = 0 /\ UNCHANGED <<conn, req>>
    BY <1>1, <1>3, <1>8 DEF ConnError, top, Return
  <2>2. Types' /\ PoolOK(pool') /\ Placed(conn', queue', req', pool')
    BY <1>7, <2>1, NothingMoved, MarkFacts DEF BaseInv, Types
  <2> QED
    BY <1>2, <2>1, <2>2, Returned
<1>9. CASE x # "intr"
  <2>0. PICK v : v = ResetConnector(req[r])
    OBVIOUS
  <2>1. /\ conn' = [conn EXCEPT ![c] = Closed(@)] /\ ret' = ret
        /\ \/ /\ r # NoReq /\ req' = [req EXCEPT ![r] = [v EXCEPT !.attempts = v.attempts + 1]]
              /\ Goto(<<Frame("connectEx", c, NoReq, 0), Frame("connError2", c, NoReq, x)>>)
           \/ Goto(<<Frame("connectionError", c, NoReq, x)>>) /\ UNCHANGED req
    BY <1>1, <1>3, <1>6, <1>9, <2>0 DEF ConnError, top
  <2>2. conn' = [conn EXCEPT ![c] = e]
    BY <1>2, <1>4, <2>1 DEF Types
  <2>3. conn' \in [Conns -> ConnType] /\ SameConns(conn, conn')
    BY <1>2, <1>5, <2>2, OneConn
  <2>4. CASE Goto(<<Frame("connectionError", c, NoReq, x)>>) /\ UNCHANGED req
    <3>1. req' \in [Reqs -> ReqType] /\ SameReqs(req, req')
      BY <1>2, <2>4, SameAsBefore DEF Types
    <3>2. Types' /\ PoolOK(pool') /\ Placed(conn', queue', req', pool')
      BY <1>2, <1>7, <2>1, <2>3, <3>1, ConnsMoved DEF Types
    <3> QED
      BY <1>2, <2>4, <3>2, CalledConn DEF Goto
  <2>5. CASE /\ r # NoReq /\ req' = [req EXCEPT ![r] = [v EXCEPT !.attempts = v.attempts + 1]]
             /\ Goto(<<Frame("connectEx", c, NoReq, 0), Frame("connError2", c, NoReq, x)>>)
    <3>1. r \in Reqs /\ req[r] \in ReqType /\ ~req[r].complete
      BY <1>2, <1>6, <2>5, Carried
    <3>3. v \in ReqType /\ v.proc = req[r].proc /\ v.st = req[r].st /\ ~v.complete
      BY <2>0, <3>1, ResetOK
    <3>4. PICK u : u = [v EXCEPT !.attempts = v.attempts + 1]
      OBVIOUS
    <3>5. u \in ReqType /\ u.proc = v.proc /\ u.st = v.st /\ u.complete = v.complete
      BY <3>3, <3>4 DEF ReqType
    <3>6. req' = [req EXCEPT ![r] = u]
      BY <2>5, <3>4
    <3>7. u.complete = req[r].complete
      BY <3>1, <3>3, <3>5 DEF ReqType
    <3>8. req' \in [Reqs -> ReqType] /\ SameReqs(req, req')
      BY <1>2, <3>1, <3>3, <3>5, <3>6, <3>7, OneReq
    <3>9. Types' /\ PoolOK(pool') /\ Placed(conn', queue', req', pool')
      BY <1>2, <1>7, <2>1, <2>3, <3>8, ConnsMoved DEF Types
    <3>10. PICK a, b : a = Frame("connectEx", c, NoReq, 0) /\ b = Frame("connError2", c, NoReq, x)
      OBVIOUS
    <3>11. FrameOK(a) /\ a.fn = "connectEx" /\ FrameOK(b) /\ b.fn = "connError2"
      BY <3>10, ConnFrame, MarkFacts DEF OfConn, OfReq
    <3>12. Held(a, conn', queue', req', pool')
      BY <3>11, HoldsNothing
    <3>13. stack' = <<a, b>> \o Tail(stack)
      BY <2>5, <3>10 DEF Goto
    <3> QED
      BY <1>2, <3>9, <3>11, <3>12, <3>13, Called2 DEF Resumes
  <2> QED
    BY <2>1, <2>4, <2>5
<1> QED
  BY <1>8, <1>9

LEMMA ConnError2Base ==
    ASSUME BaseInv, ConnError2
    PROVE  BaseInv'
<1>1. PICK f : f = Head(stack)
  OBVIOUS
<1>2. stack # <<>> /\ f.fn = "connError2" /\ Types
  BY <1>1 DEF ConnError2, Top, BaseInv
<1>3. PICK c \in Conns, x \in Marks : c = f.c /\ x = f.x
  BY <1>1, <1>2, Running DEF FrameOK, OfConn, AnyFrame
<1>4. UNCHANGED <<req, pool, worker, queue, faults>> /\ errno' = "none"
  BY DEF ConnError2, lists
<1>5. CASE ret = 0
  <2>1. stack' = Tail(stack) /\ ret' = 0 /\ UNCHANGED conn
    BY <1>5 DEF ConnError2, Return
  <2>2. Types' /\ PoolOK(pool') /\ Placed(conn', queue', req', pool')
    BY <1>4, <2>1, NothingMoved, MarkFacts DEF BaseInv, Types
  <2> QED
    BY <1>2, <2>1, <2>2, Returned
<1>6. CASE ret # 0
  <2>1. PICK e : e = Closed(conn[c])
    OBVIOUS
  <2>2. e \in ConnType /\ e.req = conn[c].req
    BY <1>2, <2>1, ClosedOK DEF Types
  <2>3. conn' = [conn EXCEPT ![c] = e] /\ Goto(<<Frame("connectionError", c, NoReq, x)>>) /\ ret' = ret
    BY <1>1, <1>2, <1>3, <1>6, <2>1 DEF ConnError2, top, Types
  <2>4. conn' \in [Conns -> ConnType] /\ SameConns(conn, conn')
    BY <1>2, <2>2, <2>3, OneConn
  <2>5. req' \in [Reqs -> ReqType] /\ SameReqs(req, req')
    BY <1>2, <1>4, SameAsBefore DEF Types
  <2>6. Types' /\ PoolOK(pool') /\ Placed(conn', queue', req', pool')
    BY <1>2, <1>4, <2>3, <2>4, <2>5, ConnsMoved DEF Types
  <2> QED
    BY <1>2, <2>3, <2>6, CalledConn DEF Goto
<1> QED
  BY <1>5, <1>6

\* closing and marking connections leaves what they carry
LEMMA KeptConns ==
    ASSUME NEW cn, NEW dn, AllKept(cn, dn)
    PROVE  dn \in [Conns -> ConnType] /\ SameConns(cn, dn)
  BY DEF AllKept, Kept, SameConns

LEMMA KeptSelf ==
    ASSUME NEW cn \in [Conns -> ConnType]
    PROVE  AllKept(cn, cn)
  BY DEF AllKept, Kept

LEMMA KeptTwice ==
    ASSUME NEW cn, NEW dn, NEW en, AllKept(cn, dn), AllKept(dn, en)
    PROVE  AllKept(cn, en)
  BY DEF AllKept, Kept

\* What connectionError() does to the pool, the worker and the connections, whatever
\* the error was.
LEMMA ConnectionErrorEffect ==
    ASSUME BaseInv, NEW c \in Conns, NEW x, x # "again", ConnectionError, Head(stack).c = c, Head(stack).x = x,
           NEW dn, dn = Detach(c)
    PROVE  /\ PoolOK(pool') /\ Busy(pool) \ {c} \subseteq Busy(pool')
           /\ conn' \in [Conns -> ConnType] /\ SameConns(dn, conn') /\ AllKept(dn, conn')
           /\ worker' \in WorkerType /\ queue' = queue
           /\ IF conn[c].req = NoReq
              THEN Goto(<<Frame("connectionError2", NoConn, NoReq, 0)>>) /\ ret' = 0
              ELSE /\ Goto(<<Frame("tryRecover", NoConn, conn[c].req, 0),
                             Frame("connectionError2", NoConn, NoReq, 0)>>)
                   /\ ret' = ret
<1>1. Types /\ PoolOK(pool)
  BY DEF BaseInv
<1>2. dn \in [Conns -> ConnType]
  BY <1>1, DetachOK DEF Detached
<1>3. PICK p1 : p1 = RemoveConn(pool, c)
  OBVIOUS
<1>4. PICK hard \in BOOLEAN : hard = (~conn[c].used /\ x \notin {"reset", "timeout"})
  OBVIOUS
<1>5. PICK refused \in BOOLEAN : refused = (x = "refused")
  OBVIOUS
<1>6. PICK p2 : p2 = IF hard THEN DecMaxConn(p1) ELSE p1
  OBVIOUS
<1>7. PICK p3 : p3 = IF hard /\ refused THEN DropFree(p2) ELSE p2
  OBVIOUS
<1>8. PICK c3 : c3 = IF hard /\ refused THEN CloseFree(dn, p2) ELSE dn
  OBVIOUS
<1>9. PICK restart \in BOOLEAN :
          restart = (hard /\ \/ refused
                             \/ p2.max < (CfgMaxConns + 1) \div 2 /\ ~worker.restartRecent)
  OBVIOUS
<1>10. PICK allBad \in BOOLEAN : allBad = (~conn[c].used /\ p2.max = 0)
  OBVIOUS
<1>11. PICK clear \in BOOLEAN : clear = (restart \/ (allBad /\ RetryTimeout))
  OBVIOUS
<1>12. PICK state : state = IF ~allBad THEN worker.st ELSE IF RetryTimeout THEN "BAD" ELSE "NOTSTARTED"
  OBVIOUS
<1>13. PICK n : n = worker.linger - (IF conn[c].toClose THEN 1 ELSE 0)
  OBVIOUS
<1>14. /\ conn' = IF clear THEN ClearConns(c3, p3) ELSE c3
       /\ pool' = IF clear THEN DropFree(p3) ELSE p3
       /\ worker' = [st |-> state,
                     errors |-> IF ~allBad THEN worker.errors
                                ELSE IF RetryTimeout THEN worker.errors + 1 ELSE 0,
                     linger |-> n + (IF clear THEN ClearLinger(c3, p3) ELSE 0),
                     errRecent |-> worker.errRecent \/ hard \/ state = "BAD",
                     restartRecent |-> worker.restartRecent \/ restart]
       /\ IF conn[c].req = NoReq
          THEN Goto(<<Frame("connectionError2", NoConn, NoReq, 0)>>) /\ ret' = 0
          ELSE /\ Goto(<<Frame("tryRecover", NoConn, conn[c].req, 0),
                         Frame("connectionError2", NoConn, NoReq, 0)>>)
               /\ ret' = ret
       /\ queue' = queue
  BY <1>3, <1>4, <1>5, <1>6, <1>7, <1>8, <1>9, <1>10, <1>11, <1>12, <1>13 DEF ConnectionError, top
<1>15. PoolOK(p1) /\ Busy(p1) = Busy(pool) \ {c}
  BY <1>1, <1>3, RemoveConnOK
<1>16. PoolOK(p2) /\ Busy(p2) = Busy(p1)
  BY <1>6, <1>15, DecMaxConnOK
<1>17. PoolOK(p3) /\ Busy(p3) = Busy(p2)
  BY <1>7, <1>16, DropFreeOK
<1>18. PoolOK(pool') /\ Busy(pool') = Busy(p3)
  <2>1. PICK o : o = IF clear THEN DropFree(p3) ELSE p3
    OBVIOUS
  <2>2. PoolOK(o) /\ Busy(o) = Busy(p3)
    BY <1>17, <2>1, DropFreeOK
  <2>3. pool' = o
    BY <1>14, <2>1
  <2> QED
    BY <2>2, <2>3
<1>19. c3 \in [Conns -> ConnType] /\ AllKept(dn, c3)
  BY <1>2, <1>8, CloseFreeOK, KeptSelf DEF AllKept
<1>20. conn' \in [Conns -> ConnType] /\ SameConns(dn, conn') /\ AllKept(dn, conn')
  <2>1. PICK en : en = IF clear THEN ClearConns(c3, p3) ELSE c3
    OBVIOUS
  <2>2. en \in [Conns -> ConnType] /\ AllKept(c3, en)
    BY <1>19, <2>1, ClearConnsOK, KeptSelf DEF AllKept
  <2>3. conn' = en
    BY <1>14, <2>1
  <2>4. AllKept(dn, conn')
    BY <1>19, <2>2, <2>3, KeptTwice
  <2> QED
    BY <2>2, <2>3, <2>4, KeptConns
<1>21. worker' \in WorkerType
  <2>1. /\ worker.errors \in Nat /\ worker.linger \in Int /\ worker.st \in {"NOTSTARTED", "BAD", "GOOD"}
    BY <1>1 DEF Types, WorkerType
  <2>2. n \in Int
    BY <1>13, <2>1
  <2>3. PICK m \in Int : m = n + (IF clear THEN ClearLinger(c3, p3) ELSE 0)
    BY <1>17, <2>2, ClearLingerOK
  <2>4. PICK k \in Nat : k = IF ~allBad THEN worker.errors ELSE IF RetryTimeout THEN worker.errors + 1 ELSE 0
    BY <2>1
  <2>5. PICK b1 \in BOOLEAN, b2 \in BOOLEAN :
             b1 = (worker.errRecent \/ hard \/ state = "BAD") /\ b2 = (worker.restartRecent \/ restart)
    OBVIOUS
  <2>6. state \in {"NOTSTARTED", "BAD", "GOOD"}
    BY <1>12, <2>1
  <2>7. worker' = [st |-> state, errors |-> k, linger |-> m, errRecent |-> b1, restartRecent |-> b2]
    BY <1>14, <2>3, <2>4, <2>5
  <2> QED
    BY <2>6, <2>7 DEF WorkerType
<1> QED
  BY <1>14, <1>15, <1>16, <1>17, <1>18, <1>20, <1>21

LEMMA ConnectionErrorBase ==
    ASSUME BaseInv, ConnectionError
    PROVE  BaseInv'
<1>1. PICK f : f = Head(stack)
  OBVIOUS
<1>2. stack # <<>> /\ f.fn = "connectionError" /\ Types /\ Placed(conn, queue, req, pool) /\ PoolOK(pool)
  BY <1>1 DEF ConnectionError, Top, BaseInv
<1>3. PICK c \in Conns, x \in Marks : c = f.c /\ x = f.x
  BY <1>1, <1>2, Running DEF FrameOK, OfConn, AnyFrame
<1>4. PICK dn : dn = Detach(c)
  OBVIOUS
<1>5. req' = DetachReq(c) /\ errno' = errno /\ faults' = faults
  BY <1>1, <1>3 DEF ConnectionError, top
<1>6. PICK sq : sq = DetachReq(c)
  OBVIOUS
<1>7. Detached(conn, dn, req, sq, c)
  BY <1>2, <1>4, <1>6, DetachOK
<1>8. dn \in [Conns -> ConnType] /\ sq \in [Reqs -> ReqType]
  BY <1>7 DEF Detached
<1>9. CASE x = "again"
  <2>1. PICK n \in Int : n = worker.linger - (IF conn[c].toClose THEN 1 ELSE 0)
    BY <1>2 DEF Types, WorkerType
  <2>2. PICK o : o = RemoveConn(pool, c)
    OBVIOUS
  <2>3. PoolOK(o) /\ Busy(o) = Busy(pool) \ {c}
    BY <1>2, <2>2, RemoveConnOK
  <2>4. /\ conn' = dn /\ pool' = o /\ worker' = [worker EXCEPT !.linger = n]
        /\ queue' = (IF conn[c].req = NoReq THEN queue ELSE <<conn[c].req>> \o queue)
        /\ stack' = Tail(stack) /\ ret' = 1
    BY <1>1, <1>3, <1>4, <1>9, <2>1, <2>2 DEF ConnectionError, top, Return
  <2>5. worker' \in WorkerType
    BY <1>2, <2>4 DEF Types, WorkerType
  <2>6. /\ Placed(dn, queue, sq, o)
        /\ conn[c].req # NoReq => Loose(queue, sq, conn[c].req) /\ conn[c].req \in Reqs
    BY <1>2, <1>7, <2>3, DetachPlaced
  <2>7. queue' \in Seq(Reqs) /\ Once(queue') /\ Placed(dn, queue', sq, o)
    <3>1. CASE conn[c].req = NoReq
      BY <1>2, <2>4, <2>6, <3>1 DEF Types
    <3>2. CASE conn[c].req # NoReq
      <4>1. PICK r \in Reqs : r = conn[c].req
        BY <2>6, <3>2
      <4>2. queue \in Seq(Reqs) /\ Once(queue) /\ ~Has(queue, r) /\ Loose(queue, sq, r) /\ queue' = <<r>> \o queue
        BY <1>2, <2>4, <2>6, <3>2, <4>1 DEF Types, Loose
      <4>3. queue' \in Seq(Reqs) /\ Once(queue') /\ \A s : Has(queue', s) <=> Has(queue, s) \/ s = r
        BY <4>2, ConsHas
      <4> QED
        BY <2>6, <4>2, <4>3, PlacedEnqueue
    <3> QED
      BY <3>1, <3>2
  <2>8. Types'
    BY <1>2, <1>5, <1>6, <1>8, <2>4, <2>5, <2>7, MarkFacts DEF Types
  <2> QED
    BY <1>2, <1>5, <1>6, <2>3, <2>4, <2>7, <2>8, Returned
<1>10. CASE x # "again"
  <2>1. /\ PoolOK(pool') /\ Busy(pool) \ {c} \subseteq Busy(pool')
        /\ conn' \in [Conns -> ConnType] /\ SameConns(dn, conn')
        /\ worker' \in WorkerType /\ queue' = queue
        /\ IF conn[c].req = NoReq
           THEN Goto(<<Frame("connectionError2", NoConn, NoReq, 0)>>) /\ ret' = 0
           ELSE /\ Goto(<<Frame("tryRecover", NoConn, conn[c].req, 0),
                          Frame("connectionError2", NoConn, NoReq, 0)>>)
                /\ ret' = ret
    BY <1>1, <1>3, <1>4, <1>10, ConnectionErrorEffect
  <2>2. /\ Placed(dn, queue, sq, pool')
        /\ conn[c].req # NoReq => Loose(queue, sq, conn[c].req) /\ conn[c].req \in Reqs
    BY <1>2, <1>7, <2>1, DetachPlaced
  <2>3. Placed(conn', queue', req', pool')
    <3>1. \A d \in Conns : dn[d].req # NoReq => d \in Busy(pool')
      BY <2>2 DEF Placed
    <3>2. SameReqs(sq, sq)
      BY SameAsBefore
    <3> QED
      BY <1>5, <1>6, <2>1, <2>2, <3>1, <3>2, PlacedKeep
  <2>4. Types'
    BY <1>2, <1>5, <1>6, <1>8, <2>1, MarkFacts DEF Types
  <2>5. PICK b : b = Frame("connectionError2", NoConn, NoReq, 0)
    OBVIOUS
  <2>6. FrameOK(b) /\ b.fn = "connectionError2"
    BY <2>5, PlainFrame
  <2>7. CASE conn[c].req = NoReq
    <3>1. stack' = <<b>> \o Tail(stack)
      BY <2>1, <2>5, <2>7 DEF Goto
    <3>2. Held(b, conn', queue', req', pool')
      BY <2>6, HoldsNothing
    <3> QED
      BY <1>2, <2>1, <2>3, <2>4, <2>6, <3>1, <3>2, Called
  <2>8. CASE conn[c].req # NoReq
    <3>1. PICK r \in Reqs : r = conn[c].req
      BY <2>2, <2>8
    <3>2. PICK a : a = Frame("tryRecover", NoConn, r, 0)
      OBVIOUS
    <3>3. FrameOK(a) /\ a.fn = "tryRecover" /\ a.r = r
      BY <3>2, ReqFrame, MarkFacts DEF OfReq, OfConn
    <3>4. stack' = <<a, b>> \o Tail(stack)
      BY <2>1, <2>5, <2>8, <3>1, <3>2 DEF Goto
    <3>5. Held(a, conn', queue', req', pool')
      BY <1>5, <1>6, <2>1, <2>2, <2>8, <3>1, <3>3 DEF Held
    <3> QED
      BY <1>2, <2>1, <2>3, <2>4, <2>6, <3>3, <3>4, <3>5, Called2 DEF Resumes
  <2> QED
    BY <2>7, <2>8
<1> QED
  BY <1>9, <1>10

LEMMA ConnectionError2Base ==
    ASSUME BaseInv, ConnectionError2
    PROVE  BaseInv'
<1>1. stack # <<>> /\ Types
  BY DEF ConnectionError2, Top, BaseInv
<1>2. UNCHANGED <<conn, req, pool, worker, queue, ret, errno, faults>>
  BY DEF ConnectionError2, lists
<1>3. Types' /\ PoolOK(pool') /\ Placed(conn', queue', req', pool')
  BY <1>2, NothingMoved DEF BaseInv, Types
<1>4. CASE worker.st = "BAD"
  <2>1. PICK a, b : a = Frame("failOutstandingReqs", NoConn, NoReq, 0) /\ b = Frame("return", NoConn, NoReq, ret)
    OBVIOUS
  <2>2. stack' = <<a, b>> \o Tail(stack)
    BY <1>4, <2>1 DEF ConnectionError2, Goto
  <2>3. FrameOK(a) /\ a.fn = "failOutstandingReqs" /\ FrameOK(b) /\ b.fn = "return"
    BY <1>1, <2>1, PlainFrame, ReturnFrame DEF Types
  <2>4. Held(a, conn', queue', req', pool')
    BY <2>3, HoldsNothing
  <2> QED
    BY <1>1, <1>3, <2>2, <2>3, <2>4, Called2 DEF Resumes
<1>5. CASE worker.st # "BAD"
  BY <1>1, <1>3, <1>5, Returned DEF ConnectionError2
<1> QED
  BY <1>4, <1>5

LEMMA ErrOK ==
    ASSUME NEW q \in ReqType, NEW code \in {500, SC_503}, NEW u, u = ErrResponse(q, code)
    PROVE  /\ u \in ReqType /\ u.proc = q.proc /\ u.st = q.st /\ u.complete = q.complete
           /\ u.alive = q.alive /\ u.out = code /\ u.abort = q.abort
<1>1. PICK yes \in BOOLEAN : yes = TRUE
  OBVIOUS
<1>2. PICK a : a = [q EXCEPT !.err = yes]
  OBVIOUS
<1>3. /\ a \in ReqType /\ a.proc = q.proc /\ a.st = q.st /\ a.complete = q.complete /\ a.alive = q.alive
      /\ a.abort = q.abort
  BY <1>2 DEF ReqType
<1>4. u = [a EXCEPT !.out = code]
  BY <1>1, <1>2 DEF ErrResponse
<1>5. u \in ReqType
  BY <1>3, <1>4 DEF ReqType
<1>6. /\ u.proc = a.proc /\ u.st = a.st /\ u.complete = a.complete /\ u.alive = a.alive /\ u.out = code
      /\ u.abort = a.abort
  BY <1>3, <1>4 DEF ReqType
<1> QED
  BY <1>3, <1>5, <1>6

\* a call in the middle of a function that goes on afterwards
LEMMA Nested ==
    ASSUME BaseInv, stack # <<>>, Head(stack).fn \in Resumes, NEW f, FrameOK(f), stack' = <<f>> \o stack,
           Types', PoolOK(pool'), Placed(conn', queue', req', pool'), Held(f, conn', queue', req', pool')
    PROVE  BaseInv'
<1>1. Stacked(stack') /\ stack' # <<>> /\ Head(stack') = f
  BY OnTop DEF BaseInv
<1> QED
  BY <1>1 DEF BaseInv

LEMMA FailOutstandingReqsBase ==
    ASSUME BaseInv, FailOutstandingReqs
    PROVE  BaseInv'
<1>1. PICK f : f = Head(stack)
  OBVIOUS
<1>2. stack # <<>> /\ f.fn = "failOutstandingReqs"
  BY <1>1 DEF FailOutstandingReqs, Top
<1>3. UNCHANGED <<conn, req, pool, worker, ret, errno, faults>>
  BY DEF FailOutstandingReqs
<1>4. CASE queue = <<>>
  <2>1. stack' = Tail(stack) /\ queue' = queue
    BY <1>4 DEF FailOutstandingReqs
  <2>2. Types' /\ PoolOK(pool') /\ Placed(conn', queue', req', pool')
    BY <1>3, <2>1, NothingMoved DEF BaseInv, Types
  <2> QED
    BY <1>2, <2>1, <2>2, Returned
<1>5. CASE queue # <<>>
  <2>1. PICK r : r = Head(queue)
    OBVIOUS
  <2>2. queue' = Tail(queue)
    BY <1>5 DEF FailOutstandingReqs
  <2>3. Types' /\ Placed(conn', queue', req', pool') /\ r \in Reqs /\ PoolOK(pool')
    BY <1>3, <1>5, <2>1, <2>2, TakeHead DEF BaseInv
  <2>4. CASE req[r].alive
    <3>1. PICK a : a = Frame("endResponse", NoConn, r, 0)
      OBVIOUS
    <3>2. stack' = <<a>> \o stack
      BY <1>5, <2>1, <2>4, <3>1 DEF FailOutstandingReqs
    <3>3. FrameOK(a) /\ a.fn = "endResponse"
      BY <2>3, <3>1, ReqFrame, MarkFacts DEF OfReq, OfConn
    <3>4. Held(a, conn', queue', req', pool')
      BY <3>3, HoldsNothing
    <3> QED
      BY <1>1, <1>2, <2>3, <3>2, <3>3, <3>4, Nested DEF Resumes
  <2>5. CASE ~req[r].alive
    <3>1. stack' = stack
      BY <1>5, <2>1, <2>5 DEF FailOutstandingReqs
    <3>2. Held(f, conn', queue', req', pool')
      BY <1>2, HoldsNothing
    <3> QED
      BY <1>1, <2>3, <3>1, <3>2 DEF BaseInv
  <2> QED
    BY <2>4, <2>5
<1> QED
  BY <1>4, <1>5

LEMMA TryRecoverBase ==
    ASSUME BaseInv, TryRecover
    PROVE  BaseInv'
<1>1. PICK f : f = Head(stack)
  OBVIOUS
<1>2. stack # <<>> /\ f.fn = "tryRecover"
  BY <1>1 DEF TryRecover, Top
<1>3. /\ Types /\ PoolOK(pool) /\ Placed(conn, queue, req, pool)
      /\ FrameOK(f) /\ Held(f, conn, queue, req, pool)
  BY <1>1, <1>2, Running
<1>4. PICK r \in Reqs : r = f.r
  BY <1>2, <1>3 DEF FrameOK, OfReq
<1>5. Loose(queue, req, r) /\ req[r] \in ReqType
  BY <1>2, <1>3, <1>4 DEF Held, Types
<1>6. UNCHANGED <<conn, queue, errno, faults>>
  BY DEF TryRecover
<1>7. PICK n \in Nat : n = req[r].attempts + 1
  BY <1>5 DEF ReqType
<1>8. PICK v : v = ResetConnector(req[r])
  OBVIOUS
<1>9. PICK q : q = [v EXCEPT !.attempts = n]
  OBVIOUS
<1>10. v \in ReqType /\ v.proc = req[r].proc /\ v.st = req[r].st /\ ~v.complete
  BY <1>5, <1>8, ResetOK
<1>11. q \in ReqType /\ q.proc = v.proc /\ q.st = v.st /\ q.complete = v.complete
  BY <1>9, <1>10 DEF ReqType
<1>12. q.complete = req[r].complete
  BY <1>5, <1>10, <1>11 DEF ReqType, Loose
<1>13. PICK u : u = ErrResponse(q, SC_503)
  OBVIOUS
<1>14. u \in ReqType /\ u.proc = q.proc /\ u.st = q.st /\ u.complete = q.complete
  BY <1>11, <1>13, ErrOK
<1>15. /\ worker' = worker \/ worker' = StartWorker(worker)
       /\ pool' = pool \/ pool' = StartPool(worker, pool)
       /\ \/ /\ req' = [req EXCEPT ![r] = q]
             /\ Goto(<<Frame("processRequest", NoConn, r, TRUE), Frame("tryRecover2", NoConn, r, 0)>>)
             /\ ret' = ret
          \/ req' = [req EXCEPT ![r] = u] /\ Return(LS_FAIL)
  BY <1>1, <1>4, <1>7, <1>8, <1>9, <1>13 DEF TryRecover, top
<1>16. worker' \in WorkerType
  BY <1>3, <1>15, StartWorkerOK DEF Types
<1>17. PoolOK(pool') /\ Busy(pool') = Busy(pool)
  <2>1. PICK o : o = StartPool(worker, pool)
    OBVIOUS
  <2> QED
    BY <1>3, <1>15, <2>1, StartPoolOK
<1>18. req' \in [Reqs -> ReqType] /\ SameReqs(req, req') /\ ret' \in Rets
  BY <1>3, <1>10, <1>11, <1>12, <1>14, <1>15, OneReq, MarkFacts DEF Types, Return
<1>19. Types'
  BY <1>3, <1>6, <1>16, <1>18 DEF Types
<1>20. Placed(conn', queue', req', pool')
  <2>1. \A d \in Conns : conn[d].req # NoReq => d \in Busy(pool')
    BY <1>3, <1>17 DEF Placed
  <2>2. SameConns(conn, conn')
    BY <1>6, SameAsBefore
  <2> QED
    BY <1>3, <1>6, <1>18, <2>1, <2>2, PlacedKeep
<1>21. CASE Return(LS_FAIL)
  BY <1>2, <1>17, <1>19, <1>20, <1>21, Returned DEF Return
<1>22. CASE Goto(<<Frame("processRequest", NoConn, r, TRUE), Frame("tryRecover2", NoConn, r, 0)>>)
  <2>1. PICK a, b : a = Frame("processRequest", NoConn, r, TRUE) /\ b = Frame("tryRecover2", NoConn, r, 0)
    OBVIOUS
  <2>2. stack' = <<a, b>> \o Tail(stack)
    BY <1>22, <2>1 DEF Goto
  <2>3. PICK yes \in Marks : yes = TRUE
    BY MarkFacts
  <2>4. FrameOK(a) /\ a.fn = "processRequest" /\ a.r = r
    <3>1. "processRequest" \in OfReq \ OfConn
      BY DEF OfReq, OfConn
    <3>2. a = Frame("processRequest", NoConn, r, yes)
      BY <2>1, <2>3
    <3> QED
      BY <3>1, <3>2, ReqFrame
  <2>5. FrameOK(b) /\ b.fn = "tryRecover2"
    BY <2>1, ReqFrame, MarkFacts DEF OfReq, OfConn
  <2>6. Held(a, conn', queue', req', pool')
    BY <1>5, <1>6, <1>18, <2>4 DEF Held, Loose, SameReqs
  <2> QED
    BY <1>2, <1>17, <1>19, <1>20, <2>2, <2>4, <2>5, <2>6, Called2 DEF Resumes
<1> QED
  BY <1>15, <1>21, <1>22

\* a step that changes only what is known of requests
LEMMA ReqsMoved ==
    ASSUME BaseInv, UNCHANGED <<conn, pool, worker, queue>>, req' \in [Reqs -> ReqType], SameReqs(req, req'),
           ret' \in Rets, errno' \in Errnos \cup {"none"}, faults' \in 0 .. MaxFaults
    PROVE  Types' /\ PoolOK(pool') /\ Placed(conn', queue', req', pool')
  BY ConnsMoved, SameAsBefore DEF BaseInv, Types

LEMMA TryRecover2Base ==
    ASSUME BaseInv, TryRecover2
    PROVE  BaseInv'
<1>1. PICK f : f = Head(stack)
  OBVIOUS
<1>2. stack # <<>> /\ f.fn = "tryRecover2" /\ Types
  BY <1>1 DEF TryRecover2, Top, BaseInv
<1>3. PICK r \in Reqs : r = f.r
  BY <1>1, <1>2, Running DEF FrameOK, OfReq
<1>4. UNCHANGED <<conn, pool, worker, queue, errno, faults>>
  BY DEF TryRecover2, lists
<1>5. PICK u : u = ErrResponse(req[r], SC_503)
  OBVIOUS
<1>6. u \in ReqType /\ u.proc = req[r].proc /\ u.st = req[r].st /\ u.complete = req[r].complete
  BY <1>2, <1>5, ErrOK DEF Types
<1>7. /\ stack' = Tail(stack) /\ ret' \in Rets
      /\ req' = req \/ req' = [req EXCEPT ![r] = u]
  BY <1>1, <1>3, <1>5, MarkFacts DEF TryRecover2, Return, top
<1>8. req' \in [Reqs -> ReqType] /\ SameReqs(req, req')
  BY <1>2, <1>6, <1>7, OneReq, SameAsBefore DEF Types
<1>9. Types' /\ PoolOK(pool') /\ Placed(conn', queue', req', pool')
  BY <1>2, <1>4, <1>7, <1>8, ReqsMoved DEF Types
<1> QED
  BY <1>2, <1>7, <1>9, Returned

LEMMA ProcessBase ==
    ASSUME BaseInv, Process
    PROVE  BaseInv'
<1>1. PICK f : f = Head(stack)
  OBVIOUS
<1>2. stack # <<>> /\ f.fn = "process" /\ Types
  BY <1>1 DEF Process, Top, BaseInv
<1>3. PICK r \in Reqs : r = f.r
  BY <1>1, <1>2, Running DEF FrameOK, OfReq
<1>4. UNCHANGED <<conn, pool, worker, queue, ret, errno, faults>> /\ stack' = Tail(stack)
  BY DEF Process, lists
<1>5. req' \in [Reqs -> ReqType] /\ SameReqs(req, req')
  <2>1. CASE ret > 1
    <3>1. ret \in {500, SC_503}
      BY <1>2, <2>1 DEF Types, Rets, LS_FAIL
    <3>2. PICK u : u = [req[r] EXCEPT !.out = ret]
      OBVIOUS
    <3>3. req[r] \in ReqType
      BY <1>2 DEF Types
    <3>4. u \in ReqType /\ u.proc = req[r].proc /\ u.st = req[r].st /\ u.complete = req[r].complete
      BY <3>1, <3>2, <3>3 DEF ReqType
    <3>5. req' = [req EXCEPT ![r] = u]
      BY <1>1, <1>2, <1>3, <2>1, <3>2 DEF Process, top, Types
    <3> QED
      BY <1>2, <3>4, <3>5, OneReq
  <2>2. CASE ~(ret > 1)
    <3>1. req' = req
      BY <2>2 DEF Process
    <3> QED
      BY <1>2, <3>1, SameAsBefore DEF Types
  <2> QED
    BY <2>1, <2>2
<1>6. Types' /\ PoolOK(pool') /\ Placed(conn', queue', req', pool')
  BY <1>2, <1>4, <1>5, ReqsMoved DEF Types
<1> QED
  BY <1>2, <1>4, <1>6, Returned

\* a request whose response has ended
Ended(q, out) == [q EXCEPT !.complete = TRUE, !.proc = NoConn, !.out = out]

LEMMA EndedOK ==
    ASSUME NEW q \in ReqType, NEW out \in {0, 200, 500, SC_503}, NEW u, u = Ended(q, out)
    PROVE  /\ u \in ReqType /\ u.proc = NoConn /\ u.st = q.st /\ u.alive = q.alive /\ u.out = out
           /\ u.err = q.err
<1>1. PICK yes \in BOOLEAN : yes = TRUE
  OBVIOUS
<1>2. PICK v : v = [q EXCEPT !.complete = yes]
  OBVIOUS
<1>3. v \in ReqType /\ v.st = q.st /\ v.alive = q.alive /\ v.err = q.err
  BY <1>2 DEF ReqType
<1>4. PICK w : w = [v EXCEPT !.proc = NoConn]
  OBVIOUS
<1>5. w \in ReqType /\ w.st = v.st /\ w.alive = v.alive /\ w.proc = NoConn /\ w.err = v.err
  BY <1>3, <1>4 DEF ReqType
<1>6. u = [w EXCEPT !.out = out]
  BY <1>1, <1>2, <1>4 DEF Ended
<1>7. u \in ReqType
  BY ONLY <1>5, <1>6, out \in {0, 200, 500, SC_503} DEF ReqType
<1>8. u.st = w.st /\ u.alive = w.alive /\ u.proc = w.proc /\ u.out = out /\ u.err = w.err
  BY <1>5, <1>6 DEF ReqType
<1> QED
  BY <1>3, <1>5, <1>7, <1>8

LEMMA EndResponseBase ==
    ASSUME BaseInv, EndResponse
    PROVE  BaseInv'
<1>1. PICK f : f = Head(stack)
  OBVIOUS
<1>2. /\ stack # <<>> /\ f.fn = "endResponse" /\ Types /\ PoolOK(pool) /\ Placed(conn, queue, req, pool)
  BY <1>1 DEF EndResponse, Top, BaseInv
<1>3. PICK r \in Reqs : r = f.r
  BY <1>1, <1>2, Running DEF FrameOK, OfReq
<1>4. PICK q \in ReqType : q = req[r]
  BY <1>2 DEF Types
<1>5. PICK c \in Conns \cup {NoConn} : c = q.proc
  BY DEF ReqType
<1>6. UNCHANGED <<pool, worker, errno, faults>>
  BY DEF EndResponse
<1>7. CASE q.complete
  <2>1. stack' = Tail(stack) /\ ret' = 0 /\ UNCHANGED <<conn, req, queue>>
    BY <1>1, <1>3, <1>4, <1>7 DEF EndResponse, top, Return
  <2>2. Types' /\ PoolOK(pool') /\ Placed(conn', queue', req', pool')
    BY <1>6, <2>1, NothingMoved, MarkFacts DEF BaseInv, Types
  <2> QED
    BY <1>2, <2>1, <2>2, Returned
<1>8. CASE ~q.complete /\ q.hdr = "none" /\ ~q.abort
  <2>1. PICK v : v = ErrResponse(q, 500)
    OBVIOUS
  <2>2. v \in ReqType /\ v.proc = q.proc /\ v.st = q.st /\ v.complete = q.complete
    BY <2>1, ErrOK
  <2>3. PICK u : u = [v EXCEPT !.hdr = "ok"]
    OBVIOUS
  <2>4. u \in ReqType /\ u.proc = v.proc /\ u.st = v.st /\ u.complete = v.complete
    BY <2>2, <2>3 DEF ReqType
  <2>5. /\ req' = [req EXCEPT ![r] = u] /\ stack' = Tail(stack) /\ ret' = LS_FAIL
        /\ UNCHANGED <<conn, queue>>
    BY <1>1, <1>3, <1>4, <1>8, <2>1, <2>3 DEF EndResponse, top, Return
  <2>6. req' \in [Reqs -> ReqType] /\ SameReqs(req, req')
    BY <1>2, <1>4, <2>2, <2>4, <2>5, OneReq
  <2>7. Types' /\ PoolOK(pool') /\ Placed(conn', queue', req', pool')
    BY <1>2, <1>6, <2>5, <2>6, ReqsMoved, MarkFacts DEF Types
  <2> QED
    BY <1>2, <2>5, <2>7, Returned
<1>9. CASE ~q.complete /\ ~(q.hdr = "none" /\ ~q.abort)
  <2>1. PICK out \in {0, 200, 500, SC_503} : out = IF q.err THEN q.out ELSE 200
    BY DEF ReqType
  <2>2. PICK u : u = Ended(q, out)
    OBVIOUS
  <2>6. u \in ReqType /\ u.proc = NoConn
    BY <2>2, EndedOK
  <2>7. /\ req' = [req EXCEPT ![r] = [q EXCEPT !.complete = TRUE, !.proc = NoConn, !.out = out]]
        /\ ret' = 0
        /\ IF c # NoConn
           THEN /\ conn' = [conn EXCEPT ![c] = CleanedUp(@)]
                /\ Goto(<<Frame("recycleConn", c, NoReq, 0)>>)
                /\ UNCHANGED queue
           ELSE /\ queue' = Unlink(queue, r)
                /\ stack' = Tail(stack) /\ UNCHANGED conn
    BY <1>1, <1>3, <1>4, <1>5, <1>9, <2>1 DEF EndResponse, top
  <2>8. req' = [req EXCEPT ![r] = u]
    BY <2>2, <2>7 DEF Ended
  <2>9. req' \in [Reqs -> ReqType] /\ req'[r].proc = NoConn /\ \A s \in Reqs : s # r => req'[s] = req[s]
    BY <1>2, <2>6, <2>8 DEF Types
  <2>10. CASE c # NoConn
    <3>1. c \in Conns /\ conn[c] \in ConnType
      BY <1>2, <1>5, <2>10 DEF Types
    <3>2. PICK e : e = CleanedUp(conn[c])
      OBVIOUS
    <3>3. e \in ConnType /\ e.req = NoReq
      BY <3>1, <3>2, CleanedUpOK
    <3>4. conn' = [conn EXCEPT ![c] = e] /\ queue' = queue
      BY <2>7, <2>10, <3>2
    <3>5. conn' \in [Conns -> ConnType] /\ \A d \in Conns : conn'[d].req = IF d = c THEN NoReq ELSE conn[d].req
      BY <1>2, <3>1, <3>3, <3>4 DEF Types
    <3>6. ~Has(queue', r)
      BY <1>2, <1>4, <1>5, <2>10, <3>4 DEF Placed
    <3>7. Placed(conn', queue', req', pool') /\ Idle(conn', pool', c)
      <4>1. \A s \in Reqs : s # r => /\ req'[s].proc = req[s].proc /\ req'[s].st = req[s].st
                                     /\ req'[s].complete = req[s].complete
                                     /\ Has(queue', s) <=> Has(queue, s)
        BY <2>9, <3>4
      <4>2. req[r].proc = c /\ req[r].proc \in Conns \cup {NoConn}
        BY <1>4, <1>5
      <4>3. \A d \in Conns : conn'[d].req = IF d = req[r].proc THEN NoReq ELSE conn[d].req
        BY <3>5, <4>2
      <4>4. req'[r].proc = NoConn /\ Placed(conn, queue, req, pool)
        BY <1>2, <2>9
      <4>5. Finished(conn, conn', queue, queue', req, req', r)
        BY <3>6, <4>1, <4>2, <4>3, <4>4 DEF Finished
      <4>6. Placed(conn', queue', req', pool) /\ (req[r].proc # NoConn => Idle(conn', pool, req[r].proc))
        BY <4>4, <4>5, PlacedFinish
      <4> QED
        BY <1>6, <2>10, <4>2, <4>6
    <3>8. Types' /\ PoolOK(pool')
      BY <1>2, <1>6, <2>7, <2>9, <3>4, <3>5, MarkFacts DEF Types
    <3>9. PICK a : a = Frame("recycleConn", c, NoReq, 0)
      OBVIOUS
    <3>10. FrameOK(a) /\ a.fn = "recycleConn" /\ a.c = c
      BY <3>1, <3>9, ConnFrame, MarkFacts DEF OfConn, OfReq
    <3>11. Held(a, conn', queue', req', pool')
      BY <3>7, <3>10 DEF Held
    <3>12. stack' = <<a>> \o Tail(stack)
      BY <2>7, <2>10, <3>9 DEF Goto
    <3> QED
      BY <1>2, <3>7, <3>8, <3>10, <3>11, <3>12, Called
  <2>11. CASE c = NoConn
    <3>1. queue' = Unlink(queue, r) /\ stack' = Tail(stack) /\ conn' = conn
      BY <2>7, <2>11
    <3>2. queue' \in Seq(Reqs) /\ Once(queue') /\ \A s : Has(queue', s) <=> Has(queue, s) /\ s # r
      BY <1>2, <3>1, UnlinkHas DEF Types
    <3>3. Placed(conn', queue', req', pool')
      <4>1. \A s \in Reqs : s # r => /\ req'[s].proc = req[s].proc /\ req'[s].st = req[s].st
                                     /\ req'[s].complete = req[s].complete
                                     /\ Has(queue', s) <=> Has(queue, s)
        BY <2>9, <3>2
      <4>2. req[r].proc = NoConn
        BY <1>4, <1>5, <2>11
      <4>3. \A d \in Conns : conn'[d].req = IF d = req[r].proc THEN NoReq ELSE conn[d].req
        BY <3>1, <4>2, ConnAssumption
      <4>4. Finished(conn, conn', queue, queue', req, req', r)
        BY <2>9, <3>2, <4>1, <4>2, <4>3 DEF Finished
      <4> QED
        BY <1>2, <1>6, <4>4, PlacedFinish
    <3>4. Types' /\ PoolOK(pool')
      BY <1>2, <1>6, <2>7, <2>9, <3>1, <3>2, MarkFacts DEF Types
    <3> QED
      BY <1>2, <3>1, <3>3, <3>4, Returned
  <2> QED
    BY <2>10, <2>11
<1> QED
  BY <1>7, <1>8, <1>9

\* A connection that carries nothing leaves the pool.
LEMMA Discard ==
    ASSUME BaseInv, NEW c \in Conns, conn[c].req = NoReq, NEW e \in ConnType, e.req = NoReq,
           conn' = [conn EXCEPT ![c] = e], pool' = RemoveConn(pool, c),
           UNCHANGED <<req, worker, queue, ret, errno, faults>>
    PROVE  Types' /\ PoolOK(pool') /\ Placed(conn', queue', req', pool')
<1>1. Types /\ PoolOK(pool) /\ Placed(conn, queue, req, pool)
  BY DEF BaseInv
<1>2. conn' \in [Conns -> ConnType] /\ SameConns(conn, conn')
  BY <1>1, OneConn
<1>3. PoolOK(pool') /\ Busy(pool') = Busy(pool) \ {c}
  BY <1>1, RemoveConnOK
<1>4. \A d \in Conns : conn[d].req # NoReq => d \in Busy(pool')
  BY <1>1, <1>3 DEF Placed
<1>5. Placed(conn', queue', req', pool')
  BY <1>1, <1>2, <1>4, SameAsBefore, PlacedKeep
<1> QED
  BY <1>1, <1>2, <1>3, <1>5 DEF Types

LEMMA OnEventDoneBase ==
    ASSUME BaseInv, OnEventDone
    PROVE  BaseInv'
<1>1. PICK f : f = Head(stack)
  OBVIOUS
<1>2. stack # <<>> /\ f.fn = "onEventDone" /\ Types /\ Placed(conn, queue, req, pool)
  BY <1>1 DEF OnEventDone, Top, BaseInv
<1>3. PICK c \in Conns : c = f.c
  BY <1>1, <1>2, Running DEF FrameOK, OfConn
<1>4. UNCHANGED <<req, worker, queue, ret, errno, faults>>
  BY DEF OnEventDone
<1>5. PICK e : e = Closed(conn[c])
  OBVIOUS
<1>6. e \in ConnType /\ e.req = conn[c].req
  BY <1>2, <1>5, ClosedOK DEF Types
<1>7. \/ stack' = Tail(stack) /\ UNCHANGED <<conn, pool>>
      \/ /\ conn' = [conn EXCEPT ![c] = e] /\ conn[c].req = NoReq
         /\ pool' = RemoveConn(pool, c) /\ stack' = Tail(stack)
      \/ /\ conn' = [conn EXCEPT ![c] = e] /\ conn[c].req # NoReq
         /\ Goto(<<Frame("endResponse", NoConn, conn[c].req, 0)>>) /\ UNCHANGED pool
  BY <1>1, <1>3, <1>5 DEF OnEventDone, top
<1>8. CASE stack' = Tail(stack) /\ UNCHANGED <<conn, pool>>
  <2>1. Types' /\ PoolOK(pool') /\ Placed(conn', queue', req', pool')
    BY <1>2, <1>4, <1>8, NothingMoved DEF Types
  <2> QED
    BY <1>2, <1>8, <2>1, Returned
<1>9. CASE /\ conn' = [conn EXCEPT ![c] = e] /\ conn[c].req = NoReq
           /\ pool' = RemoveConn(pool, c) /\ stack' = Tail(stack)
  <2>1. Types' /\ PoolOK(pool') /\ Placed(conn', queue', req', pool')
    BY <1>4, <1>6, <1>9, Discard
  <2> QED
    BY <1>2, <1>9, <2>1, Returned
<1>10. CASE /\ conn' = [conn EXCEPT ![c] = e] /\ conn[c].req # NoReq
            /\ Goto(<<Frame("endResponse", NoConn, conn[c].req, 0)>>) /\ UNCHANGED pool
  <2>1. PICK r \in Reqs : r = conn[c].req
    BY <1>2, <1>10, Carried
  <2>2. conn' \in [Conns -> ConnType] /\ SameConns(conn, conn')
    BY <1>2, <1>6, <1>10, OneConn
  <2>3. req' \in [Reqs -> ReqType] /\ SameReqs(req, req')
    BY <1>2, <1>4, SameAsBefore DEF Types
  <2>4. Types' /\ PoolOK(pool') /\ Placed(conn', queue', req', pool')
    BY <1>2, <1>4, <1>10, <2>2, <2>3, ConnsMoved DEF Types
  <2>5. PICK a : a = Frame("endResponse", NoConn, r, 0)
    OBVIOUS
  <2>6. FrameOK(a) /\ a.fn = "endResponse"
    BY <2>5, ReqFrame, MarkFacts DEF OfReq, OfConn
  <2>7. Held(a, conn', queue', req', pool')
    BY <2>6, HoldsNothing
  <2>8. stack' = <<a>> \o Tail(stack)
    BY <1>10, <2>1, <2>5 DEF Goto
  <2> QED
    BY <1>2, <2>4, <2>6, <2>7, <2>8, Called
<1> QED
  BY <1>7, <1>8, <1>9, <1>10

\* The free connections are closed and the others told to close.
LEMMA Cleared ==
    ASSUME BaseInv, conn' = ClearConns(conn, pool), pool' = DropFree(pool), worker' \in WorkerType,
           UNCHANGED <<queue, req, ret, errno, faults>>
    PROVE  Types' /\ PoolOK(pool') /\ Placed(conn', queue', req', pool')
<1>1. Types /\ PoolOK(pool) /\ Placed(conn, queue, req, pool)
  BY DEF BaseInv
<1>2. AllKept(conn, conn')
  BY <1>1, ClearConnsOK DEF Types
<1>3. conn' \in [Conns -> ConnType] /\ SameConns(conn, conn')
  BY <1>2, KeptConns
<1>4. PoolOK(pool') /\ Busy(pool') = Busy(pool)
  BY <1>1, DropFreeOK
<1>5. \A d \in Conns : conn[d].req # NoReq => d \in Busy(pool')
  BY <1>1, <1>4 DEF Placed
<1>6. Placed(conn', queue', req', pool')
  BY <1>1, <1>3, <1>5, SameAsBefore, PlacedKeep
<1> QED
  BY <1>1, <1>3, <1>4, <1>6 DEF Types

LEMMA ResetStats2Base ==
    ASSUME BaseInv, ResetStats2
    PROVE  BaseInv'
<1>1. stack # <<>> /\ stack' = Tail(stack) /\ UNCHANGED <<queue, req, ret, errno, faults>> /\ Types
  BY DEF ResetStats2, Top, BaseInv
<1>2. CASE UNCHANGED <<conn, pool, worker>>
  <2>1. Types' /\ PoolOK(pool') /\ Placed(conn', queue', req', pool')
    BY <1>1, <1>2, NothingMoved DEF Types
  <2> QED
    BY <1>1, <2>1, Returned
<1>3. CASE /\ worker' = [worker EXCEPT !.st = "NOTSTARTED"]
           /\ conn' = ClearConns(conn, pool) /\ pool' = DropFree(pool)
  <2>1. worker' \in WorkerType
    BY <1>1, <1>3 DEF Types, WorkerType
  <2>2. Types' /\ PoolOK(pool') /\ Placed(conn', queue', req', pool')
    BY <1>1, <1>3, <2>1, Cleared
  <2> QED
    BY <1>1, <2>2, Returned
<1> QED
  BY <1>2, <1>3 DEF ResetStats2

-----------------------------------------------------------------------------
(* Events. *)

LEMMA NoCall ==
    ASSUME stack' = <<>>, Types', PoolOK(pool'), Placed(conn', queue', req', pool')
    PROVE  BaseInv'
  BY EmptyStack DEF BaseInv

LEMMA Event1 ==
    ASSUME NEW f, FrameOK(f), stack' = <<f>>, Types', PoolOK(pool'),
           Placed(conn', queue', req', pool'), Held(f, conn', queue', req', pool')
    PROVE  BaseInv'
<1>1. f \in AnyFrame
  BY DEF FrameOK
<1>2. PICK s : s = <<f>>
  OBVIOUS
<1>3. s \in Seq(AnyFrame) /\ Len(s) = 1 /\ s[1] = f /\ s # <<>> /\ Head(s) = f
  BY <1>1, <1>2
<1>4. Stacked(s)
  BY <1>3 DEF Stacked
<1> QED
  BY <1>2, <1>3, <1>4 DEF BaseInv

LEMMA Event2 ==
    ASSUME NEW f, FrameOK(f), NEW g, FrameOK(g), g.fn \in Resumes, stack' = <<f, g>>, Types', PoolOK(pool'),
           Placed(conn', queue', req', pool'), Held(f, conn', queue', req', pool')
    PROVE  BaseInv'
<1>1. f \in AnyFrame /\ g \in AnyFrame
  BY DEF FrameOK
<1>2. PICK s : s = <<f, g>>
  OBVIOUS
<1>3. s \in Seq(AnyFrame) /\ Len(s) = 2 /\ s[1] = f /\ s[2] = g /\ s # <<>> /\ Head(s) = f
  BY <1>1, <1>2
<1>4. /\ \A i \in 1 .. Len(s) : i = 1 \/ i = 2
      /\ \A i \in 2 .. Len(s) : i = 2
  BY <1>3
<1>5. Stacked(s)
  BY <1>3, <1>4 DEF Stacked
<1> QED
  BY <1>2, <1>3, <1>5 DEF BaseInv

LEMMA Event3 ==
    ASSUME NEW f, FrameOK(f), NEW g, FrameOK(g), g.fn \in Resumes, NEW h, FrameOK(h), h.fn \in Resumes,
           stack' = <<f, g, h>>, Types', PoolOK(pool'), Placed(conn', queue', req', pool'),
           Held(f, conn', queue', req', pool')
    PROVE  BaseInv'
<1>1. f \in AnyFrame /\ g \in AnyFrame /\ h \in AnyFrame
  BY DEF FrameOK
<1>2. PICK s : s = <<f, g, h>>
  OBVIOUS
<1>3. s \in Seq(AnyFrame) /\ Len(s) = 3 /\ s[1] = f /\ s[2] = g /\ s[3] = h /\ s # <<>> /\ Head(s) = f
  BY <1>1, <1>2
<1>4. /\ \A i \in 1 .. Len(s) : i = 1 \/ i = 2 \/ i = 3
      /\ \A i \in 2 .. Len(s) : i = 2 \/ i = 3
  BY <1>3
<1>5. Stacked(s)
  BY <1>3, <1>4 DEF Stacked
<1> QED
  BY <1>2, <1>3, <1>5 DEF BaseInv

LEMMA Concats ==
    ASSUME NEW a, NEW b, NEW g
    PROVE  <<a>> \o <<b>> = <<a, b>> /\ <<a, g>> \o <<b>> = <<a, g, b>>
<1>0. PICK S : S = {a, b, g}
  OBVIOUS
<1>1. PICK u, v : u = <<a>> \o <<b>> /\ v = <<a, g>> \o <<b>>
  OBVIOUS
<1>2. u \in Seq(S) /\ Len(u) = 2 /\ u[1] = a /\ u[2] = b
  BY <1>0, <1>1
<1>3. v \in Seq(S) /\ Len(v) = 3 /\ v[1] = a /\ v[2] = g /\ v[3] = b
  BY <1>0, <1>1
<1>4. u = <<a, b>>
  BY <1>2
<1>5. v = <<a, g, b>>
  BY <1>3
<1> QED
  BY <1>1, <1>4, <1>5

\* a handler of a connection that starts with a call on it
LEMMA HandlerConn ==
    ASSUME NEW c \in Conns, NEW fn \in {"doWrite", "connError"}, NEW x \in Marks,
           Handler(c, <<Frame(fn, c, NoReq, x)>>),
           Types', PoolOK(pool'), Placed(conn', queue', req', pool')
    PROVE  BaseInv'
<1>1. PICK a, b : a = Frame(fn, c, NoReq, x) /\ b = Frame("onEventDone", c, NoReq, 0)
  OBVIOUS
<1>2. stack' = <<a>> \o <<b>>
  BY <1>1 DEF Handler, Call
<1>3. stack' = <<a, b>>
  BY <1>2, Concats
<1>4. FrameOK(a) /\ a.fn = fn
  BY <1>1, ConnFrame DEF OfConn, OfReq
<1>5. FrameOK(b) /\ b.fn = "onEventDone"
  BY <1>1, ConnFrame, MarkFacts DEF OfConn, OfReq
<1>6. Held(a, conn', queue', req', pool')
  BY <1>4, HoldsNothing
<1> QED
  BY <1>3, <1>4, <1>5, <1>6, Event2 DEF Resumes

\* a handler that ends the response first
LEMMA HandlerEnd ==
    ASSUME NEW c \in Conns, NEW r \in Reqs, NEW g, FrameOK(g), g.fn \in {"return", "connError"},
           Handler(c, <<Frame("endResponse", NoConn, r, 0), g>>),
           Types', PoolOK(pool'), Placed(conn', queue', req', pool')
    PROVE  BaseInv'
<1>1. PICK a, b : a = Frame("endResponse", NoConn, r, 0) /\ b = Frame("onEventDone", c, NoReq, 0)
  OBVIOUS
<1>2. stack' = <<a, g>> \o <<b>>
  BY <1>1 DEF Handler, Call
<1>3. stack' = <<a, g, b>>
  BY <1>2, Concats
<1>4. FrameOK(a) /\ a.fn = "endResponse"
  BY <1>1, ReqFrame, MarkFacts DEF OfConn, OfReq
<1>5. FrameOK(b) /\ b.fn = "onEventDone"
  BY <1>1, ConnFrame, MarkFacts DEF OfConn, OfReq
<1>6. Held(a, conn', queue', req', pool')
  BY <1>4, HoldsNothing
<1> QED
  BY <1>3, <1>4, <1>5, <1>6, Event3 DEF Resumes

LEMMA FreshOK ==
    ASSUME NEW u, u = [FreshReq EXCEPT !.st = "active"]
    PROVE  u \in ReqType /\ u.proc = NoConn /\ u.st = "active" /\ ~u.complete /\ ~u.err /\ u.out = 0
<1>1. PICK no \in BOOLEAN, yes \in BOOLEAN : no = FALSE /\ yes = TRUE
  OBVIOUS
<1>2. u = [st |-> "active", proc |-> NoConn, attempts |-> 0, hec |-> "begin", hdr |-> "none",
           err |-> no, abort |-> no, complete |-> no, alive |-> yes, out |-> 0]
  BY <1>1 DEF FreshReq
<1>3. u \in ReqType
  BY ONLY <1>2, no \in BOOLEAN, yes \in BOOLEAN DEF ReqType
<1>4. u.proc = NoConn /\ u.st = "active" /\ u.complete = no /\ u.err = no /\ u.out = 0
  BY <1>2
<1> QED
  BY <1>1, <1>3, <1>4

LEMMA NewRequestBase ==
    ASSUME BaseInv, NEW r \in Reqs, NewRequest(r)
    PROVE  BaseInv'
<1>1. Types /\ PoolOK(pool) /\ Placed(conn, queue, req, pool)
  BY DEF BaseInv
<1>2. PICK u : u = [FreshReq EXCEPT !.st = "active"]
  OBVIOUS
<1>3. u \in ReqType /\ u.proc = NoConn /\ u.st = "active" /\ ~u.complete
  BY <1>2, FreshOK
<1>4. /\ req[r].st = "idle" /\ req' = [req EXCEPT ![r] = u]
      /\ stack' = <<Frame("processRequest", NoConn, r, FALSE), Frame("process", NoConn, r, 0)>>
      /\ UNCHANGED <<conn, pool, worker, queue, ret, errno, faults>>
  BY <1>2 DEF NewRequest, Call, lists
<1>5. ~Has(queue, r) /\ req[r].proc = NoConn
  BY <1>1, <1>4 DEF Placed
<1>6. req' \in [Reqs -> ReqType] /\ req'[r] = u /\ \A s \in Reqs : s # r => req'[s] = req[s]
  BY <1>1, <1>3, <1>4 DEF Types
<1>7. Placed(conn', queue', req', pool') /\ Loose(queue', req', r)
  <2>1. \A s \in Reqs : req'[s].proc = req[s].proc
    BY <1>3, <1>5, <1>6
  <2>2. Placed(conn, queue, req', pool)
    BY <1>1, <1>3, <1>5, <1>6, <2>1 DEF Placed
  <2> QED
    BY <1>3, <1>4, <1>5, <1>6, <2>2 DEF Loose
<1>8. Types' /\ PoolOK(pool')
  BY <1>1, <1>4, <1>6 DEF Types
<1>9. PICK no \in Marks : no = FALSE
  BY MarkFacts
<1>10. PICK a, b : a = Frame("processRequest", NoConn, r, no) /\ b = Frame("process", NoConn, r, 0)
  OBVIOUS
<1>11. stack' = <<a, b>>
  BY <1>4, <1>9, <1>10
<1>12. "processRequest" \in OfReq \ OfConn /\ "process" \in OfReq \ OfConn /\ 0 \in Marks
  BY MarkFacts DEF OfReq, OfConn
<1>13. FrameOK(a) /\ a.fn = "processRequest" /\ a.r = r
  BY <1>10, <1>12, ReqFrame
<1>14. FrameOK(b) /\ b.fn = "process"
  BY <1>10, <1>12, ReqFrame
<1>15. Held(a, conn', queue', req', pool')
  BY <1>7, <1>13 DEF Held
<1> QED
  BY <1>7, <1>8, <1>11, <1>13, <1>14, <1>15, Event2 DEF Resumes

LEMMA ClientGoneBase ==
    ASSUME BaseInv, NEW r \in Reqs, ClientGone(r)
    PROVE  BaseInv'
<1>1. Types
  BY DEF BaseInv
<1>2. PICK no \in BOOLEAN : no = FALSE
  OBVIOUS
<1>3. PICK u : u = [req[r] EXCEPT !.alive = no]
  OBVIOUS
<1>4. req[r] \in ReqType
  BY <1>1 DEF Types
<1>5. u \in ReqType /\ u.proc = req[r].proc /\ u.st = req[r].st /\ u.complete = req[r].complete
  BY <1>3, <1>4 DEF ReqType
<1>6. /\ req' = [req EXCEPT ![r] = u] /\ stack' = <<>> /\ Fault
      /\ UNCHANGED <<conn, pool, worker, queue, ret, errno>>
  BY <1>1, <1>2, <1>3 DEF ClientGone, lists, Types
<1>7. req' \in [Reqs -> ReqType] /\ SameReqs(req, req')
  BY <1>1, <1>5, <1>6, OneReq
<1>8. Types' /\ PoolOK(pool') /\ Placed(conn', queue', req', pool')
  BY <1>1, <1>6, <1>7, ReqsMoved, FaultOK DEF Types
<1> QED
  BY <1>6, <1>8, NoCall

\* a request that is over
Over(q) == [ResetConnector(q) EXCEPT !.st = "over", !.proc = NoConn]

LEMMA OverOK ==
    ASSUME NEW q \in ReqType, NEW u, u = Over(q)
    PROVE  u \in ReqType /\ u.proc = NoConn /\ u.st = "over" /\ ~u.err /\ ~u.complete
<1>1. PICK v : v = ResetConnector(q)
  OBVIOUS
<1>2. v \in ReqType /\ ~v.err /\ ~v.complete
  BY <1>1, ResetOK
<1>3. PICK w : w = [v EXCEPT !.st = "over"]
  OBVIOUS
<1>4. w \in ReqType /\ w.st = "over" /\ w.err = v.err /\ w.complete = v.complete
  BY <1>2, <1>3 DEF ReqType
<1>5. u = [w EXCEPT !.proc = NoConn]
  BY <1>1, <1>3 DEF Over
<1>6. u \in ReqType /\ u.proc = NoConn /\ u.st = w.st /\ u.err = w.err /\ u.complete = w.complete
  BY <1>4, <1>5 DEF ReqType
<1> QED
  BY <1>2, <1>4, <1>6

LEMMA CleanUpBase ==
    ASSUME BaseInv, NEW r \in Reqs, CleanUp(r)
    PROVE  BaseInv'
<1>1. Types /\ PoolOK(pool) /\ Placed(conn, queue, req, pool)
  BY DEF BaseInv
<1>2. PICK q \in ReqType : q = req[r]
  BY <1>1 DEF Types
<1>3. PICK c \in Conns \cup {NoConn} : c = q.proc
  BY DEF ReqType
<1>4. PICK u : u = Over(q)
  OBVIOUS
<1>5. u \in ReqType /\ u.proc = NoConn
  BY <1>4, OverOK
<1>6. /\ req' = [req EXCEPT ![r] = u] /\ UNCHANGED <<pool, worker, ret, errno, faults>>
      /\ \/ q.complete /\ stack' = <<>> /\ conn' = conn /\ queue' = queue
         \/ /\ c # NoConn /\ conn' = [conn EXCEPT ![c] = CleanedUp([@ EXCEPT !.st = "ABORT"])]
            /\ stack' = <<Frame("recycleConn", c, NoReq, 0)>> /\ queue' = queue
         \/ c = NoConn /\ queue' = Unlink(queue, r) /\ stack' = <<>> /\ conn' = conn
  BY <1>2, <1>3, <1>4 DEF CleanUp, Call, Over
<1>7. req' \in [Reqs -> ReqType] /\ req'[r].proc = NoConn /\ \A s \in Reqs : s # r => req'[s] = req[s]
  BY <1>1, <1>5, <1>6 DEF Types
<1>8. req[r].proc \in Conns \cup {NoConn} /\ NoConn \notin Conns
  BY <1>2, ConnAssumption DEF ReqType
<1>9. CASE q.complete /\ stack' = <<>> /\ conn' = conn /\ queue' = queue
  <2>1. req[r].proc = NoConn /\ ~Has(queue, r)
    BY <1>1, <1>2, <1>9 DEF Placed
  <2>2. Finished(conn, conn', queue, queue', req, req', r)
    BY <1>7, <1>8, <1>9, <2>1 DEF Finished
  <2>3. Placed(conn', queue', req', pool')
    BY <1>1, <1>6, <2>2, PlacedFinish
  <2>4. Types' /\ PoolOK(pool')
    BY <1>1, <1>6, <1>7, <1>9 DEF Types
  <2> QED
    BY <1>9, <2>3, <2>4, NoCall
<1>10. CASE c = NoConn /\ queue' = Unlink(queue, r) /\ stack' = <<>> /\ conn' = conn
  <2>1. queue' \in Seq(Reqs) /\ Once(queue') /\ \A s : Has(queue', s) <=> Has(queue, s) /\ s # r
    BY <1>1, <1>10, UnlinkHas DEF Types
  <2>2. Finished(conn, conn', queue, queue', req, req', r)
    BY <1>2, <1>3, <1>7, <1>8, <1>10, <2>1 DEF Finished
  <2>3. Placed(conn', queue', req', pool')
    BY <1>1, <1>6, <2>2, PlacedFinish
  <2>4. Types' /\ PoolOK(pool')
    BY <1>1, <1>6, <1>7, <1>10, <2>1 DEF Types
  <2> QED
    BY <1>10, <2>3, <2>4, NoCall
<1>11. CASE /\ c # NoConn /\ conn' = [conn EXCEPT ![c] = CleanedUp([@ EXCEPT !.st = "ABORT"])]
            /\ stack' = <<Frame("recycleConn", c, NoReq, 0)>> /\ queue' = queue
  <2>1. c \in Conns /\ conn[c] \in ConnType
    BY <1>1, <1>11 DEF Types
  <2>2. PICK k : k = [conn[c] EXCEPT !.st = "ABORT"]
    OBVIOUS
  <2>3. k \in ConnType
    BY <2>1, <2>2 DEF ConnType, ConnStates
  <2>4. PICK e : e = CleanedUp(k)
    OBVIOUS
  <2>5. e \in ConnType /\ e.req = NoReq
    BY <2>3, <2>4, CleanedUpOK
  <2>6. conn' = [conn EXCEPT ![c] = e]
    BY <1>11, <2>2, <2>4
  <2>7. conn' \in [Conns -> ConnType] /\ \A d \in Conns : conn'[d].req = IF d = req[r].proc THEN NoReq ELSE conn[d].req
    BY <1>1, <1>2, <1>3, <2>1, <2>5, <2>6 DEF Types
  <2>8. ~Has(queue', r)
    BY <1>1, <1>2, <1>3, <1>11 DEF Placed
  <2>9. Finished(conn, conn', queue, queue', req, req', r)
    BY <1>7, <1>8, <1>11, <2>7, <2>8 DEF Finished
  <2>10. Placed(conn', queue', req', pool) /\ (req[r].proc # NoConn => Idle(conn', pool, req[r].proc))
    BY <1>1, <2>9, PlacedFinish
  <2>11. Placed(conn', queue', req', pool') /\ Idle(conn', pool', c)
    BY <1>2, <1>3, <1>6, <1>11, <2>10
  <2>12. Types' /\ PoolOK(pool')
    BY <1>1, <1>6, <1>7, <1>11, <2>7 DEF Types
  <2>13. PICK a : a = Frame("recycleConn", c, NoReq, 0)
    OBVIOUS
  <2>14. FrameOK(a) /\ a.fn = "recycleConn" /\ a.c = c
    BY <2>1, <2>13, ConnFrame, MarkFacts DEF OfConn, OfReq
  <2>15. Held(a, conn', queue', req', pool')
    BY <2>11, <2>14 DEF Held
  <2> QED
    BY <1>11, <2>11, <2>12, <2>13, <2>14, <2>15, Event1
<1> QED
  BY <1>6, <1>9, <1>10, <1>11

\* an event of a connection changes it, and what is known of requests; nothing moves
LEMMA ConnEventMoves ==
    ASSUME BaseInv, NEW c \in Conns, NEW e \in ConnType, e.req = conn[c].req, conn' = [conn EXCEPT ![c] = e],
           req' \in [Reqs -> ReqType], SameReqs(req, req'),
           UNCHANGED <<pool, worker, queue, ret, errno>>, faults' \in 0 .. MaxFaults
    PROVE  Types' /\ PoolOK(pool') /\ Placed(conn', queue', req', pool')
<1>1. Types
  BY DEF BaseInv
<1>2. conn' \in [Conns -> ConnType] /\ SameConns(conn, conn')
  BY <1>1, OneConn
<1> QED
  BY <1>1, <1>2, ConnsMoved DEF Types

LEMMA OnWriteBase ==
    ASSUME BaseInv, NEW c \in Conns, OnWrite(c)
    PROVE  BaseInv'
<1>1. Types
  BY DEF BaseInv
<1>2. conn[c] \in ConnType
  BY <1>1 DEF Types
<1>3. PICK e : e = [conn[c] EXCEPT !.st = "PROCESSING"]
  OBVIOUS
<1>4. e \in ConnType /\ e.req = conn[c].req
  BY <1>2, <1>3 DEF ConnType, ConnStates
<1>5. /\ conn' = [conn EXCEPT ![c] = e] /\ Handler(c, <<Frame("doWrite", c, NoReq, 0)>>)
      /\ UNCHANGED <<req, pool, worker, queue, ret, errno, faults>>
  BY <1>1, <1>3 DEF OnWrite, lists, Types
<1>6. Types' /\ PoolOK(pool') /\ Placed(conn', queue', req', pool')
  BY <1>1, <1>4, <1>5, ConnEventMoves, SameAsBefore DEF Types
<1> QED
  BY <1>5, <1>6, HandlerConn, MarkFacts

LEMMA OnConnectFailBase ==
    ASSUME BaseInv, NEW c \in Conns, OnConnectFail(c)
    PROVE  BaseInv'
<1>1. PICK x \in AsyncErrnos : Handler(c, <<Frame("connError", c, NoReq, x)>>)
  BY DEF OnConnectFail
<1>2. UNCHANGED <<conn, req, pool, worker, queue, ret, errno>> /\ Fault
  BY DEF OnConnectFail, lists
<1>3. Types' /\ PoolOK(pool') /\ Placed(conn', queue', req', pool')
  BY <1>2, NothingMoved, FaultOK DEF BaseInv, Types
<1> QED
  BY <1>1, <1>3, HandlerConn, MarkFacts

LEMMA OnReadFailBase ==
    ASSUME BaseInv, NEW c \in Conns, OnReadFail(c)
    PROVE  BaseInv'
<1>1. PICK x \in IoErrnos : Handler(c, <<Frame("connError", c, NoReq, x)>>)
  BY DEF OnReadFail
<1>2. UNCHANGED <<conn, req, pool, worker, queue, ret, errno>> /\ Fault
  BY DEF OnReadFail, lists
<1>3. Types' /\ PoolOK(pool') /\ Placed(conn', queue', req', pool')
  BY <1>2, NothingMoved, FaultOK DEF BaseInv, Types
<1> QED
  BY <1>1, <1>3, HandlerConn, MarkFacts

\* the request of a connection that answers
LEMMA AnswerOf ==
    ASSUME BaseInv, NEW c \in Conns, Answering(c)
    PROVE  conn[c].req \in Reqs /\ conn[c] \in ConnType /\ req[conn[c].req] \in ReqType
  BY Carried DEF BaseInv, Answering, Serving, Types

LEMMA OnRespHeaderBase ==
    ASSUME BaseInv, NEW c \in Conns, NEW close \in BOOLEAN, OnRespHeader(c, close)
    PROVE  BaseInv'
<1>1. Types /\ PoolOK(pool) /\ Placed(conn, queue, req, pool)
  BY DEF BaseInv
<1>2. PICK r \in Reqs : r = conn[c].req
  BY AnswerOf DEF OnRespHeader
<1>3. conn[c] \in ConnType /\ req[r] \in ReqType
  BY <1>1 DEF Types
<1>4. PICK h \in {"ok", "close"} : h = IF close THEN "close" ELSE "ok"
  OBVIOUS
<1>5. PICK u : u = [req[r] EXCEPT !.hdr = h]
  OBVIOUS
<1>6. u \in ReqType /\ u.proc = req[r].proc /\ u.st = req[r].st /\ u.complete = req[r].complete
  BY <1>3, <1>5 DEF ReqType
<1>7. PICK yes \in BOOLEAN : yes = TRUE
  OBVIOUS
<1>8. PICK e : e = [conn[c] EXCEPT !.toClose = yes]
  OBVIOUS
<1>9. e \in ConnType /\ e.req = conn[c].req
  BY <1>3, <1>8 DEF ConnType
<1>10. /\ req' = [req EXCEPT ![r] = u] /\ stack' = <<>>
       /\ UNCHANGED <<pool, queue, ret, errno, faults>>
       /\ \/ conn' = [conn EXCEPT ![c] = e] /\ worker' = [worker EXCEPT !.linger = @ + 1]
          \/ UNCHANGED <<conn, worker>>
  BY <1>1, <1>2, <1>4, <1>5, <1>7, <1>8 DEF OnRespHeader, Types
<1>11. req' \in [Reqs -> ReqType] /\ SameReqs(req, req')
  BY <1>1, <1>6, <1>10, OneReq
<1>12. conn' \in [Conns -> ConnType] /\ SameConns(conn, conn')
  BY <1>1, <1>9, <1>10, OneConn, SameAsBefore DEF Types
<1>13. worker' \in WorkerType
  BY <1>1, <1>10 DEF Types, WorkerType
<1>14. \A d \in Conns : conn[d].req # NoReq => d \in Busy(pool')
  BY <1>1, <1>10 DEF Placed
<1>15. Placed(conn', queue', req', pool')
  BY <1>1, <1>10, <1>11, <1>12, <1>14, PlacedKeep
<1>16. Types' /\ PoolOK(pool')
  BY <1>1, <1>10, <1>11, <1>12, <1>13 DEF Types
<1> QED
  BY <1>10, <1>15, <1>16, NoCall

LEMMA OnBadHeaderBase ==
    ASSUME BaseInv, NEW c \in Conns, NEW tooLong \in BOOLEAN, OnBadHeader(c, tooLong)
    PROVE  BaseInv'
<1>1. Types /\ PoolOK(pool) /\ Placed(conn, queue, req, pool)
  BY DEF BaseInv
<1>2. PICK r \in Reqs : r = conn[c].req
  BY AnswerOf DEF OnBadHeader
<1>3. conn[c] \in ConnType /\ req[r] \in ReqType
  BY <1>1 DEF Types
<1>4. PICK yes \in BOOLEAN : yes = TRUE
  OBVIOUS
<1>5. PICK v : v = IF tooLong THEN [req[r] EXCEPT !.abort = yes] ELSE req[r]
  OBVIOUS
<1>6. v \in ReqType /\ v.proc = req[r].proc /\ v.st = req[r].st /\ v.complete = req[r].complete
  <2>1. PICK w : w = [req[r] EXCEPT !.abort = yes]
    OBVIOUS
  <2>2. w \in ReqType /\ w.proc = req[r].proc /\ w.st = req[r].st /\ w.complete = req[r].complete
    BY <1>3, <2>1 DEF ReqType
  <2> QED
    BY <1>3, <1>5, <2>1, <2>2
<1>7. PICK u : u = ErrResponse(v, 500)
  OBVIOUS
<1>8. u \in ReqType /\ u.proc = v.proc /\ u.st = v.st /\ u.complete = v.complete
  BY <1>6, <1>7, ErrOK
<1>9. PICK k : k = [conn[c] EXCEPT !.st = "ABORT"]
  OBVIOUS
<1>10. PICK e : e = [k EXCEPT !.used = yes]
  OBVIOUS
<1>11. k \in ConnType /\ k.req = conn[c].req
  BY <1>3, <1>9 DEF ConnType, ConnStates
<1>12. e \in ConnType /\ e.req = conn[c].req
  BY <1>10, <1>11 DEF ConnType
<1>13. PICK x \in Errnos :
          Handler(c, (IF tooLong THEN <<Frame("endResponse", NoConn, r, 0)>> ELSE <<>>)
                     \o <<Frame("connError", c, NoReq, x)>>)
  BY <1>2 DEF OnBadHeader
<1>14. /\ req' = [req EXCEPT ![r] = u] /\ Fault
       /\ UNCHANGED <<pool, worker, queue, ret, errno>>
  BY <1>2, <1>4, <1>5, <1>7 DEF OnBadHeader, lists
<1>15. conn' = IF tooLong THEN [conn EXCEPT ![c] = e] ELSE conn
  BY <1>1, <1>4, <1>9, <1>10 DEF OnBadHeader, Types
<1>16. req' \in [Reqs -> ReqType] /\ SameReqs(req, req')
  <2>1. u.proc = req[r].proc /\ u.st = req[r].st /\ u.complete = req[r].complete
    BY <1>6, <1>8
  <2> QED
    BY <1>1, <1>8, <1>14, <2>1, OneReq
<1>17. faults' \in 0 .. MaxFaults
  BY <1>14, FaultOK
<1>18. CASE tooLong
  <2>1. Types' /\ PoolOK(pool') /\ Placed(conn', queue', req', pool')
    BY <1>12, <1>14, <1>15, <1>16, <1>17, <1>18, ConnEventMoves
  <2>2. PICK a, g : a = Frame("endResponse", NoConn, r, 0) /\ g = Frame("connError", c, NoReq, x)
    OBVIOUS
  <2>3. FrameOK(g) /\ g.fn = "connError"
    BY <2>2, ConnFrame, MarkFacts DEF OfConn, OfReq
  <2>4. Handler(c, <<a>> \o <<g>>)
    BY <1>13, <1>18, <2>2
  <2>5. <<a>> \o <<g>> = <<a, g>>
    BY Concats
  <2>6. Handler(c, <<a, g>>)
    BY <2>4, <2>5
  <2> QED
    BY <2>1, <2>2, <2>3, <2>6, HandlerEnd
<1>19. CASE ~tooLong
  <2>1. Types' /\ PoolOK(pool') /\ Placed(conn', queue', req', pool')
    BY <1>1, <1>14, <1>15, <1>16, <1>17, <1>19, ReqsMoved DEF Types
  <2>2. PICK g : g = Frame("connError", c, NoReq, x)
    OBVIOUS
  <2>3. Handler(c, <<>> \o <<g>>)
    BY <1>13, <1>19, <2>2
  <2>4. <<>> \o <<g>> = <<g>>
    OBVIOUS
  <2>5. Handler(c, <<g>>)
    BY <2>3, <2>4
  <2> QED
    BY <2>1, <2>2, <2>5, HandlerConn, MarkFacts
<1> QED
  BY <1>18, <1>19

LEMMA OnRespDoneBase ==
    ASSUME BaseInv, NEW c \in Conns, OnRespDone(c)
    PROVE  BaseInv'
<1>1. Types
  BY DEF BaseInv
<1>2. PICK r \in Reqs : r = conn[c].req
  BY AnswerOf DEF OnRespDone
<1>3. conn[c] \in ConnType
  BY <1>1 DEF Types
<1>4. PICK st \in ConnStates : st = IF req[r].hdr = "close" THEN "CLOSING" ELSE conn[c].st
  BY <1>3 DEF ConnType, ConnStates
<1>5. PICK yes \in BOOLEAN, no \in BOOLEAN : yes = TRUE /\ no = FALSE
  OBVIOUS
<1>6. PICK k : k = [conn[c] EXCEPT !.used = yes, !.inProcess = no]
  OBVIOUS
<1>7. PICK e : e = [k EXCEPT !.st = st]
  OBVIOUS
<1>8. k \in ConnType /\ k.req = conn[c].req /\ k.st = conn[c].st
  BY <1>3, <1>6 DEF ConnType
<1>9. e \in ConnType /\ e.req = conn[c].req
  BY <1>7, <1>8 DEF ConnType
<1>10. conn' = [conn EXCEPT ![c] = e]
  BY <1>1, <1>2, <1>4, <1>5, <1>6, <1>7 DEF OnRespDone, Types
<1>11. UNCHANGED <<req, pool, worker, queue, ret, errno, faults>>
  BY DEF OnRespDone, lists
<1>12. Types' /\ PoolOK(pool') /\ Placed(conn', queue', req', pool')
  BY <1>1, <1>9, <1>10, <1>11, ConnEventMoves, SameAsBefore DEF Types
<1>13. PICK g : g = Frame("return", NoConn, NoReq, 0)
  OBVIOUS
<1>14. FrameOK(g) /\ g.fn = "return"
  BY <1>13, ReturnFrame, MarkFacts
<1>15. Handler(c, <<Frame("endResponse", NoConn, r, 0), g>>)
  BY <1>2, <1>13 DEF OnRespDone
<1> QED
  BY <1>12, <1>14, <1>15, HandlerEnd

LEMMA OnBodyResetBase ==
    ASSUME BaseInv, NEW c \in Conns, OnBodyReset(c)
    PROVE  BaseInv'
<1>1. Types
  BY DEF BaseInv
<1>2. PICK r \in Reqs : r = conn[c].req
  BY AnswerOf DEF OnBodyReset
<1>3. conn[c] \in ConnType /\ req[r] \in ReqType
  BY <1>1 DEF Types
<1>4. PICK yes \in BOOLEAN, no \in BOOLEAN : yes = TRUE /\ no = FALSE
  OBVIOUS
<1>5. PICK e : e = [conn[c] EXCEPT !.used = yes, !.inProcess = no]
  OBVIOUS
<1>6. e \in ConnType /\ e.req = conn[c].req
  BY <1>3, <1>5 DEF ConnType
<1>7. PICK u : u = [req[r] EXCEPT !.abort = yes]
  OBVIOUS
<1>8. u \in ReqType /\ u.proc = req[r].proc /\ u.st = req[r].st /\ u.complete = req[r].complete
  BY <1>3, <1>7 DEF ReqType
<1>9. conn' = [conn EXCEPT ![c] = e] /\ req' = [req EXCEPT ![r] = u] /\ Fault
  BY <1>1, <1>2, <1>4, <1>5, <1>7 DEF OnBodyReset, Types
<1>10. UNCHANGED <<pool, worker, queue, ret, errno>>
  BY DEF OnBodyReset, lists
<1>11. req' \in [Reqs -> ReqType] /\ SameReqs(req, req')
  BY <1>1, <1>8, <1>9, OneReq
<1>12. Types' /\ PoolOK(pool') /\ Placed(conn', queue', req', pool')
  BY <1>6, <1>9, <1>10, <1>11, ConnEventMoves, FaultOK
<1>13. PICK x \in Errnos : Handler(c, <<Frame("endResponse", NoConn, r, 0), Frame("connError", c, NoReq, x)>>)
  BY <1>2 DEF OnBodyReset
<1>14. PICK g : g = Frame("connError", c, NoReq, x)
  OBVIOUS
<1>15. FrameOK(g) /\ g.fn = "connError"
  BY <1>14, ConnFrame, MarkFacts DEF OfConn, OfReq
<1> QED
  BY <1>12, <1>13, <1>14, <1>15, HandlerEnd

LEMMA OnErrorBase ==
    ASSUME BaseInv, NEW c \in Conns, OnError(c)
    PROVE  BaseInv'
<1>1. Types /\ Placed(conn, queue, req, pool)
  BY DEF BaseInv
<1>2. conn[c] \in ConnType
  BY <1>1 DEF Types
<1>3. PICK e : e = [conn[c] EXCEPT !.st = "CLOSING"]
  OBVIOUS
<1>4. e \in ConnType /\ e.req = conn[c].req
  BY <1>2, <1>3 DEF ConnType, ConnStates
<1>5. conn' = [conn EXCEPT ![c] = e] /\ UNCHANGED <<req, pool, worker, queue, ret, errno>> /\ Fault
  BY <1>1, <1>3 DEF OnError, lists, Types
<1>6. Types' /\ PoolOK(pool') /\ Placed(conn', queue', req', pool')
  BY <1>1, <1>4, <1>5, ConnEventMoves, FaultOK, SameAsBefore DEF Types
<1>7. \/ stack' = <<>>
      \/ \E x \in IoErrnos \cup AsyncErrnos : stack' = <<Frame("connError", c, NoReq, x)>>
      \/ conn[c].req # NoReq /\ stack' = <<Frame("endResponse", NoConn, conn[c].req, 0)>>
  BY DEF OnError, Call
<1>8. CASE stack' = <<>>
  BY <1>6, <1>8, NoCall
<1>9. ASSUME NEW x \in IoErrnos \cup AsyncErrnos, stack' = <<Frame("connError", c, NoReq, x)>>
      PROVE  BaseInv'
  <2>1. PICK a : a = Frame("connError", c, NoReq, x)
    OBVIOUS
  <2>2. FrameOK(a) /\ a.fn = "connError"
    BY <2>1, ConnFrame, MarkFacts DEF OfConn, OfReq
  <2>3. Held(a, conn', queue', req', pool')
    BY <2>2, HoldsNothing
  <2> QED
    BY <1>6, <1>9, <2>1, <2>2, <2>3, Event1
<1>10. CASE conn[c].req # NoReq /\ stack' = <<Frame("endResponse", NoConn, conn[c].req, 0)>>
  <2>1. PICK r \in Reqs : r = conn[c].req
    BY <1>1, <1>10, Carried
  <2>2. PICK a : a = Frame("endResponse", NoConn, r, 0)
    OBVIOUS
  <2>3. FrameOK(a) /\ a.fn = "endResponse"
    BY <2>2, ReqFrame, MarkFacts DEF OfReq, OfConn
  <2>4. Held(a, conn', queue', req', pool')
    BY <2>3, HoldsNothing
  <2> QED
    BY <1>6, <1>10, <2>1, <2>2, <2>3, <2>4, Event1
<1> QED
  BY <1>7, <1>8, <1>9, <1>10

LEMMA OnIdleTimeoutBase ==
    ASSUME BaseInv, NEW c \in Conns, OnIdleTimeout(c)
    PROVE  BaseInv'
<1>1. Types
  BY DEF BaseInv
<1>2. PICK e : e = Closed(conn[c])
  OBVIOUS
<1>3. /\ conn[c].req = NoReq /\ conn' = [conn EXCEPT ![c] = e] /\ pool' = RemoveConn(pool, c) /\ stack' = <<>>
      /\ UNCHANGED <<req, worker, queue, ret, errno, faults>>
  BY <1>2 DEF OnIdleTimeout, Serving
<1>4. e \in ConnType /\ e.req = conn[c].req
  BY <1>1, <1>2, ClosedOK DEF Types
<1>5. Types' /\ PoolOK(pool') /\ Placed(conn', queue', req', pool')
  BY <1>3, <1>4, Discard
<1> QED
  BY <1>3, <1>5, NoCall

LEMMA OnChunkTimeoutBase ==
    ASSUME BaseInv, NEW c \in Conns, NEW st \in {"ABORT", "CLOSING"}, OnChunkTimeout(c, st)
    PROVE  BaseInv'
<1>1. Types
  BY DEF BaseInv
<1>2. PICK r \in Reqs : r = conn[c].req
  BY AnswerOf DEF OnChunkTimeout
<1>3. conn[c] \in ConnType
  BY <1>1 DEF Types
<1>4. PICK e : e = [conn[c] EXCEPT !.st = st]
  OBVIOUS
<1>5. e \in ConnType /\ e.req = conn[c].req
  BY <1>3, <1>4 DEF ConnType, ConnStates
<1>6. conn' = [conn EXCEPT ![c] = e] /\ UNCHANGED <<req, pool, worker, queue, ret, errno>> /\ Fault
  BY <1>1, <1>4 DEF OnChunkTimeout, lists, Types
<1>7. Types' /\ PoolOK(pool') /\ Placed(conn', queue', req', pool')
  BY <1>1, <1>5, <1>6, ConnEventMoves, FaultOK, SameAsBefore DEF Types
<1>8. PICK a : a = Frame("endResponse", NoConn, r, 0)
  OBVIOUS
<1>9. stack' = <<a>>
  BY <1>2, <1>8 DEF OnChunkTimeout, Call
<1>10. FrameOK(a) /\ a.fn = "endResponse"
  BY <1>8, ReqFrame, MarkFacts DEF OfReq, OfConn
<1>11. Held(a, conn', queue', req', pool')
  BY <1>10, HoldsNothing
<1> QED
  BY <1>7, <1>9, <1>10, <1>11, Event1

LEMMA ResetStatsBase ==
    ASSUME BaseInv, ResetStats
    PROVE  BaseInv'
<1>1. Types /\ PoolOK(pool) /\ Placed(conn, queue, req, pool)
  BY DEF BaseInv
<1>2. PICK a, b : a = Frame("processPending", NoConn, NoReq, 0) /\ b = Frame("resetStats2", NoConn, NoReq, 0)
  OBVIOUS
<1>3. FrameOK(a) /\ a.fn = "processPending" /\ a.c = NoConn
  BY <1>2, PendingFrame
<1>4. FrameOK(b) /\ b.fn = "resetStats2"
  BY <1>2, PlainFrame
<1>5. Held(a, conn', queue', req', pool') /\ Held(b, conn', queue', req', pool')
  BY <1>3, <1>4, HoldsNothing DEF Held
<1>6. UNCHANGED <<queue, req, ret, errno, faults>>
  BY DEF ResetStats
<1>7. PICK n : n = ClearLinger(conn, pool)
  OBVIOUS
<1>8. /\ stack' = <<b>> \/ stack' = <<a>> \o <<b>>
      /\ \/ UNCHANGED <<conn, pool, worker>>
         \/ /\ worker' = [worker EXCEPT !.st = "NOTSTARTED", !.errors = 0, !.restartRecent = TRUE,
                                        !.linger = @ + n]
            /\ conn' = ClearConns(conn, pool) /\ pool' = DropFree(pool)
         \/ /\ CfgMaxConns > pool.max /\ pool' = [pool EXCEPT !.max = @ + 1] /\ UNCHANGED <<conn, worker>>
  BY <1>2, <1>7 DEF ResetStats, Call
<1>9. Types' /\ PoolOK(pool') /\ Placed(conn', queue', req', pool')
  <2>1. CASE UNCHANGED <<conn, pool, worker>>
    BY <1>1, <1>6, <2>1, NothingMoved DEF Types
  <2>2. CASE /\ worker' = [worker EXCEPT !.st = "NOTSTARTED", !.errors = 0, !.restartRecent = TRUE,
                                         !.linger = @ + n]
             /\ conn' = ClearConns(conn, pool) /\ pool' = DropFree(pool)
    <3>1. n \in Nat
      BY <1>1, <1>7, ClearLingerOK
    <3>2. worker' \in WorkerType
      <4>1. PICK yes \in BOOLEAN : yes = TRUE
        OBVIOUS
      <4>2. PICK w : w = [worker EXCEPT !.st = "NOTSTARTED", !.errors = 0, !.restartRecent = yes]
        OBVIOUS
      <4>3. w \in WorkerType /\ w.linger = worker.linger
        BY <1>1, <4>2 DEF Types, WorkerType
      <4>4. worker' = [w EXCEPT !.linger = w.linger + n]
        BY <2>2, <4>1, <4>2, <4>3
      <4> QED
        BY <3>1, <4>3, <4>4 DEF WorkerType
    <3> QED
      BY <1>6, <2>2, <3>2, Cleared
  <2>3. CASE CfgMaxConns > pool.max /\ pool' = [pool EXCEPT !.max = @ + 1] /\ UNCHANGED <<conn, worker>>
    <3>1. PICK m \in Int, k \in Nat : m = pool.max /\ k = Cardinality(pool.conn)
      BY <1>1, PoolNumbers
    <3>2. m < CfgMaxConns /\ k <= m /\ CfgMaxConns \in Nat
      BY <1>1, <2>3, <3>1, PoolNumbers
    <3>3. m + 1 <= CfgMaxConns /\ k <= m + 1 /\ m + 1 \in Int
      BY <3>2
    <3>4. pool' = [pool EXCEPT !.max = m + 1]
      BY <2>3, <3>1
    <3>5. PoolOK(pool') /\ Busy(pool') = Busy(pool)
      BY <1>1, <3>1, <3>3, <3>4, SetMaxOK
    <3>6. Placed(conn', queue', req', pool')
      BY <1>1, <1>6, <2>3, <3>5 DEF Placed
    <3> QED
      BY <1>1, <1>6, <2>3, <3>5, <3>6 DEF Types
  <2> QED
    BY <1>8, <2>1, <2>2, <2>3
<1>10. CASE stack' = <<b>>
  BY <1>4, <1>5, <1>9, <1>10, Event1
<1>11. CASE stack' = <<a>> \o <<b>>
  <2>1. stack' = <<a, b>>
    BY <1>11, Concats
  <2> QED
    BY <1>3, <1>4, <1>5, <1>9, <2>1, Event2 DEF Resumes
<1> QED
  BY <1>8, <1>10, <1>11

LEMMA AgeBase ==
    ASSUME BaseInv, Age
    PROVE  BaseInv'
<1>1. Types /\ PoolOK(pool) /\ Placed(conn, queue, req, pool)
  BY DEF BaseInv
<1>2. PICK no \in BOOLEAN : no = FALSE
  OBVIOUS
<1>3. /\ worker' = [worker EXCEPT !.errRecent = no, !.restartRecent = no] /\ stack' = <<>>
      /\ UNCHANGED <<conn, pool, queue, req, ret, errno, faults>>
  BY <1>2 DEF Age, Call
<1>4. worker' \in WorkerType
  BY <1>1, <1>3 DEF Types, WorkerType
<1>5. Types' /\ PoolOK(pool') /\ Placed(conn', queue', req', pool')
  BY <1>1, <1>3, <1>4 DEF Types
<1> QED
  BY <1>3, <1>5, NoCall

LEMMA InitBase ==
    ASSUME Init
    PROVE  BaseInv
<1>1. FreshConn \in ConnType /\ FreshConn.req = NoReq
  <2>1. PICK no \in BOOLEAN : no = FALSE
    OBVIOUS
  <2>2. FreshConn = [st |-> "DISCONNECTED", req |-> NoReq, toClose |-> no, used |-> no, sent |-> no, inProcess |-> no]
    BY <2>1 DEF FreshConn
  <2> QED
    BY <2>2 DEF ConnType, ConnStates
<1>2. FreshReq \in ReqType /\ FreshReq.proc = NoConn
  <2>1. PICK no \in BOOLEAN, yes \in BOOLEAN : no = FALSE /\ yes = TRUE
    OBVIOUS
  <2>2. PICK u : u = FreshReq
    OBVIOUS
  <2>3. u = [st |-> "idle", proc |-> NoConn, attempts |-> 0, hec |-> "begin", hdr |-> "none",
             err |-> no, abort |-> no, complete |-> no, alive |-> yes, out |-> 0]
    BY <2>1, <2>2 DEF FreshReq
  <2>4. u \in ReqType
    BY ONLY <2>3, no \in BOOLEAN, yes \in BOOLEAN DEF ReqType
  <2> QED
    BY <2>2, <2>3, <2>4
<1>3. \A x : ~Has(<<>>, x)
  BY DEF Has
<1>4. Once(<<>>)
  BY DEF Once
<1>5. Types
  <2>1. conn \in [Conns -> ConnType] /\ req \in [Reqs -> ReqType]
    BY <1>1, <1>2 DEF Init
  <2>2. worker \in WorkerType
    <3>1. PICK no \in BOOLEAN : no = FALSE
      OBVIOUS
    <3>2. worker = [st |-> "NOTSTARTED", errors |-> 0, linger |-> 0, errRecent |-> no, restartRecent |-> no]
      BY <3>1 DEF Init
    <3> QED
      BY <3>2 DEF WorkerType
  <2>3. queue \in Seq(Reqs) /\ Once(queue)
    BY <1>4 DEF Init
  <2>4. ret \in Rets /\ errno \in Errnos \cup {"none"} /\ faults \in 0 .. MaxFaults
    BY MarkFacts, FaultAssumption DEF Init
  <2> QED
    BY <2>1, <2>2, <2>3, <2>4 DEF Types
<1>6. PoolOK(pool)
  <2>1. pool = [created |-> {}, conn |-> {}, free |-> <<>>, bad |-> <<>>, max |-> 0]
    BY DEF Init
  <2>2. /\ pool.created = {} /\ pool.conn = {} /\ pool.free = <<>> /\ pool.bad = <<>> /\ pool.max = 0
        /\ pool \in PoolType
    BY <2>1 DEF PoolType
  <2>3. Cardinality({}) = 0
    BY FS_EmptySet
  <2>4. PoolLists(pool)
    BY <1>3, <1>4, <2>2 DEF PoolLists
  <2>5. PoolSizes(pool)
    BY <2>2, <2>3, MaxAssumption DEF PoolSizes
  <2> QED
    BY <2>2, <2>4, <2>5 DEF PoolOK
<1>7. Placed(conn, queue, req, pool)
  <2>1. \A c \in Conns : conn[c].req = NoReq
    BY <1>1 DEF Init
  <2>2. \A r \in Reqs : req[r].proc = NoConn
    BY <1>2 DEF Init
  <2>3. queue = <<>>
    BY DEF Init
  <2> QED
    BY <1>3, <2>1, <2>2, <2>3, ConnAssumption DEF Placed
<1>8. stack = <<>>
  BY DEF Init
<1> QED
  BY <1>5, <1>6, <1>7, <1>8, EmptyStack DEF BaseInv

LEMMA BaseStep ==
    ASSUME BaseInv, [Next]_vars
    PROVE  BaseInv'
<1>1. CASE Step
  BY <1>1, ProcessRequestBase, ProcessRequest2Base, ReturnValueBase, RecycleConnBase, RecycleLoopBase,
     RecycleLoop2Base, ProcessPendingBase, ProcessPending2Base, AssignReqBase, AssignReq2Base,
     ConnectExBase, DoWriteBase, ConnErrorBase, ConnError2Base, ConnectionErrorBase,
     ConnectionError2Base, FailOutstandingReqsBase, TryRecoverBase, TryRecover2Base,
     EndResponseBase, OnEventDoneBase, ProcessBase, ResetStats2Base DEF Step
<1>2. ASSUME NEW c \in Conns, ConnEvent(c) PROVE BaseInv'
  BY <1>2, OnWriteBase, OnConnectFailBase, OnReadFailBase, OnBodyResetBase, OnErrorBase,
     OnIdleTimeoutBase, OnRespDoneBase, OnRespHeaderBase, OnBadHeaderBase, OnChunkTimeoutBase DEF ConnEvent
<1>3. ASSUME NEW r \in Reqs, NewRequest(r) \/ ClientGone(r) \/ CleanUp(r) PROVE BaseInv'
  BY <1>3, NewRequestBase, ClientGoneBase, CleanUpBase
<1>4. CASE ResetStats \/ Age
  BY <1>4, ResetStatsBase, AgeBase
<1>5. CASE UNCHANGED vars
  BY <1>5 DEF vars, BaseInv, Types, Placed, Held, Loose, Idle
<1> QED
  BY <1>1, <1>2, <1>3, <1>4, <1>5 DEF Next

\* The inductive invariant: types, the lists of the pool, a well-formed call stack,
\* every request in one place, and what the running function has in its hands.
THEOREM BaseInvariant == Spec => []BaseInv
<1>1. Init => BaseInv
  BY InitBase
<1>2. BaseInv /\ [Next]_vars => BaseInv'
  BY BaseStep
<1> QED
  BY <1>1, <1>2, PTL DEF Spec

LEMMA BaseTypeOK ==
    ASSUME BaseInv
    PROVE  TypeOK
<1>1. Types /\ PoolOK(pool) /\ Stacked(stack)
  BY DEF BaseInv
<1>2. /\ conn \in [Conns -> [st : ConnStates, req : Reqs \cup {NoReq}, toClose : BOOLEAN,
                             used : BOOLEAN, sent : BOOLEAN, inProcess : BOOLEAN]]
      /\ worker \in [st : {"NOTSTARTED", "BAD", "GOOD"}, errors : Nat, linger : Int,
                     errRecent : BOOLEAN, restartRecent : BOOLEAN]
      /\ queue \in Seq(Reqs)
      /\ req \in [Reqs -> [st : {"idle", "active", "over"}, proc : Conns \cup {NoConn},
                           attempts : Nat, hec : {"begin", "fwd", "resp"}, hdr : {"none", "ok", "close"},
                           err : BOOLEAN, abort : BOOLEAN, complete : BOOLEAN, alive : BOOLEAN,
                           out : {0, 200, 500, SC_503}]]
      /\ ret \in {0, 1, 500, SC_503, LS_FAIL}
      /\ errno \in Errnos \cup {"none"}
      /\ faults \in 0 .. MaxFaults
  BY <1>1 DEF Types, ConnType, WorkerType, ReqType, Rets
<1>3. /\ pool.conn \subseteq pool.created /\ pool.created \subseteq Conns
      /\ pool.free \in Seq(Conns) /\ pool.bad \in Seq(Conns) /\ pool.max \in Int
  BY <1>1 DEF PoolOK, PoolType, PoolLists
<1>4. ASSUME NEW i \in DOMAIN stack
      PROVE  /\ stack[i].fn \in FrameNames
             /\ stack[i].c \in Conns \cup {NoConn}
             /\ stack[i].r \in Reqs \cup {NoReq}
  <2>1. i \in 1 .. Len(stack)
    BY <1>1 DEF Stacked
  <2>2. stack[i] \in AnyFrame
    BY <1>1, <2>1 DEF Stacked, FrameOK
  <2> QED
    BY <2>2 DEF AnyFrame
<1> QED
  BY <1>2, <1>3, <1>4 DEF TypeOK

\* Every field and every frame of the call stack keeps its type.
THEOREM TypeCorrect == Spec => []TypeOK
<1>1. BaseInv => TypeOK
  BY BaseTypeOK
<1> QED
  BY <1>1, BaseInvariant, PTL

\* ConnPool's lists agree for any number of connections and requests, however deep the
\* handlers re-enter the worker: connectionError() in the middle of an assignReq() that
\* processRequest(), recycleConn() or processPending() made may drop the free
\* connections and retry, and still none is listed twice, lost or over the limit.
THEOREM ListsAgree == Spec => []ListsConsistent
<1>1. BaseInv => ListsConsistent
  BY PoolOKLists DEF BaseInv
<1> QED
  BY <1>1, BaseInvariant, PTL

LEMMA BaseOnePlace ==
    ASSUME BaseInv
    PROVE  RequestInOnePlace
<1>1. Types /\ PoolOK(pool) /\ Placed(conn, queue, req, pool)
  BY DEF BaseInv
<1>2. NoDuplicates(queue)
  BY <1>1, OnceCounts DEF Types
<1>3. ASSUME NEW r \in ToSet(queue) PROVE req[r].st = "active" /\ req[r].proc = NoConn
  <2>1. Has(queue, r) /\ r \in Reqs
    BY <1>1, ToSetHas DEF Types, Has
  <2> QED
    BY <1>1, <2>1 DEF Placed
<1>4. \A c \in Conns, r \in Reqs : (conn[c].req = r) <=> (req[r].proc = c)
  BY <1>1 DEF Placed
<1>5. ASSUME NEW c \in ToSet(pool.free) \cup ToSet(pool.bad) PROVE ~Serving(c)
  <2>1. PICK f, b : f = pool.free /\ b = pool.bad
    OBVIOUS
  <2>2. f \in Seq(Conns) /\ b \in Seq(Conns)
    BY <1>1, <2>1 DEF PoolOK, PoolType
  <2>3. c \in Conns /\ (Has(f, c) \/ Has(b, c))
    BY <2>1, <2>2, ToSetHas, HasConns
  <2>4. c \notin Busy(pool)
    BY <1>1, <2>1, <2>3 DEF Busy, PoolOK, PoolLists
  <2> QED
    BY <1>1, <2>3, <2>4 DEF Placed, Serving
<1> QED
  BY <1>2, <1>3, <1>4, <1>5 DEF RequestInOnePlace

\* A request waits in the queue once or is on one connection that points back to it,
\* and a free or bad connection carries none, at every step of every handler: no path
\* of errors and retries leaves a request on two connections or on one that another
\* request may be given.
THEOREM OnePlace == Spec => []RequestInOnePlace
<1>1. BaseInv => RequestInOnePlace
  BY BaseOnePlace
<1> QED
  BY <1>1, BaseInvariant, PTL

-----------------------------------------------------------------------------
(***************************************************************************)
(* The inductive invariant, second part: which functions may wait for      *)
(* which, and what is known when one of them is told that its callee has   *)
(* failed.                                                                 *)
(***************************************************************************)

\* The functions that called assignReq() and may take their request back.
After == {"processRequest2", "recycleLoop2", "processPending2"}

\* What is said of the frames F that wait: none of them has called assignReq(), the
\* connections of those that have carry nothing, or only connection c does.
NoAfter(F)     == \A g \in F : g.fn \notin After
Quiet(F, cn)   == \A g \in F : g.fn \in After => cn[g.c].req = NoReq
Only(F, cn, c) == \A g \in F : g.fn \in After /\ g.c # c => cn[g.c].req = NoReq

\* The functions that are only reached from the event loop, without an assignReq()
\* that has not returned.
Lower == {"recycleConn", "recycleLoop", "recycleLoop2", "processPending", "processPending2",
          "process", "resetStats2", "onEventDone"}

\* f was called by g, or by a function that ended in the call.
Zero(f) == f.fn = "return" /\ f.x = 0
Ties(f, g) ==
    /\ f.fn \in {"processRequest", "processRequest2"} => g.fn \in {"process", "tryRecover2"}
    /\ f.fn = "processRequest" => g.r = f.r /\ (f.x \/ g.fn = "process")
    /\ g.fn \in {"process", "tryRecover2"} => f.fn \in {"processRequest", "processRequest2"} \/ Zero(f)
    /\ f.fn = "connectEx" => g.fn \in {"assignReq2", "connError2"}
    /\ g.fn \in {"assignReq2", "connError2"} => (f.fn = "connectEx" /\ f.c = g.c) \/ Zero(f)
    /\ f.fn \in {"tryRecover", "tryRecover2"} <=> g.fn = "connectionError2"
    /\ f.fn = "failOutstandingReqs" => g.fn = "return"
    /\ g.fn = "failOutstandingReqs" => f.fn = "endResponse"
    /\ g.fn = "return" => g.x \in {0, LS_FAIL} /\ (g.x # 0 => f.fn = "failOutstandingReqs")
    /\ g.fn = "connError" => f.fn \in {"endResponse", "recycleConn", "recycleLoop", "recycleLoop2",
                                       "processPending", "processPending2"}

Chained(s) == \A i \in 1 .. Len(s) - 1 : Ties(s[i], s[i + 1])
Floored(s) == \A i \in 1 .. Len(s), j \in 1 .. Len(s) : i < j /\ s[i].fn \in Lower => s[j].fn \notin After

\* What the function f that runs may rely on: u is the rest of the stack, v the value
\* of the last return.
Claim(f, u, cn, v, rq) ==
    /\ f.fn \in {"tryRecover", "processRequest", "assignReq"} => Quiet(ToSet(u), cn)
    /\ f.fn = "processRequest" => u # <<>>
    /\ f.fn \in {"doWrite", "connectEx", "connError", "connectionError"} => Only(ToSet(u), cn, f.c)
    /\ f.fn \in {"assignReq2", "connError2"} /\ v # 0 => Only(ToSet(u), cn, f.c)
    /\ f.fn \in {"connectionError2", "tryRecover2"} /\ v # 0 => Quiet(ToSet(u), cn)
    /\ f.fn = "connectionError2" => v \in {0, LS_FAIL}
    /\ f.fn \in After => v \in {0, 1, LS_FAIL}
    /\ f.fn \in After /\ v # 0 => Quiet(ToSet(u), cn) /\ cn[f.c].req = NoReq
    /\ f.fn = "return" => f.x \in {0, LS_FAIL} /\ (f.x # 0 => Quiet(ToSet(u), cn))
    /\ f.fn = "failOutstandingReqs" => u # <<>> /\ (Head(u).x # 0 => Quiet(ToSet(u), cn))
    /\ f.fn = "endResponse" =>
         \/ NoAfter(ToSet(u)) /\ (u # <<>> => Head(u).fn # "failOutstandingReqs")
         \/ /\ u # <<>> /\ Head(u).fn = "failOutstandingReqs" /\ rq[f.r].proc = NoConn
            /\ Tail(u) # <<>> /\ (Head(Tail(u)).x # 0 => Quiet(ToSet(u), cn))

FlowInv ==
    /\ Chained(stack) /\ Floored(stack)
    /\ stack # <<>> => Claim(Head(stack), Tail(stack), conn, ret, req)

\* A connection that carries no request has no exchange under way that could be
\* taken for the next one's; a request that has failed or is complete has its answer.
AtRest(k) ==
    /\ k.req = NoReq /\ k.inProcess => k.st \in {"ABORT", "CLOSING"}
    /\ k.st \in {"DISCONNECTED", "CONNECTING"} => ~k.inProcess
Settled(cn, rq) ==
    /\ \A c \in Conns : AtRest(cn[c])
    /\ \A r \in Reqs : rq[r].err \/ rq[r].complete => rq[r].out # 0

\* What the running function knows of its connection.
Sure(f, cn, rq) ==
    /\ f.fn = "doWrite" => cn[f.c].st = "PROCESSING"
    /\ f.fn = "connectionError" => cn[f.c].st = "DISCONNECTED"
    /\ f.fn = "endResponse" => \A c \in Conns : rq[f.r].proc = c /\ cn[c].inProcess => cn[c].st # "PROCESSING"

\* A request whose client waits is somewhere, or the running function has it.
Known(q, rq, r) ==
    Has(q, r) \/ rq[r].proc # NoConn \/ rq[r].out # 0 \/ ~rq[r].alive \/ rq[r].st # "active"
Handlers == {"processRequest", "assignReq", "tryRecover", "endResponse", "process", "tryRecover2"}
Handles(f, v, r) ==
    /\ f.fn \in Handlers /\ f.r = r
    /\ f.fn \in {"process", "tryRecover2"} => v > 1

KnownInv ==
    /\ Settled(conn, req)
    /\ stack # <<>> => Sure(Head(stack), conn, req)
    /\ \A r \in Reqs : Known(queue, req, r) \/ (stack # <<>> /\ Handles(Head(stack), ret, r))

WholeInv == BaseInv /\ FlowInv /\ KnownInv

LEMMA Members ==
    ASSUME NEW s, Stacked(s)
    PROVE  /\ s # <<>> => ToSet(s) = {Head(s)} \cup ToSet(Tail(s)) /\ Head(s) \in AnyFrame
           /\ s = <<>> => ToSet(s) = {}
           /\ ToSet(s) \subseteq AnyFrame
<1>1. s \in Seq(AnyFrame)
  BY DEF Stacked
<1>2. ToSet(s) \subseteq AnyFrame
  BY <1>1 DEF ToSet
<1>3. s = <<>> => ToSet(s) = {}
  BY DEF ToSet
<1>4. ASSUME s # <<>> PROVE ToSet(s) = {Head(s)} \cup ToSet(Tail(s)) /\ Head(s) \in AnyFrame
  <2>1. PICK t : t = Tail(s)
    OBVIOUS
  <2>2. /\ t \in Seq(AnyFrame) /\ Len(s) \in Nat /\ Len(s) > 0 /\ Len(t) = Len(s) - 1
        /\ Head(s) = s[1] /\ \A i \in 1 .. Len(s) - 1 : t[i] = s[i + 1]
    BY <1>1, <1>4, <2>1
  <2>3. ASSUME NEW g \in ToSet(s) PROVE g \in {Head(s)} \cup ToSet(t)
    <3>1. PICK i \in 1 .. Len(s) : s[i] = g
      BY <1>1 DEF ToSet
    <3>2. CASE i = 1
      BY <2>2, <3>1, <3>2
    <3>3. CASE i # 1
      <4>1. i - 1 \in 1 .. Len(s) - 1 /\ (i - 1) + 1 = i
        BY <2>2, <3>3
      <4>2. t[i - 1] = g /\ i - 1 \in DOMAIN t
        BY <2>2, <3>1, <4>1
      <4> QED
        BY <4>2 DEF ToSet
    <3> QED
      BY <3>2, <3>3
  <2>4. ASSUME NEW g \in ToSet(t) PROVE g \in ToSet(s)
    <3>1. PICK i \in 1 .. Len(t) : t[i] = g
      BY <2>2 DEF ToSet
    <3>2. i + 1 \in DOMAIN s /\ s[i + 1] = g
      BY <1>1, <2>2, <3>1
    <3> QED
      BY <3>2 DEF ToSet
  <2>5. Head(s) \in ToSet(s) /\ Head(s) \in AnyFrame
    <3>1. 1 \in DOMAIN s /\ s[1] = Head(s)
      BY <1>1, <2>2
    <3> QED
      BY <1>1, <2>2, <3>1 DEF ToSet
  <2> QED
    BY <2>1, <2>3, <2>4, <2>5
<1> QED
  BY <1>2, <1>3, <1>4

\* The stack without its top, and with one more frame.
LEMMA FlowPop ==
    ASSUME NEW s, Stacked(s), Chained(s), Floored(s), s # <<>>, NEW u, u = Tail(s)
    PROVE  /\ Chained(u) /\ Floored(u)
           /\ u # <<>> => Ties(Head(s), Head(u))
           /\ Head(s).fn \in Lower => NoAfter(ToSet(u))
<1>1. s \in Seq(AnyFrame)
  BY DEF Stacked
<1>2. /\ u \in Seq(AnyFrame) /\ Len(s) \in Nat /\ Len(s) > 0 /\ Len(u) = Len(s) - 1
      /\ Head(s) = s[1] /\ \A i \in 1 .. Len(s) - 1 : u[i] = s[i + 1]
  BY <1>1
<1>3. ASSUME NEW i \in 1 .. Len(u) - 1 PROVE Ties(u[i], u[i + 1])
  <2>1. /\ i + 1 \in 1 .. Len(s) - 1 /\ i \in 1 .. Len(s) - 1
        /\ u[i] = s[i + 1] /\ u[i + 1] = s[(i + 1) + 1]
    BY <1>2
  <2> QED
    BY <2>1 DEF Chained
<1>4. ASSUME NEW i \in 1 .. Len(u), NEW j \in 1 .. Len(u), i < j, u[i].fn \in Lower PROVE u[j].fn \notin After
  <2>1. i + 1 \in 1 .. Len(s) /\ j + 1 \in 1 .. Len(s) /\ i + 1 < j + 1 /\ u[i] = s[i + 1] /\ u[j] = s[j + 1]
    BY <1>2, <1>4
  <2> QED
    BY <1>4, <2>1 DEF Floored
<1>5. ASSUME u # <<>> PROVE Ties(Head(s), Head(u))
  <2>1. 1 \in 1 .. Len(s) - 1 /\ Head(u) = u[1] /\ u[1] = s[1 + 1]
    BY <1>2, <1>5
  <2> QED
    BY <1>2, <2>1 DEF Chained
<1>6. ASSUME Head(s).fn \in Lower PROVE NoAfter(ToSet(u))
  <2>1. ASSUME NEW g \in ToSet(u) PROVE g.fn \notin After
    <3>1. PICK j \in 1 .. Len(u) : u[j] = g
      BY <1>2 DEF ToSet
    <3>2. 1 \in 1 .. Len(s) /\ j + 1 \in 1 .. Len(s) /\ 1 < j + 1 /\ s[j + 1] = g
      BY <1>2, <3>1
    <3> QED
      BY <1>2, <1>6, <3>2 DEF Floored
  <2> QED
    BY <2>1 DEF NoAfter
<1> QED
  BY <1>3, <1>4, <1>5, <1>6 DEF Chained, Floored

LEMMA FlowPush ==
    ASSUME NEW u, Stacked(u), Chained(u), Floored(u), NEW f \in AnyFrame, u # <<>> => Ties(f, Head(u)),
           f.fn \in Lower => NoAfter(ToSet(u)), NEW s, s = <<f>> \o u
    PROVE  Chained(s) /\ Floored(s)
<1>1. u \in Seq(AnyFrame)
  BY DEF Stacked
<1>2. /\ s \in Seq(AnyFrame) /\ Len(u) \in Nat /\ Len(s) = Len(u) + 1
      /\ s[1] = f /\ \A i \in 1 .. Len(u) : s[i + 1] = u[i]
  BY <1>1
<1>3. \A i \in 2 .. Len(s) : i - 1 \in 1 .. Len(u) /\ s[i] = u[i - 1]
  BY <1>2
<1>4. ASSUME NEW i \in 1 .. Len(s) - 1 PROVE Ties(s[i], s[i + 1])
  <2>1. CASE i = 1
    <3>1. u # <<>> /\ Head(u) = u[1] /\ s[i + 1] = u[1] /\ s[i] = f
      BY <1>1, <1>2, <2>1
    <3> QED
      BY <3>1
  <2>2. CASE i # 1
    <3>1. i - 1 \in 1 .. Len(u) - 1 /\ s[i] = u[i - 1] /\ s[i + 1] = u[(i - 1) + 1]
      BY <1>2, <1>3, <2>2
    <3> QED
      BY <3>1 DEF Chained
  <2> QED
    BY <2>1, <2>2
<1>5. ASSUME NEW i \in 1 .. Len(s), NEW j \in 1 .. Len(s), i < j, s[i].fn \in Lower PROVE s[j].fn \notin After
  <2>0. j - 1 \in 1 .. Len(u) /\ s[j] = u[j - 1]
    BY <1>2, <1>3, <1>5
  <2>1. CASE i = 1
    <3>1. u[j - 1] \in ToSet(u)
      BY <1>1, <2>0 DEF ToSet
    <3> QED
      BY <1>2, <1>5, <2>0, <2>1, <3>1 DEF NoAfter
  <2>2. CASE i # 1
    <3>1. i - 1 \in 1 .. Len(u) /\ s[i] = u[i - 1] /\ i - 1 < j - 1
      BY <1>2, <1>3, <1>5, <2>2
    <3> QED
      BY <1>5, <2>0, <3>1 DEF Floored
  <2> QED
    BY <2>1, <2>2
<1> QED
  BY <1>4, <1>5 DEF Chained, Floored

\* What is said of all frames is said of fewer.
LEMMA Said ==
    ASSUME NEW F, NEW G, G \subseteq F, NEW cn, NEW c
    PROVE  /\ NoAfter(F) => NoAfter(G) /\ Quiet(F, cn) /\ Only(F, cn, c)
           /\ Quiet(F, cn) => Quiet(G, cn) /\ Only(F, cn, c)
           /\ Only(F, cn, c) => Only(G, cn, c)
  BY DEF NoAfter, Quiet, Only

\* A connection that carries nothing goes on carrying nothing.
Freed(cn, dn) == \A c \in Conns : dn[c].req \in {cn[c].req, NoReq}

LEMMA SaidLater ==
    ASSUME NEW F, \A g \in F : FrameOK(g), NEW cn, NEW dn, Freed(cn, dn), NEW c
    PROVE  /\ Quiet(F, cn) => Quiet(F, dn)
           /\ Only(F, cn, c) => Only(F, dn, c)
           /\ Only(F, cn, c) /\ dn[c].req = NoReq => Quiet(F, dn)
<1>1. \A g \in F : g.fn \in After => g.c \in Conns
  BY DEF FrameOK, OfConn, After
<1> QED
  BY <1>1 DEF Freed, Quiet, Only

\* What f owes to the functions below it when it returns v.
Owes(f, u, cn, v) ==
    /\ f.fn \notin Lower \cup {"endResponse", "connectEx", "failOutstandingReqs"} /\ v # 0 => Quiet(ToSet(u), cn)
    /\ f.fn = "connectEx" /\ v # 0 => Only(ToSet(u), cn, f.c)
    /\ f.fn \notin Lower \cup {"endResponse", "processRequest", "processRequest2", "failOutstandingReqs"}
         => v \in {0, 1, LS_FAIL}
    /\ f.fn \in {"tryRecover", "tryRecover2"} => v \in {0, LS_FAIL}
    /\ f.fn = "return" => v = f.x
    /\ f.fn = "failOutstandingReqs" /\ Head(u).x # 0 => Quiet(ToSet(u), cn)
    /\ f.fn = "endResponse" =>
         \/ NoAfter(ToSet(u)) /\ (u # <<>> => Head(u).fn # "failOutstandingReqs")
         \/ /\ u # <<>> /\ Head(u).fn = "failOutstandingReqs"
            /\ Tail(u) # <<>> /\ (Head(Tail(u)).x # 0 => Quiet(ToSet(u), cn))

LEMMA Landing ==
    ASSUME NEW u, Stacked(u), u # <<>>, Head(u).fn \in Resumes, NEW f, Ties(f, Head(u)),
           f.fn \in Lower => NoAfter(ToSet(u)), NEW cn, NEW v, Owes(f, u, cn, v), NEW rq
    PROVE  Claim(Head(u), Tail(u), cn, v, rq)
<1>1. PICK g, w : g = Head(u) /\ w = Tail(u)
  OBVIOUS
<1>2. ToSet(u) = {g} \cup ToSet(w)
  BY <1>1, Members
<1>3. /\ NoAfter(ToSet(u)) => NoAfter(ToSet(w)) /\ g.fn \notin After
      /\ Quiet(ToSet(u), cn) => Quiet(ToSet(w), cn) /\ (g.fn \in After => cn[g.c].req = NoReq)
      /\ \A c : Only(ToSet(u), cn, c) => Only(ToSet(w), cn, c)
      /\ \A c : NoAfter(ToSet(w)) => Only(ToSet(w), cn, c)
  BY <1>2 DEF NoAfter, Quiet, Only
<1>4. g.fn \in Resumes /\ Ties(f, g)
  BY <1>1
<1>5. CASE g.fn \in After
  <2>1. /\ f.fn \notin {"processRequest", "processRequest2", "connectEx", "failOutstandingReqs"}
        /\ f.fn \notin Lower /\ f.fn # "endResponse"
    BY <1>1, <1>3, <1>4, <1>5 DEF Ties, After, Owes
  <2>2. v \in {0, 1, LS_FAIL} /\ (v # 0 => Quiet(ToSet(u), cn))
    BY <2>1 DEF Owes
  <2>3. Claim(g, w, cn, v, rq)
    BY <1>3, <1>5, <2>2 DEF Claim, After
  <2> QED
    BY <1>1, <2>3
<1>6. CASE g.fn = "return"
  <2>1. g.x \in {0, LS_FAIL} /\ (g.x # 0 => Quiet(ToSet(u), cn))
    BY <1>1, <1>4, <1>6 DEF Ties, Owes
  <2>2. Claim(g, w, cn, v, rq)
    BY <1>3, <1>6, <2>1 DEF Claim, After
  <2> QED
    BY <1>1, <2>2
<1>7. CASE g.fn \in {"assignReq2", "connError2"}
  <2>1. v # 0 => Only(ToSet(u), cn, g.c)
    BY <1>4, <1>7 DEF Ties, Zero, Owes
  <2>2. Claim(g, w, cn, v, rq)
    BY <1>3, <1>7, <2>1 DEF Claim, After
  <2> QED
    BY <1>1, <2>2
<1>8. CASE g.fn \in {"connectionError2", "tryRecover2"}
  <2>1. /\ v # 0 => Quiet(ToSet(u), cn)
        /\ g.fn = "connectionError2" => v \in {0, LS_FAIL}
    <3>1. CASE g.fn = "connectionError2"
      <4>1. f.fn \in {"tryRecover", "tryRecover2"}
        BY <1>4, <3>1 DEF Ties
      <4> QED
        BY <4>1 DEF Owes, Lower
    <3>2. CASE g.fn = "tryRecover2"
      <4>1. f.fn \in {"processRequest", "processRequest2"} \/ Zero(f)
        BY <1>4, <3>2 DEF Ties
      <4> QED
        BY <3>2, <4>1 DEF Owes, Lower, Zero
    <3> QED
      BY <1>8, <3>1, <3>2
  <2>2. Claim(g, w, cn, v, rq)
    BY <1>3, <1>8, <2>1 DEF Claim, After
  <2> QED
    BY <1>1, <2>2
<1>9. CASE g.fn = "failOutstandingReqs"
  <2>1. w # <<>> /\ (Head(w).x # 0 => Quiet(ToSet(u), cn))
    BY <1>1, <1>4, <1>9 DEF Ties, Owes
  <2>2. Claim(g, w, cn, v, rq)
    BY <1>3, <1>9, <2>1 DEF Claim, After
  <2> QED
    BY <1>1, <2>2
<1>10. CASE g.fn = "connError"
  <2>1. f.fn \in Lower \/ f.fn = "endResponse"
    BY <1>4, <1>10 DEF Ties, Lower
  <2>2. NoAfter(ToSet(u))
    BY <1>1, <1>10, <2>1 DEF Owes
  <2>3. Claim(g, w, cn, v, rq)
    BY <1>3, <1>10, <2>2 DEF Claim, After
  <2> QED
    BY <1>1, <2>3
<1>11. CASE g.fn \in {"process", "onEventDone", "resetStats2"}
  <2>1. Claim(g, w, cn, v, rq)
    BY <1>11 DEF Claim, After
  <2> QED
    BY <1>1, <2>1
<1> QED
  BY <1>4, <1>5, <1>6, <1>7, <1>8, <1>9, <1>10, <1>11 DEF Resumes, After

\* What is known of the running function f and of the frames u below it.
Runs(f, u) ==
    /\ stack # <<>> /\ f = Head(stack) /\ u = Tail(stack) /\ FrameOK(f)
    /\ Stacked(u) /\ Chained(u) /\ Floored(u) /\ \A g \in ToSet(u) : FrameOK(g)
    /\ Claim(f, u, conn, ret, req)
    /\ f.fn \in Lower => NoAfter(ToSet(u))
    /\ u # <<>> => /\ Ties(f, Head(u)) /\ Head(u).fn \in Resumes /\ FrameOK(Head(u))
                   /\ ToSet(u) = {Head(u)} \cup ToSet(Tail(u))
                   /\ Head(u).fn \in Lower => NoAfter(ToSet(Tail(u)))

LEMMA FlowRuns ==
    ASSUME BaseInv, FlowInv, stack # <<>>
    PROVE  Runs(Head(stack), Tail(stack))
<1>1. PICK f, u : f = Head(stack) /\ u = Tail(stack)
  OBVIOUS
<1>2. FrameOK(f) /\ Stacked(u) /\ (u # <<>> => Head(u).fn \in Resumes) /\ Stacked(stack)
  BY <1>1, Running
<1>3. /\ Chained(u) /\ Floored(u) /\ (u # <<>> => Ties(f, Head(u)))
      /\ f.fn \in Lower => NoAfter(ToSet(u))
  BY <1>1, <1>2, FlowPop DEF FlowInv
<1>4. \A g \in ToSet(u) : FrameOK(g)
  BY <1>2 DEF Stacked, ToSet
<1>5. ASSUME u # <<>>
      PROVE  /\ ToSet(u) = {Head(u)} \cup ToSet(Tail(u)) /\ FrameOK(Head(u))
             /\ Head(u).fn \in Lower => NoAfter(ToSet(Tail(u)))
  <2>1. ToSet(u) = {Head(u)} \cup ToSet(Tail(u))
    BY <1>2, <1>5, Members
  <2>2. Head(u).fn \in Lower => NoAfter(ToSet(Tail(u)))
    BY <1>2, <1>3, <1>5, FlowPop
  <2> QED
    BY <1>4, <2>1, <2>2
<1> QED
  BY <1>1, <1>2, <1>3, <1>4, <1>5 DEF Runs, FlowInv

\* The three ways a step changes the stack: it returns, goes on as a, or calls a and
\* goes on as b.
LEMMA FlowReturns ==
    ASSUME NEW f, NEW u, Runs(f, u), stack' = u, Owes(f, u, conn', ret')
    PROVE  FlowInv'
<1>1. ASSUME u # <<>> PROVE Claim(Head(u), Tail(u), conn', ret', req')
  <2>1. Stacked(u) /\ Head(u).fn \in Resumes /\ Ties(f, Head(u)) /\ (f.fn \in Lower => NoAfter(ToSet(u)))
    BY <1>1 DEF Runs
  <2> QED
    BY <1>1, <2>1, Landing
<1>2. Chained(u) /\ Floored(u)
  BY DEF Runs
<1> QED
  BY <1>1, <1>2 DEF FlowInv

LEMMA FlowGoes ==
    ASSUME NEW f, NEW u, Runs(f, u), NEW a, FrameOK(a), stack' = <<a>> \o u, u # <<>> => Ties(a, Head(u)),
           a.fn \in Lower => NoAfter(ToSet(u)), Claim(a, u, conn', ret', req')
    PROVE  FlowInv'
<1>1. Stacked(u) /\ Chained(u) /\ Floored(u) /\ (u # <<>> => Head(u).fn \in Resumes)
  BY DEF Runs
<1>2. a \in AnyFrame
  BY DEF FrameOK
<1>3. Chained(stack') /\ Floored(stack')
  BY <1>1, <1>2, FlowPush
<1>4. Head(stack') = a /\ Tail(stack') = u
  BY <1>1, OnTop
<1> QED
  BY <1>3, <1>4 DEF FlowInv

LEMMA FlowCalls ==
    ASSUME NEW f, NEW u, Runs(f, u), NEW a, FrameOK(a), NEW b, FrameOK(b), b.fn \in Resumes,
           stack' = <<a, b>> \o u, Ties(a, b), u # <<>> => Ties(b, Head(u)),
           a.fn \in Lower \/ b.fn \in Lower => NoAfter(ToSet(u)), a.fn \in Lower => b.fn \notin After,
           NEW w, w = <<b>> \o u, Claim(a, w, conn', ret', req')
    PROVE  FlowInv'
<1>1. Stacked(u) /\ Chained(u) /\ Floored(u) /\ (u # <<>> => Head(u).fn \in Resumes)
  BY DEF Runs
<1>2. a \in AnyFrame /\ b \in AnyFrame
  BY DEF FrameOK
<1>3. Chained(w) /\ Floored(w)
  BY <1>1, <1>2, FlowPush
<1>4. Stacked(w) /\ w # <<>> /\ Head(w) = b /\ Tail(w) = u
  BY <1>1, OnTop
<1>5. ToSet(w) = {b} \cup ToSet(u)
  BY <1>4, Members
<1>6. a.fn \in Lower => NoAfter(ToSet(w))
  BY <1>5 DEF NoAfter
<1>7. stack' = <<a>> \o w
  BY <1>1, Cons2
<1>8. Chained(stack') /\ Floored(stack')
  BY <1>2, <1>3, <1>4, <1>6, <1>7, FlowPush
<1>9. Head(stack') = a /\ Tail(stack') = w
  BY <1>4, <1>7, OnTop
<1> QED
  BY <1>8, <1>9 DEF FlowInv

\* the frames below a call
LEMMA CallFrames ==
    ASSUME NEW u, Stacked(u), u # <<>> => Head(u).fn \in Resumes, NEW b, FrameOK(b), NEW w, w = <<b>> \o u
    PROVE  w # <<>> /\ Head(w) = b /\ Tail(w) = u /\ ToSet(w) = {b} \cup ToSet(u)
<1>1. Stacked(w) /\ w # <<>> /\ Head(w) = b /\ Tail(w) = u
  BY OnTop
<1> QED
  BY <1>1, Members

\* Frames that may lie below any function but those that have callers of their own.
Open(g) == g.fn \in After \cup {"onEventDone", "resetStats2"} \/ Zero(g)
Neutral == {"assignReq", "assignReq2", "doWrite", "connError", "connError2", "connectionError",
            "connectionError2", "process", "onEventDone", "resetStats2"}
Recyclers == {"recycleConn", "recycleLoop", "recycleLoop2", "processPending", "processPending2"}

LEMMA NeutralTies ==
    ASSUME NEW f, NEW g, g.fn \in Resumes
    PROVE  /\ f.fn \in Neutral /\ Ties(f, g) => Open(g)
           /\ f.fn \in Neutral \cup Recyclers \cup {"return", "endResponse"} /\ Open(g) => Ties(f, g)
           /\ f.fn \in Recyclers => (Ties(f, g) <=> Open(g) \/ g.fn = "connError")
  BY DEF Neutral, Recyclers, Open, Ties, Zero, After, Resumes

-----------------------------------------------------------------------------
(***************************************************************************)
(* Every step keeps the second part of the invariant.                      *)
(***************************************************************************)

LEMMA StepReturns ==
    ASSUME NEW f, NEW u, Runs(f, u), stack' = u, Owes(f, u, conn', ret'), Settled(conn', req'),
           \A r \in Reqs : Known(queue', req', r) \/ (u # <<>> /\ Handles(Head(u), ret', r))
    PROVE  FlowInv' /\ KnownInv'
<1>1. FlowInv'
  BY FlowReturns
<1>2. u # <<>> => Sure(Head(u), conn', req')
  BY DEF Runs, Sure, Resumes
<1> QED
  BY <1>1, <1>2 DEF KnownInv

LEMMA StepGoes ==
    ASSUME NEW f, NEW u, Runs(f, u), NEW a, FrameOK(a), stack' = <<a>> \o u, u # <<>> => Ties(a, Head(u)),
           a.fn \in Lower => NoAfter(ToSet(u)), Claim(a, u, conn', ret', req'),
           Settled(conn', req'), Sure(a, conn', req'),
           \A r \in Reqs : Known(queue', req', r) \/ Handles(a, ret', r)
    PROVE  FlowInv' /\ KnownInv'
<1>1. FlowInv'
  BY FlowGoes
<1>2. stack' # <<>> /\ Head(stack') = a
  BY OnTop DEF Runs
<1> QED
  BY <1>1, <1>2 DEF KnownInv

LEMMA StepCalls ==
    ASSUME NEW f, NEW u, Runs(f, u), NEW a, FrameOK(a), NEW b, FrameOK(b), b.fn \in Resumes,
           stack' = <<a, b>> \o u, Ties(a, b), u # <<>> => Ties(b, Head(u)),
           a.fn \in Lower \/ b.fn \in Lower => NoAfter(ToSet(u)), a.fn \in Lower => b.fn \notin After,
           NEW w, w = <<b>> \o u, Claim(a, w, conn', ret', req'),
           Settled(conn', req'), Sure(a, conn', req'),
           \A r \in Reqs : Known(queue', req', r) \/ Handles(a, ret', r)
    PROVE  FlowInv' /\ KnownInv'
<1>1. FlowInv'
  BY FlowCalls
<1>2. Stacked(u) /\ (u # <<>> => Head(u).fn \in Resumes)
  BY DEF Runs
<1>3. Stacked(w) /\ w # <<>> /\ Head(w) = b
  BY <1>2, OnTop
<1>4. stack' = <<a>> \o w
  BY <1>2, Cons2
<1>5. stack' # <<>> /\ Head(stack') = a
  BY <1>3, <1>4, OnTop
<1> QED
  BY <1>1, <1>5 DEF KnownInv

\* what is known when a function runs
LEMMA WholeRuns ==
    ASSUME WholeInv, stack # <<>>, NEW f, f = Head(stack), NEW u, u = Tail(stack)
    PROVE  /\ Runs(f, u) /\ Settled(conn, req) /\ Sure(f, conn, req) /\ Types /\ PoolOK(pool)
           /\ Placed(conn, queue, req, pool) /\ Held(f, conn, queue, req, pool) /\ FrameOK(f)
           /\ \A r \in Reqs : Known(queue, req, r) \/ Handles(f, ret, r)
<1>1. Runs(f, u)
  BY FlowRuns DEF WholeInv
<1> QED
  BY <1>1, Running DEF WholeInv, KnownInv, BaseInv

LEMMA ReturnValueStep ==
    ASSUME WholeInv, ReturnValue
    PROVE  FlowInv' /\ KnownInv'
<1>1. PICK f, u : f = Head(stack) /\ u = Tail(stack)
  OBVIOUS
<1>2. stack # <<>> /\ f.fn = "return" /\ stack' = u /\ ret' = f.x /\ UNCHANGED <<conn, req, queue>>
  BY <1>1 DEF ReturnValue, Top, top, Return, lists
<1>3. Runs(f, u) /\ Settled(conn, req) /\ \A r \in Reqs : Known(queue, req, r) \/ Handles(f, ret, r)
  BY <1>1, <1>2, WholeRuns
<1>4. Owes(f, u, conn', ret')
  BY <1>2, <1>3 DEF Runs, Claim, Owes, Lower
<1>5. \A r \in Reqs : Known(queue', req', r)
  BY <1>2, <1>3 DEF Handles, Handlers, Known
<1> QED
  BY <1>2, <1>3, <1>4, <1>5, StepReturns

LEMMA ProcessRequest2Step ==
    ASSUME WholeInv, ProcessRequest2
    PROVE  FlowInv' /\ KnownInv'
<1>1. PICK f, u : f = Head(stack) /\ u = Tail(stack)
  OBVIOUS
<1>2. stack # <<>> /\ f.fn = "processRequest2"
  BY <1>1 DEF ProcessRequest2, Top
<1>3. /\ Runs(f, u) /\ Settled(conn, req) /\ ret \in Rets
      /\ \A r \in Reqs : Known(queue, req, r) \/ Handles(f, ret, r)
  BY <1>1, <1>2, WholeRuns DEF Types
<1>4. ret # 0 => Quiet(ToSet(u), conn) /\ conn[f.c].req = NoReq
  BY <1>2, <1>3 DEF Runs, Claim, After
<1>5. /\ stack' = u /\ ret' = (IF ret > 0 THEN ret ELSE 0) /\ UNCHANGED <<conn, req, queue>>
  BY <1>1, <1>4 DEF ProcessRequest2, top, Return, lists
<1>6. Owes(f, u, conn', ret')
  BY <1>2, <1>3, <1>4, <1>5 DEF Owes, Lower
<1>7. \A r \in Reqs : Known(queue', req', r)
  BY <1>2, <1>3, <1>5 DEF Handles, Handlers, Known
<1> QED
  BY <1>3, <1>5, <1>6, <1>7, StepReturns

LEMMA RecycleLoop2Step ==
    ASSUME WholeInv, RecycleLoop2
    PROVE  FlowInv' /\ KnownInv'
<1>1. PICK f, u : f = Head(stack) /\ u = Tail(stack)
  OBVIOUS
<1>2. stack # <<>> /\ f.fn = "recycleLoop2"
  BY <1>1 DEF RecycleLoop2, Top
<1>3. /\ Runs(f, u) /\ Settled(conn, req)
      /\ \A r \in Reqs : Known(queue, req, r) \/ Handles(f, ret, r)
  BY <1>1, <1>2, WholeRuns
<1>4. ret # 0 => conn[f.c].req = NoReq
  BY <1>2, <1>3 DEF Runs, Claim, After
<1>5. stack' = u /\ UNCHANGED <<conn, req, queue>>
  BY <1>1, <1>4 DEF RecycleLoop2, top, lists
<1>6. Owes(f, u, conn', ret')
  BY <1>2 DEF Owes, Lower
<1>7. \A r \in Reqs : Known(queue', req', r)
  BY <1>2, <1>3, <1>5 DEF Handles, Handlers, Known
<1> QED
  BY <1>3, <1>5, <1>6, <1>7, StepReturns

\* a recycler goes on as another one
LEMMA RecyclerGoes ==
    ASSUME NEW f, NEW u, Runs(f, u), f.fn \in Recyclers, NEW a, FrameOK(a), a.fn \in Recyclers \ After,
           stack' = <<a>> \o u, Settled(conn', req'), \A r \in Reqs : Known(queue', req', r)
    PROVE  FlowInv' /\ KnownInv'
<1>1. NoAfter(ToSet(u)) /\ (u # <<>> => Ties(a, Head(u)))
  BY NeutralTies DEF Runs, Recyclers, Lower
<1>2. Claim(a, u, conn', ret', req') /\ Sure(a, conn', req')
  BY DEF Claim, Sure, Recyclers
<1> QED
  BY <1>1, <1>2, StepGoes

LEMMA ProcessPending2Step ==
    ASSUME WholeInv, ProcessPending2
    PROVE  FlowInv' /\ KnownInv'
<1>1. PICK f, u : f = Head(stack) /\ u = Tail(stack)
  OBVIOUS
<1>2. stack # <<>> /\ f.fn = "processPending2"
  BY <1>1 DEF ProcessPending2, Top
<1>3. /\ Runs(f, u) /\ Settled(conn, req)
      /\ \A r \in Reqs : Known(queue, req, r) \/ Handles(f, ret, r)
  BY <1>1, <1>2, WholeRuns
<1>4. ret # 0 => conn[f.c].req = NoReq
  BY <1>2, <1>3 DEF Runs, Claim, After
<1>5. UNCHANGED <<conn, req, queue, ret>>
  BY <1>1, <1>4 DEF ProcessPending2, top, lists
<1>6. \A r \in Reqs : Known(queue', req', r)
  BY <1>2, <1>3, <1>5 DEF Handles, Handlers, Known
<1>7. CASE ret = 0
  <2>1. PICK a : a = Frame("processPending", NoConn, NoReq, 0)
    OBVIOUS
  <2>2. FrameOK(a) /\ a.fn = "processPending"
    BY <2>1, PendingFrame
  <2>3. stack' = <<a>> \o u
    BY <1>1, <1>7, <2>1 DEF ProcessPending2, Goto
  <2> QED
    BY <1>2, <1>3, <1>5, <1>6, <2>2, <2>3, RecyclerGoes DEF Recyclers, After
<1>8. CASE ret # 0
  <2>1. stack' = u
    BY <1>1, <1>4, <1>8 DEF ProcessPending2, top
  <2>2. Owes(f, u, conn', ret')
    BY <1>2 DEF Owes, Lower
  <2> QED
    BY <1>3, <1>5, <1>6, <2>1, <2>2, StepReturns
<1> QED
  BY <1>7, <1>8

LEMMA ProcessStep ==
    ASSUME WholeInv, Process
    PROVE  FlowInv' /\ KnownInv'
<1>1. PICK f, u : f = Head(stack) /\ u = Tail(stack)
  OBVIOUS
<1>2. stack # <<>> /\ f.fn = "process"
  BY <1>1 DEF Process, Top
<1>3. /\ Runs(f, u) /\ Settled(conn, req) /\ Types /\ FrameOK(f)
      /\ \A r \in Reqs : Known(queue, req, r) \/ Handles(f, ret, r)
  BY <1>1, <1>2, WholeRuns
<1>4. stack' = u /\ UNCHANGED <<conn, queue, ret>> /\ req' = IF ret > 1 THEN [req EXCEPT ![f.r].out = ret] ELSE req
  BY <1>1 DEF Process, top, lists
<1>5. Owes(f, u, conn', ret')
  BY <1>2 DEF Owes, Lower
<1>6. CASE ret > 1
  <2>1. f.r \in Reqs /\ req' = [req EXCEPT ![f.r].out = ret] /\ ret # 0
    BY <1>2, <1>3, <1>4, <1>6 DEF FrameOK, OfReq
  <2>2. \A s \in Reqs : /\ req'[s].proc = req[s].proc /\ req'[s].alive = req[s].alive /\ req'[s].st = req[s].st
                        /\ req'[s].err = req[s].err /\ req'[s].complete = req[s].complete
                        /\ req'[s].out = IF s = f.r THEN ret ELSE req[s].out
    BY <1>3, <2>1 DEF Types, ReqType
  <2>3. Settled(conn', req')
    BY <1>3, <1>4, <2>1, <2>2 DEF Settled
  <2>4. \A r \in Reqs : Known(queue', req', r)
    BY <1>3, <1>4, <2>1, <2>2 DEF Handles, Known
  <2> QED
    BY <1>3, <1>4, <1>5, <2>3, <2>4, StepReturns
<1>7. CASE ~(ret > 1)
  <2>1. req' = req /\ \A r \in Reqs : Known(queue', req', r)
    BY <1>2, <1>3, <1>4, <1>7 DEF Handles, Known
  <2> QED
    BY <1>3, <1>4, <1>5, <2>1, StepReturns
<1> QED
  BY <1>6, <1>7

\* the running function goes round its loop again
LEMMA StepStays ==
    ASSUME NEW f, NEW u, Runs(f, u), stack' = stack, FlowInv, Claim(f, u, conn', ret', req'),
           Settled(conn', req'), Sure(f, conn', req'),
           \A r \in Reqs : Known(queue', req', r) \/ Handles(f, ret', r)
    PROVE  FlowInv' /\ KnownInv'
  BY DEF Runs, FlowInv, KnownInv

LEMMA ProcessRequestStep ==
    ASSUME WholeInv, ProcessRequest
    PROVE  FlowInv' /\ KnownInv'
<1>1. PICK f, u : f = Head(stack) /\ u = Tail(stack)
  OBVIOUS
<1>2. stack # <<>> /\ f.fn = "processRequest"
  BY <1>1 DEF ProcessRequest, Top
<1>3. /\ Runs(f, u) /\ Settled(conn, req) /\ Types /\ PoolOK(pool) /\ Placed(conn, queue, req, pool)
      /\ Held(f, conn, queue, req, pool) /\ FrameOK(f)
      /\ \A s \in Reqs : Known(queue, req, s) \/ Handles(f, ret, s)
  BY <1>1, <1>2, WholeRuns
<1>4. PICK r \in Reqs : r = f.r
  BY <1>2, <1>3 DEF FrameOK, OfReq
<1>5. /\ Quiet(ToSet(u), conn) /\ u # <<>> /\ Head(u).fn \in {"process", "tryRecover2"} /\ Head(u).r = r
      /\ f.x \/ Head(u).fn = "process"
  BY <1>2, <1>3, <1>4 DEF Runs, Claim, Ties
<1>6. \A s \in Reqs : s # r => Known(queue, req, s)
  BY <1>3, <1>4 DEF Handles
<1>7. UNCHANGED <<conn, req>>
  BY DEF ProcessRequest
<1>8. PICK p, g : p = StartPool(worker, pool) /\ g = GetConn(p)
  OBVIOUS
<1>9. Settled(conn', req')
  BY <1>3, <1>7
<1>10. CASE StartWorker(worker).st = "BAD"
  <2>1. stack' = u /\ ret' = SC_503 /\ queue' = queue
    BY <1>1, <1>10 DEF ProcessRequest, Return
  <2>2. Owes(f, u, conn', ret')
    BY <1>2, <1>5, <1>7 DEF Owes, Lower
  <2>3. Handles(Head(u), ret', r)
    BY <1>5, <2>1 DEF Handles, Handlers, SC_503
  <2>4. \A s \in Reqs : Known(queue', req', s) \/ (u # <<>> /\ Handles(Head(u), ret', s))
    BY <1>5, <1>6, <1>7, <2>1, <2>3 DEF Known
  <2> QED
    BY <1>3, <1>9, <2>1, <2>2, <2>4, StepReturns
<1>11. CASE StartWorker(worker).st # "BAD" /\ (f.x \/ queue = <<>>) /\ g.c # NoConn
  <2>1. PICK a, b : a = Frame("assignReq", g.c, r, 0) /\ b = Frame("processRequest2", g.c, r, 0)
    OBVIOUS
  <2>2. stack' = <<a, b>> \o u /\ queue' = queue /\ ret' = ret
    BY <1>1, <1>4, <1>8, <1>11, <2>1 DEF ProcessRequest, Goto, top
  <2>3. g.c \in Conns /\ g.c \notin Busy(pool)
    <3>1. PoolOK(p) /\ Busy(p) = Busy(pool)
      BY <1>3, <1>8, StartPoolOK
    <3>2. Got(p, g)
      BY <1>8, <3>1, GetConnOK
    <3> QED
      BY <1>11, <3>1, <3>2 DEF Got
  <2>4. /\ FrameOK(a) /\ a.fn = "assignReq" /\ a.c = g.c /\ a.r = r
        /\ FrameOK(b) /\ b.fn = "processRequest2" /\ b.c = g.c
    BY <2>1, <2>3, FrameMade, MarkFacts DEF FrameNames, OfConn, OfReq
  <2>5. PICK w : w = <<b>> \o u
    OBVIOUS
  <2>6. ToSet(w) = {b} \cup ToSet(u)
    BY <1>3, <2>4, <2>5, CallFrames DEF Runs
  <2>7. conn[g.c].req = NoReq
    BY <1>3, <2>3 DEF Placed
  <2>8. Quiet(ToSet(w), conn')
    BY <1>5, <1>7, <2>4, <2>6, <2>7 DEF Quiet
  <2>9. Claim(a, w, conn', ret', req') /\ Sure(a, conn', req')
    BY <2>4, <2>8 DEF Claim, After, Sure
  <2>10. Ties(a, b) /\ Ties(b, Head(u))
    BY <1>3, <1>5, <2>4 DEF Ties, Runs, Zero
  <2>11. \A s \in Reqs : Known(queue', req', s) \/ Handles(a, ret', s)
    BY <1>6, <1>7, <2>2, <2>4 DEF Known, Handles, Handlers
  <2>12. a.fn \notin Lower /\ b.fn \notin Lower /\ b.fn \in Resumes
    BY <2>4 DEF Lower, Resumes
  <2> QED
    BY <1>3, <1>9, <2>2, <2>4, <2>5, <2>9, <2>10, <2>11, <2>12, StepCalls
<1>12. CASE StartWorker(worker).st # "BAD" /\ ~((f.x \/ queue = <<>>) /\ g.c # NoConn)
  <2>1. /\ queue' = (IF f.x THEN <<r>> \o queue ELSE Append(queue, r))
        /\ \/ /\ ~f.x /\ ret' = ret
              /\ Goto(<<Frame("processPending", NoConn, NoReq, 0), Frame("return", NoConn, NoReq, 0)>>)
           \/ Return(0)
    BY <1>1, <1>4, <1>8, <1>12 DEF ProcessRequest, top
  <2>2. \A s : Has(queue', s) <=> Has(queue, s) \/ s = r
    BY <1>2, <1>3, <1>4, <2>1, AppendHas, ConsHas DEF Types, Held, Loose
  <2>3. \A s \in Reqs : Known(queue', req', s)
    BY <1>6, <1>7, <2>2 DEF Known
  <2>4. CASE Return(0)
    <3>1. stack' = u /\ ret' = 0
      BY <1>1, <2>4 DEF Return
    <3>2. Owes(f, u, conn', ret')
      BY <1>2, <3>1 DEF Owes
    <3> QED
      BY <1>3, <1>9, <2>3, <3>1, <3>2, StepReturns
  <2>5. CASE ~f.x /\ Goto(<<Frame("processPending", NoConn, NoReq, 0), Frame("return", NoConn, NoReq, 0)>>)
    <3>1. PICK a, b : a = Frame("processPending", NoConn, NoReq, 0) /\ b = Frame("return", NoConn, NoReq, 0)
      OBVIOUS
    <3>2. stack' = <<a, b>> \o u
      BY <1>1, <2>5, <3>1 DEF Goto
    <3>3. FrameOK(a) /\ a.fn = "processPending" /\ FrameOK(b) /\ b.fn = "return" /\ b.x = 0
      BY <3>1, PendingFrame, ReturnFrame, MarkFacts
    <3>4. Head(u).fn = "process"
      BY <1>5, <2>5
    <3>5. NoAfter(ToSet(u))
      BY <1>3, <1>5, <3>4 DEF Runs, NoAfter, Lower, After
    <3>6. Ties(a, b) /\ Ties(b, Head(u))
      BY <1>5, <3>3, <3>4 DEF Ties, Zero
    <3>7. PICK w : w = <<b>> \o u
      OBVIOUS
    <3>8. Claim(a, w, conn', ret', req') /\ Sure(a, conn', req')
      BY <3>3 DEF Claim, After, Sure
    <3>9. b.fn \in Resumes /\ b.fn \notin After
      BY <3>3 DEF Resumes, After
    <3> QED
      BY <1>3, <1>9, <2>3, <3>2, <3>3, <3>5, <3>6, <3>7, <3>8, <3>9, StepCalls
  <2> QED
    BY <2>1, <2>4, <2>5
<1> QED
  BY <1>10, <1>11, <1>12

LEMMA ClosedRest ==
    ASSUME NEW k \in ConnType, AtRest(k)
    PROVE  AtRest(Closed(k))
  BY ClosedOK DEF AtRest

LEMMA SettledOne ==
    ASSUME Settled(conn, req), Types, NEW c \in Conns, NEW e, AtRest(e), NEW dn, dn = [conn EXCEPT ![c] = e]
    PROVE  Settled(dn, req)
  BY DEF Settled, Types

LEMMA RecycleConnStep ==
    ASSUME WholeInv, RecycleConn
    PROVE  FlowInv' /\ KnownInv'
<1>1. PICK f, u : f = Head(stack) /\ u = Tail(stack)
  OBVIOUS
<1>2. stack # <<>> /\ f.fn = "recycleConn"
  BY <1>1 DEF RecycleConn, Top
<1>3. /\ Runs(f, u) /\ Settled(conn, req) /\ Types /\ FrameOK(f)
      /\ \A s \in Reqs : Known(queue, req, s) \/ Handles(f, ret, s)
  BY <1>1, <1>2, WholeRuns
<1>4. PICK c \in Conns : c = f.c
  BY <1>2, <1>3 DEF FrameOK, OfConn
<1>5. UNCHANGED <<queue, req, ret>>
  BY DEF RecycleConn
<1>6. \A s \in Reqs : Known(queue', req', s)
  BY <1>2, <1>3, <1>5 DEF Handles, Handlers, Known
<1>7. conn' = conn \/ conn' = [conn EXCEPT ![c] = Closed(conn[c])]
  BY <1>1, <1>3, <1>4 DEF RecycleConn, top, Types
<1>8. Settled(conn', req')
  <2>1. AtRest(Closed(conn[c]))
    BY <1>3, ClosedRest DEF Types, Settled
  <2> QED
    BY <1>3, <1>5, <1>7, <2>1, SettledOne
<1>9. \/ Goto(<<Frame("processPending", NoConn, NoReq, 0)>>)
      \/ Goto(<<Frame("recycleLoop", c, NoReq, 0)>>)
      \/ stack' = u
  BY <1>1, <1>4 DEF RecycleConn, top
<1>10. CASE stack' = u
  <2>1. Owes(f, u, conn', ret')
    BY <1>2 DEF Owes, Lower
  <2> QED
    BY <1>3, <1>6, <1>8, <1>10, <2>1, StepReturns
<1>11. CASE Goto(<<Frame("processPending", NoConn, NoReq, 0)>>)
  <2>1. PICK a : a = Frame("processPending", NoConn, NoReq, 0)
    OBVIOUS
  <2>2. FrameOK(a) /\ a.fn = "processPending" /\ stack' = <<a>> \o u
    BY <1>1, <1>11, <2>1, PendingFrame DEF Goto
  <2> QED
    BY <1>2, <1>3, <1>6, <1>8, <2>2, RecyclerGoes DEF Recyclers, After
<1>12. CASE Goto(<<Frame("recycleLoop", c, NoReq, 0)>>)
  <2>1. PICK a : a = Frame("recycleLoop", c, NoReq, 0)
    OBVIOUS
  <2>2. FrameOK(a) /\ a.fn = "recycleLoop" /\ stack' = <<a>> \o u
    BY <1>1, <1>12, <2>1, ConnFrame, MarkFacts DEF Goto, OfConn, OfReq
  <2> QED
    BY <1>2, <1>3, <1>6, <1>8, <2>2, RecyclerGoes DEF Recyclers, After
<1> QED
  BY <1>9, <1>10, <1>11, <1>12

\* a recycler gives a waiting request to the connection it has in hand
LEMMA RecyclerAssigns ==
    ASSUME NEW f, NEW u, Runs(f, u), f.fn \in Recyclers, NEW c \in Conns, conn[c].req = NoReq, NEW r \in Reqs,
           NEW fn \in {"recycleLoop2", "processPending2"}, UNCHANGED <<conn, req, ret>>, Settled(conn, req),
           stack' = <<Frame("assignReq", c, r, 0), Frame(fn, c, r, 0)>> \o u,
           \A s \in Reqs : s # r => Known(queue', req', s)
    PROVE  FlowInv' /\ KnownInv'
<1>1. PICK a, b, w : a = Frame("assignReq", c, r, 0) /\ b = Frame(fn, c, r, 0) /\ w = <<b>> \o u
  OBVIOUS
<1>2. FrameOK(a) /\ a.fn = "assignReq" /\ a.c = c /\ a.r = r /\ FrameOK(b) /\ b.fn = fn /\ b.c = c
  BY <1>1, FrameMade, MarkFacts DEF FrameNames, OfConn, OfReq
<1>3. NoAfter(ToSet(u))
  BY DEF Runs, Recyclers, Lower
<1>4. ToSet(w) = {b} \cup ToSet(u)
  BY <1>1, <1>2, CallFrames DEF Runs
<1>5. Quiet(ToSet(w), conn')
  BY <1>2, <1>3, <1>4 DEF Quiet, NoAfter
<1>6. Claim(a, w, conn', ret', req') /\ Sure(a, conn', req')
  BY <1>2, <1>5 DEF Claim, After, Sure
<1>7. b.fn \in Resumes /\ Open(b) /\ a.fn \in Neutral /\ b.fn \in Recyclers /\ a.fn \notin Lower
  BY <1>2 DEF Resumes, Open, After, Neutral, Recyclers, Lower
<1>8. Ties(a, b)
  BY <1>7, NeutralTies
<1>9. u # <<>> => Ties(b, Head(u))
  BY <1>7, NeutralTies DEF Runs
<1>10. \A s \in Reqs : Known(queue', req', s) \/ Handles(a, ret', s)
  BY <1>2 DEF Handles, Handlers
<1>11. Settled(conn', req')
  OBVIOUS
<1> QED
  BY <1>1, <1>2, <1>3, <1>6, <1>7, <1>8, <1>9, <1>10, <1>11, StepCalls

\* the first of the queue is taken out
LEMMA TakenOut ==
    ASSUME Types, queue # <<>>, queue' = Tail(queue), req' = req, \A s \in Reqs : Known(queue, req, s)
    PROVE  /\ Head(queue) \in Reqs /\ \A s \in Reqs : s # Head(queue) => Known(queue', req', s)
           /\ ~req[Head(queue)].alive => \A s \in Reqs : Known(queue', req', s)
<1>1. queue \in Seq(Reqs) /\ Once(queue)
  BY DEF Types
<1>2. Head(queue) \in Reqs /\ \A s : Has(queue, s) => Has(Tail(queue), s) \/ s = Head(queue)
  BY <1>1, TailHas
<1>3. \A s \in Reqs : s # Head(queue) => Known(queue', req', s)
  BY <1>2 DEF Known
<1> QED
  BY <1>2, <1>3 DEF Known

LEMMA RecycleLoopStep ==
    ASSUME WholeInv, RecycleLoop
    PROVE  FlowInv' /\ KnownInv'
<1>1. PICK f, u : f = Head(stack) /\ u = Tail(stack)
  OBVIOUS
<1>2. stack # <<>> /\ f.fn = "recycleLoop" /\ FlowInv
  BY <1>1 DEF RecycleLoop, Top, WholeInv
<1>3. /\ Runs(f, u) /\ Settled(conn, req) /\ Types /\ FrameOK(f) /\ Held(f, conn, queue, req, pool)
      /\ Sure(f, conn, req)
      /\ \A s \in Reqs : Known(queue, req, s) \/ Handles(f, ret, s)
  BY <1>1, <1>2, WholeRuns
<1>4. PICK c \in Conns : c = f.c
  BY <1>2, <1>3 DEF FrameOK, OfConn
<1>5. UNCHANGED <<conn, req, ret>>
  BY DEF RecycleLoop
<1>6. \A s \in Reqs : Known(queue, req, s)
  BY <1>2, <1>3 DEF Handles, Handlers
<1>7. CASE queue = <<>>
  <2>1. stack' = u /\ queue' = queue
    BY <1>1, <1>7 DEF RecycleLoop
  <2>2. Owes(f, u, conn', ret')
    BY <1>2 DEF Owes, Lower
  <2> QED
    BY <1>3, <1>5, <1>6, <2>1, <2>2, StepReturns
<1>8. CASE queue # <<>> /\ req[Head(queue)].alive
  <2>1. PICK r : r = Head(queue)
    OBVIOUS
  <2>2. queue' = Tail(queue) /\ stack' = <<Frame("assignReq", c, r, 0), Frame("recycleLoop2", c, r, 0)>> \o u
    BY <1>1, <1>4, <1>8, <2>1 DEF RecycleLoop, Goto, top
  <2>3. r \in Reqs /\ \A s \in Reqs : s # r => Known(queue', req', s)
    BY <1>3, <1>5, <1>6, <1>8, <2>1, <2>2, TakenOut
  <2>4. conn[c].req = NoReq
    BY <1>2, <1>3, <1>4 DEF Held, Idle
  <2>5. f.fn \in Recyclers
    BY <1>2 DEF Recyclers
  <2> QED
    BY <1>3, <1>5, <2>2, <2>3, <2>4, <2>5, RecyclerAssigns
<1>9. CASE queue # <<>> /\ ~req[Head(queue)].alive
  <2>1. queue' = Tail(queue) /\ stack' = stack
    BY <1>9 DEF RecycleLoop
  <2>2. \A s \in Reqs : Known(queue', req', s)
    BY <1>3, <1>5, <1>6, <1>9, <2>1, TakenOut
  <2>3. Claim(f, u, conn', ret', req') /\ Sure(f, conn', req') /\ Settled(conn', req')
    BY <1>3, <1>5 DEF Runs
  <2> QED
    BY <1>2, <1>3, <2>1, <2>2, <2>3, StepStays
<1> QED
  BY <1>7, <1>8, <1>9

LEMMA ProcessPendingStep ==
    ASSUME WholeInv, ProcessPending
    PROVE  FlowInv' /\ KnownInv'
<1>1. PICK f, u : f = Head(stack) /\ u = Tail(stack)
  OBVIOUS
<1>2. stack # <<>> /\ f.fn = "processPending"
  BY <1>1 DEF ProcessPending, Top
<1>3. /\ Runs(f, u) /\ Settled(conn, req) /\ Types /\ FrameOK(f) /\ Held(f, conn, queue, req, pool)
      /\ PoolOK(pool) /\ Placed(conn, queue, req, pool)
      /\ \A s \in Reqs : Known(queue, req, s) \/ Handles(f, ret, s)
  BY <1>1, <1>2, WholeRuns
<1>4. UNCHANGED <<conn, req, ret>> /\ Settled(conn', req')
  BY <1>3 DEF ProcessPending
<1>5. \A s \in Reqs : Known(queue, req, s)
  BY <1>2, <1>3 DEF Handles, Handlers
<1>6. PICK g : g = IF f.c = NoConn THEN GetConn(pool) ELSE [c |-> f.c, p |-> pool]
  OBVIOUS
<1>7. f.fn \in Recyclers
  BY <1>2 DEF Recyclers
<1>8. Owes(f, u, conn', ret')
  BY <1>2 DEF Owes, Lower
<1>9. CASE queue = <<>> \/ g.c = NoConn
  <2>1. stack' = u /\ queue' = queue
    BY <1>1, <1>6, <1>9 DEF ProcessPending, top
  <2> QED
    BY <1>3, <1>4, <1>5, <1>8, <2>1, StepReturns
<1>10. CASE queue # <<>> /\ g.c # NoConn
  <2>1. PICK r, c : r = Head(queue) /\ c = g.c
    OBVIOUS
  <2>2. /\ queue' = Tail(queue)
        /\ IF req[r].alive
           THEN Goto(<<Frame("assignReq", c, r, 0), Frame("processPending2", c, r, 0)>>)
           ELSE Goto(<<Frame("processPending", c, NoReq, 0)>>)
    BY <1>1, <1>6, <1>10, <2>1 DEF ProcessPending, top
  <2>3. /\ r \in Reqs /\ \A s \in Reqs : s # r => Known(queue', req', s)
        /\ ~req[r].alive => \A s \in Reqs : Known(queue', req', s)
    BY <1>3, <1>4, <1>5, <1>10, <2>1, <2>2, TakenOut
  <2>4. c \in Conns /\ conn[c].req = NoReq
    <3>1. CASE f.c = NoConn
      <4>1. g = GetConn(pool)
        BY <1>6, <3>1
      <4>2. Got(pool, g)
        BY <1>3, <4>1, GetConnOK
      <4>3. c \in Conns /\ c \notin Busy(pool)
        BY <1>10, <2>1, <4>2 DEF Got
      <4> QED
        BY <1>3, <4>3 DEF Placed
    <3>2. CASE f.c # NoConn
      <4>1. c = f.c /\ f.c \in Conns
        BY <1>3, <1>6, <2>1, <3>2 DEF FrameOK, AnyFrame
      <4> QED
        BY <1>2, <1>3, <3>2, <4>1 DEF Held, Idle
    <3> QED
      BY <3>1, <3>2
  <2>5. CASE req[r].alive
    <3>1. stack' = <<Frame("assignReq", c, r, 0), Frame("processPending2", c, r, 0)>> \o u
      BY <1>1, <2>2, <2>5 DEF Goto
    <3> QED
      BY <1>3, <1>4, <1>7, <2>3, <2>4, <3>1, RecyclerAssigns
  <2>6. CASE ~req[r].alive
    <3>1. PICK a : a = Frame("processPending", c, NoReq, 0)
      OBVIOUS
    <3>2. FrameOK(a) /\ a.fn = "processPending" /\ stack' = <<a>> \o u
      BY <1>1, <2>2, <2>4, <2>6, <3>1, PendingFrame DEF Goto
    <3> QED
      BY <1>3, <1>4, <1>7, <2>3, <2>6, <3>2, RecyclerGoes DEF Recyclers, After
  <2> QED
    BY <2>5, <2>6
<1> QED
  BY <1>9, <1>10

\* a neutral function goes on as another one on its connection, or calls connectEx()
LEMMA NeutralGoes ==
    ASSUME NEW f, NEW u, Runs(f, u), f.fn \in Neutral, NEW fn \in {"doWrite", "connError", "connectionError"},
           NEW c \in Conns, NEW x \in Marks, stack' = <<Frame(fn, c, NoReq, x)>> \o u, Only(ToSet(u), conn', c),
           Settled(conn', req'), \A s \in Reqs : Known(queue', req', s),
           fn = "doWrite" => conn'[c].st = "PROCESSING", fn = "connectionError" => conn'[c].st = "DISCONNECTED"
    PROVE  FlowInv' /\ KnownInv'
<1>1. PICK a : a = Frame(fn, c, NoReq, x)
  OBVIOUS
<1>2. FrameOK(a) /\ a.fn = fn /\ a.c = c
  BY <1>1, ConnFrame DEF OfConn, OfReq
<1>3. Claim(a, u, conn', ret', req') /\ Sure(a, conn', req')
  BY <1>2 DEF Claim, After, Sure
<1>4. a.fn \in Neutral /\ a.fn \notin Lower
  BY <1>2 DEF Neutral, Lower
<1>5. u # <<>> => Ties(a, Head(u))
  BY <1>4, NeutralTies DEF Runs
<1> QED
  BY <1>1, <1>2, <1>3, <1>4, <1>5, StepGoes

LEMMA NeutralConnects ==
    ASSUME NEW f, NEW u, Runs(f, u), f.fn \in Neutral, NEW fn \in {"assignReq2", "connError2"},
           NEW c \in Conns, NEW x \in Marks,
           stack' = <<Frame("connectEx", c, NoReq, 0), Frame(fn, c, NoReq, x)>> \o u, Only(ToSet(u), conn', c),
           Settled(conn', req'), \A s \in Reqs : Known(queue', req', s)
    PROVE  FlowInv' /\ KnownInv'
<1>1. PICK a, b, w : a = Frame("connectEx", c, NoReq, 0) /\ b = Frame(fn, c, NoReq, x) /\ w = <<b>> \o u
  OBVIOUS
<1>2. FrameOK(a) /\ a.fn = "connectEx" /\ a.c = c
  BY <1>1, ConnFrame, MarkFacts DEF OfConn, OfReq
<1>3. FrameOK(b) /\ b.fn = fn /\ b.c = c
  BY <1>1, ConnFrame DEF OfConn, OfReq
<1>4. ToSet(w) = {b} \cup ToSet(u)
  BY <1>1, <1>3, CallFrames DEF Runs
<1>5. Only(ToSet(w), conn', c)
  BY <1>3, <1>4 DEF Only, After
<1>6. Claim(a, w, conn', ret', req') /\ Sure(a, conn', req')
  BY <1>2, <1>5 DEF Claim, After, Sure
<1>7. b.fn \in Resumes /\ b.fn \in Neutral /\ a.fn \notin Lower /\ b.fn \notin Lower
  BY <1>2, <1>3 DEF Resumes, Neutral, Lower
<1>8. u # <<>> => Ties(b, Head(u))
  BY <1>7, NeutralTies DEF Runs
<1>9. Ties(a, b)
  BY <1>2, <1>3 DEF Ties
<1> QED
  BY <1>1, <1>2, <1>3, <1>6, <1>7, <1>8, <1>9, StepCalls

LEMMA AssignReqStep ==
    ASSUME WholeInv, AssignReq
    PROVE  FlowInv' /\ KnownInv'
<1>1. PICK f, u : f = Head(stack) /\ u = Tail(stack)
  OBVIOUS
<1>2. stack # <<>> /\ f.fn = "assignReq"
  BY <1>1 DEF AssignReq, Top
<1>3. /\ Runs(f, u) /\ Settled(conn, req) /\ Types /\ FrameOK(f)
      /\ \A s \in Reqs : Known(queue, req, s) \/ Handles(f, ret, s)
  BY <1>1, <1>2, WholeRuns
<1>4. PICK c \in Conns, r \in Reqs : c = f.c /\ r = f.r
  BY <1>2, <1>3 DEF FrameOK, OfConn, OfReq
<1>5. PICK k : k = IF conn[c].st \in {"ABORT", "CLOSING"} THEN Closed(conn[c]) ELSE conn[c]
  OBVIOUS
<1>6. k \in ConnType /\ AtRest(k)
  BY <1>3, <1>5, ClosedOK, ClosedRest DEF Types, Settled
<1>7. PICK e : e = [k EXCEPT !.req = r, !.sent = FALSE]
  OBVIOUS
<1>8. e.req = r /\ e.st = k.st /\ e.inProcess = k.inProcess
  BY <1>6, <1>7 DEF ConnType
<1>9. AtRest(e)
  BY <1>6, <1>8, ConnAssumption DEF AtRest
<1>10. /\ conn' = [conn EXCEPT ![c] = e] /\ req' = [req EXCEPT ![r].proc = c] /\ queue' = queue
       /\ \/ k.st = "PROCESSING" /\ Goto(<<Frame("doWrite", c, NoReq, 0)>>)
          \/ Return(0)
          \/ Goto(<<Frame("connectEx", c, NoReq, 0), Frame("assignReq2", c, NoReq, 0)>>)
  BY <1>1, <1>4, <1>5, <1>7 DEF AssignReq, top, lists
<1>11. conn'[c] = e /\ \A d \in Conns : d # c => conn'[d] = conn[d]
  BY <1>3, <1>10 DEF Types
<1>12. \A s \in Reqs : /\ req'[s].alive = req[s].alive /\ req'[s].st = req[s].st
                       /\ req'[s].err = req[s].err /\ req'[s].complete = req[s].complete
                       /\ req'[s].out = req[s].out
                       /\ req'[s].proc = IF s = r THEN c ELSE req[s].proc
  BY <1>3, <1>10 DEF Types, ReqType
<1>13. Settled(conn', req')
  BY <1>3, <1>9, <1>11, <1>12 DEF Settled
<1>14. \A s \in Reqs : Known(queue', req', s)
  BY <1>3, <1>4, <1>10, <1>12, ConnAssumption DEF Known, Handles
<1>15. Only(ToSet(u), conn', c)
  <2>1. Quiet(ToSet(u), conn)
    BY <1>2, <1>3 DEF Runs, Claim
  <2>2. \A g \in ToSet(u) : g.fn \in After => g.c \in Conns
    BY <1>3 DEF Runs, FrameOK, OfConn, After
  <2> QED
    BY <1>11, <2>1, <2>2 DEF Quiet, Only
<1>16. f.fn \in Neutral /\ 0 \in Marks
  BY <1>2, MarkFacts DEF Neutral
<1>17. CASE k.st = "PROCESSING" /\ Goto(<<Frame("doWrite", c, NoReq, 0)>>)
  <2>1. stack' = <<Frame("doWrite", c, NoReq, 0)>> \o u /\ conn'[c].st = "PROCESSING"
    BY <1>1, <1>8, <1>11, <1>17 DEF Goto
  <2> QED
    BY <1>3, <1>13, <1>14, <1>15, <1>16, <2>1, NeutralGoes
<1>18. CASE Return(0)
  <2>1. stack' = u /\ ret' = 0
    BY <1>1, <1>18 DEF Return
  <2>2. Owes(f, u, conn', ret')
    BY <1>2, <2>1 DEF Owes
  <2> QED
    BY <1>3, <1>13, <1>14, <2>1, <2>2, StepReturns
<1>19. CASE Goto(<<Frame("connectEx", c, NoReq, 0), Frame("assignReq2", c, NoReq, 0)>>)
  <2>1. stack' = <<Frame("connectEx", c, NoReq, 0), Frame("assignReq2", c, NoReq, 0)>> \o u
    BY <1>1, <1>19 DEF Goto
  <2> QED
    BY <1>3, <1>13, <1>14, <1>15, <1>16, <2>1, NeutralConnects
<1> QED
  BY <1>10, <1>17, <1>18, <1>19

LEMMA AssignReq2Step ==
    ASSUME WholeInv, AssignReq2
    PROVE  FlowInv' /\ KnownInv'
<1>1. PICK f, u : f = Head(stack) /\ u = Tail(stack)
  OBVIOUS
<1>2. stack # <<>> /\ f.fn = "assignReq2"
  BY <1>1 DEF AssignReq2, Top
<1>3. /\ Runs(f, u) /\ Settled(conn, req) /\ Types /\ FrameOK(f)
      /\ \A s \in Reqs : Known(queue, req, s) \/ Handles(f, ret, s)
  BY <1>1, <1>2, WholeRuns
<1>4. PICK c \in Conns : c = f.c
  BY <1>2, <1>3 DEF FrameOK, OfConn
<1>5. UNCHANGED <<conn, req, queue>>
  BY DEF AssignReq2, lists
<1>6. Settled(conn', req') /\ \A s \in Reqs : Known(queue', req', s)
  BY <1>2, <1>3, <1>5 DEF Handles, Handlers, Known
<1>7. CASE ret = LS_FAIL
  <2>1. stack' = <<Frame("connError", c, NoReq, errno)>> \o u
    BY <1>1, <1>4, <1>7 DEF AssignReq2, Goto, top
  <2>2. Only(ToSet(u), conn', c)
    BY <1>2, <1>3, <1>4, <1>5, <1>7 DEF Runs, Claim, LS_FAIL
  <2>3. f.fn \in Neutral /\ errno \in Marks
    BY <1>2, <1>3, MarkFacts DEF Neutral, Types
  <2> QED
    BY <1>3, <1>6, <2>1, <2>2, <2>3, NeutralGoes
<1>8. CASE ret # LS_FAIL
  <2>1. stack' = u /\ ret' = 0
    BY <1>1, <1>8 DEF AssignReq2, Return
  <2>2. Owes(f, u, conn', ret')
    BY <1>2, <2>1 DEF Owes
  <2> QED
    BY <1>3, <1>6, <2>1, <2>2, StepReturns
<1> QED
  BY <1>7, <1>8

LEMMA Same2Freed ==
    ASSUME NEW cn, NEW dn, SameConns(cn, dn)
    PROVE  Freed(cn, dn)
  BY DEF SameConns, Freed

LEMMA ConnectExStep ==
    ASSUME WholeInv, ConnectEx
    PROVE  FlowInv' /\ KnownInv'
<1>1. PICK f, u : f = Head(stack) /\ u = Tail(stack)
  OBVIOUS
<1>2. stack # <<>> /\ f.fn = "connectEx"
  BY <1>1 DEF ConnectEx, Top
<1>3. /\ Runs(f, u) /\ Settled(conn, req) /\ Types /\ FrameOK(f)
      /\ \A s \in Reqs : Known(queue, req, s) \/ Handles(f, ret, s)
  BY <1>1, <1>2, WholeRuns
<1>4. PICK c \in Conns : c = f.c
  BY <1>2, <1>3 DEF FrameOK, OfConn
<1>5. PICK h : h = Closed(conn[c])
  OBVIOUS
<1>6. h \in ConnType /\ h.req = conn[c].req /\ h.st = "DISCONNECTED" /\ AtRest(h)
  BY <1>3, <1>5, ClosedOK, ClosedRest DEF Types, Settled
<1>7. PICK k : k = [h EXCEPT !.toClose = FALSE, !.used = FALSE]
  OBVIOUS
<1>8. k \in ConnType /\ k.req = conn[c].req /\ ~k.inProcess
  <2>1. k \in ConnType /\ k.req = h.req /\ k.inProcess = h.inProcess
    BY <1>6, <1>7 DEF ConnType
  <2> QED
    BY <1>6, <2>1 DEF AtRest
<1>9. PICK e1, e2 : /\ e1 = [k EXCEPT !.st = "PROCESSING", !.used = TRUE, !.sent = FALSE]
                    /\ e2 = [k EXCEPT !.st = "CONNECTING", !.used = TRUE, !.sent = FALSE]
  OBVIOUS
<1>10. /\ e1 \in ConnType /\ e1.req = conn[c].req /\ e1.st = "PROCESSING" /\ e1.inProcess = k.inProcess
       /\ e2 \in ConnType /\ e2.req = conn[c].req /\ e2.inProcess = k.inProcess
  BY <1>8, <1>9 DEF ConnType, ConnStates
<1>11. /\ UNCHANGED <<req, queue>>
       /\ \/ /\ conn' = [conn EXCEPT ![c] = e1]
             /\ Goto(<<Frame("doWrite", c, NoReq, 0), Frame("return", NoConn, NoReq, 0)>>)
          \/ conn' = [conn EXCEPT ![c] = e2] /\ Return(0)
          \/ conn' = [conn EXCEPT ![c] = k] /\ Return(LS_FAIL)
  BY <1>1, <1>4, <1>5, <1>7, <1>9 DEF ConnectEx, top, lists
<1>12. PICK e \in {e1, e2, k} : conn' = [conn EXCEPT ![c] = e]
  BY <1>11
<1>13. e \in ConnType /\ e.req = conn[c].req /\ ~e.inProcess
  BY <1>8, <1>10
<1>14. SameConns(conn, conn')
  BY <1>3, <1>12, <1>13, OneConn
<1>15. Settled(conn', req')
  <2>1. AtRest(e)
    BY <1>13 DEF AtRest
  <2> QED
    BY <1>3, <1>11, <1>12, <2>1, SettledOne
<1>16. \A s \in Reqs : Known(queue', req', s)
  BY <1>2, <1>3, <1>11 DEF Handles, Handlers, Known
<1>17. Only(ToSet(u), conn', c)
  <2>1. Only(ToSet(u), conn, c) /\ \A g \in ToSet(u) : FrameOK(g)
    BY <1>2, <1>3, <1>4 DEF Runs, Claim
  <2> QED
    BY <1>14, <2>1, SaidLater, Same2Freed
<1>18. CASE Return(0) \/ Return(LS_FAIL)
  <2>1. stack' = u /\ ret' \in {0, LS_FAIL}
    BY <1>1, <1>18 DEF Return
  <2>2. Owes(f, u, conn', ret')
    BY <1>2, <1>4, <1>17, <2>1 DEF Owes
  <2> QED
    BY <1>3, <1>15, <1>16, <2>1, <2>2, StepReturns
<1>19. CASE conn' = [conn EXCEPT ![c] = e1] /\
            Goto(<<Frame("doWrite", c, NoReq, 0), Frame("return", NoConn, NoReq, 0)>>)
  <2>1. PICK a, b, w : /\ a = Frame("doWrite", c, NoReq, 0) /\ b = Frame("return", NoConn, NoReq, 0)
                       /\ w = <<b>> \o u
    OBVIOUS
  <2>2. stack' = <<a, b>> \o u
    BY <1>1, <1>19, <2>1 DEF Goto
  <2>3. FrameOK(a) /\ a.fn = "doWrite" /\ a.c = c /\ FrameOK(b) /\ b.fn = "return" /\ b.x = 0
    BY <2>1, ConnFrame, ReturnFrame, MarkFacts DEF OfConn, OfReq
  <2>4. ToSet(w) = {b} \cup ToSet(u)
    <3>1. Stacked(u) /\ (u # <<>> => Head(u).fn \in Resumes) /\ w = <<b>> \o u /\ FrameOK(b)
      BY <1>3, <2>1, <2>3 DEF Runs
    <3> QED
      BY <3>1, CallFrames
  <2>5. Only(ToSet(w), conn', c)
    BY <1>17, <2>3, <2>4 DEF Only, After
  <2>6. conn'[c].st = "PROCESSING"
    BY <1>3, <1>10, <1>19 DEF Types
  <2>7. Claim(a, w, conn', ret', req') /\ Sure(a, conn', req')
    BY <2>3, <2>5, <2>6 DEF Claim, After, Sure
  <2>8. Ties(a, b) /\ (u # <<>> => Ties(b, Head(u)))
    BY <1>2, <1>3, <2>3 DEF Ties, Zero, Runs
  <2>9. b.fn \in Resumes /\ a.fn \notin Lower /\ b.fn \notin Lower
    BY <2>3 DEF Resumes, Lower
  <2> QED
    BY <1>3, <1>15, <1>16, <2>1, <2>2, <2>3, <2>7, <2>8, <2>9, StepCalls
<1> QED
  BY <1>11, <1>18, <1>19

LEMMA DoWriteStep ==
    ASSUME WholeInv, DoWrite
    PROVE  FlowInv' /\ KnownInv'
<1>1. PICK f, u : f = Head(stack) /\ u = Tail(stack)
  OBVIOUS
<1>2. stack # <<>> /\ f.fn = "doWrite"
  BY <1>1 DEF DoWrite, Top
<1>3. /\ Runs(f, u) /\ Settled(conn, req) /\ Types /\ FrameOK(f) /\ Placed(conn, queue, req, pool)
      /\ Sure(f, conn, req)
      /\ \A s \in Reqs : Known(queue, req, s) \/ Handles(f, ret, s)
  BY <1>1, <1>2, WholeRuns
<1>4. PICK c \in Conns : c = f.c
  BY <1>2, <1>3 DEF FrameOK, OfConn
<1>5. PICK k \in ConnType : k = conn[c]
  BY <1>3 DEF Types
<1>6. PICK r : r = k.req
  OBVIOUS
<1>7. \A s \in Reqs : Known(queue, req, s)
  BY <1>2, <1>3 DEF Handles, Handlers
<1>8. queue' = queue
  BY DEF DoWrite, lists
<1>9. CASE r = NoReq \/ req[r].hec = "resp"
  <2>1. stack' = u /\ ret' = 0 /\ UNCHANGED <<conn, req>>
    BY <1>1, <1>4, <1>5, <1>6, <1>9 DEF DoWrite, top, Return
  <2>2. Owes(f, u, conn', ret')
    BY <1>2, <2>1 DEF Owes
  <2> QED
    BY <1>3, <1>7, <1>8, <2>1, <2>2, StepReturns
<1>10. CASE ~(r = NoReq \/ req[r].hec = "resp")
  <2>1. r \in Reqs /\ req[r] \in ReqType
    BY <1>3, <1>5, <1>6, <1>10, Carried
  <2>2. PICK hec \in {"fwd", "resp"} :
             /\ req' = [req EXCEPT ![r].hec = hec]
             /\ conn' = [conn EXCEPT ![c].inProcess = TRUE, ![c].sent = (hec = "resp")]
             /\ \/ Return(0)
                \/ \E e \in IoErrnos : Goto(<<Frame("connError", c, NoReq, e)>>)
    BY <1>1, <1>4, <1>5, <1>6, <1>10 DEF DoWrite, top
  <2>3. PICK b \in BOOLEAN : b = (hec = "resp")
    OBVIOUS
  <2>4. PICK e : e = [k EXCEPT !.inProcess = TRUE, !.sent = b]
    OBVIOUS
  <2>5. e \in ConnType /\ e.req = k.req /\ e.st = k.st
    BY <2>4 DEF ConnType
  <2>6. conn' = [conn EXCEPT ![c] = e]
    BY <1>3, <1>5, <2>2, <2>3, <2>4 DEF Types
  <2>7. SameConns(conn, conn')
    BY <1>3, <1>5, <2>5, <2>6, OneConn
  <2>8. k.st = "PROCESSING"
    BY <1>2, <1>3, <1>4, <1>5 DEF Sure
  <2>9. AtRest(e)
    BY <1>6, <1>10, <2>5, <2>8 DEF AtRest
  <2>10. \A s \in Reqs : /\ req'[s].proc = req[s].proc /\ req'[s].alive = req[s].alive /\ req'[s].st = req[s].st
                         /\ req'[s].err = req[s].err /\ req'[s].complete = req[s].complete
                         /\ req'[s].out = req[s].out
    BY <1>3, <2>1, <2>2 DEF Types, ReqType
  <2>11. Settled(conn', req')
    <3>1. Settled(conn', req)
      BY <1>3, <2>6, <2>9, SettledOne
    <3> QED
      BY <2>10, <3>1 DEF Settled
  <2>12. \A s \in Reqs : Known(queue', req', s)
    BY <1>7, <1>8, <2>10 DEF Known
  <2>13. Only(ToSet(u), conn', c)
    <3>1. Only(ToSet(u), conn, c) /\ \A g \in ToSet(u) : FrameOK(g)
      BY <1>2, <1>3, <1>4 DEF Runs, Claim
    <3> QED
      BY <2>7, <3>1, SaidLater, Same2Freed
  <2>14. CASE Return(0)
    <3>1. stack' = u /\ ret' = 0
      BY <1>1, <2>14 DEF Return
    <3>2. Owes(f, u, conn', ret')
      BY <1>2, <3>1 DEF Owes
    <3> QED
      BY <1>3, <2>11, <2>12, <3>1, <3>2, StepReturns
  <2>15. ASSUME NEW x \in IoErrnos, Goto(<<Frame("connError", c, NoReq, x)>>)
         PROVE  FlowInv' /\ KnownInv'
    <3>1. stack' = <<Frame("connError", c, NoReq, x)>> \o u /\ x \in Marks /\ f.fn \in Neutral
      BY <1>1, <1>2, <2>15, MarkFacts DEF Goto, Neutral
    <3> QED
      BY <1>3, <2>11, <2>12, <2>13, <3>1, NeutralGoes
  <2> QED
    BY <2>2, <2>14, <2>15
<1> QED
  BY <1>9, <1>10

\* resetConnector(), with the attempts counted
LEMMA Retried ==
    ASSUME NEW q \in ReqType, NEW n \in Nat, NEW u, u = [ResetConnector(q) EXCEPT !.attempts = n]
    PROVE  /\ u \in ReqType /\ ~u.err /\ ~u.complete /\ u.out = q.out /\ u.alive = q.alive
           /\ u.proc = q.proc /\ u.st = q.st
<1>1. PICK v : v = ResetConnector(q)
  OBVIOUS
<1>2. /\ v \in ReqType /\ v.proc = q.proc /\ v.st = q.st /\ ~v.complete /\ ~v.err
      /\ v.out = q.out /\ v.alive = q.alive
  BY <1>1, ResetOK
<1>3. u = [v EXCEPT !.attempts = n]
  BY <1>1
<1>4. /\ u \in ReqType /\ u.proc = v.proc /\ u.st = v.st /\ u.complete = v.complete /\ u.err = v.err
      /\ u.out = v.out /\ u.alive = v.alive
  BY ONLY <1>2, <1>3, n \in Nat DEF ReqType
<1> QED
  BY <1>2, <1>4

LEMMA ConnErrorStep ==
    ASSUME WholeInv, ConnError
    PROVE  FlowInv' /\ KnownInv'
<1>1. PICK f, u : f = Head(stack) /\ u = Tail(stack)
  OBVIOUS
<1>2. stack # <<>> /\ f.fn = "connError"
  BY <1>1 DEF ConnError, Top
<1>3. /\ Runs(f, u) /\ Settled(conn, req) /\ Types /\ FrameOK(f) /\ Placed(conn, queue, req, pool)
      /\ \A s \in Reqs : Known(queue, req, s) \/ Handles(f, ret, s)
  BY <1>1, <1>2, WholeRuns
<1>4. PICK c \in Conns, x \in Marks : c = f.c /\ x = f.x
  BY <1>2, <1>3 DEF FrameOK, OfConn, AnyFrame
<1>5. \A s \in Reqs : Known(queue, req, s)
  BY <1>2, <1>3 DEF Handles, Handlers
<1>6. queue' = queue /\ f.fn \in Neutral
  BY <1>2 DEF ConnError, lists, Neutral
<1>7. CASE x = "intr"
  <2>1. stack' = u /\ ret' = 0 /\ UNCHANGED <<conn, req>>
    BY <1>1, <1>4, <1>7 DEF ConnError, top, Return
  <2>2. Owes(f, u, conn', ret')
    BY <1>2, <2>1 DEF Owes
  <2> QED
    BY <1>3, <1>5, <1>6, <2>1, <2>2, StepReturns
<1>8. CASE x # "intr"
  <2>1. PICK e : e = Closed(conn[c])
    OBVIOUS
  <2>2. e \in ConnType /\ e.req = conn[c].req /\ e.st = "DISCONNECTED" /\ AtRest(e)
    BY <1>3, <2>1, ClosedOK, ClosedRest DEF Types, Settled
  <2>3. /\ conn' = [conn EXCEPT ![c] = e]
        /\ \/ /\ conn[c].req # NoReq
              /\ req' = [req EXCEPT ![conn[c].req] =
                           [ResetConnector(req[conn[c].req]) EXCEPT !.attempts = @ + 1]]
              /\ Goto(<<Frame("connectEx", c, NoReq, 0), Frame("connError2", c, NoReq, x)>>)
           \/ Goto(<<Frame("connectionError", c, NoReq, x)>>) /\ req' = req
    BY <1>1, <1>3, <1>4, <1>8, <2>1 DEF ConnError, top, Types
  <2>4. SameConns(conn, conn') /\ conn'[c] = e
    <3>1. SameConns(conn, conn')
      BY <1>3, <2>2, <2>3, OneConn
    <3> QED
      BY <1>3, <2>3, <3>1 DEF Types
  <2>5. Settled(conn', req)
    BY <1>3, <2>2, <2>3, SettledOne
  <2>6. Only(ToSet(u), conn', c)
    <3>1. Only(ToSet(u), conn, c) /\ \A g \in ToSet(u) : FrameOK(g)
      BY <1>2, <1>3, <1>4 DEF Runs, Claim
    <3> QED
      BY <2>4, <3>1, SaidLater, Same2Freed
  <2>7. CASE Goto(<<Frame("connectionError", c, NoReq, x)>>) /\ req' = req
    <3>1. stack' = <<Frame("connectionError", c, NoReq, x)>> \o u /\ conn'[c].st = "DISCONNECTED"
      BY <1>1, <2>2, <2>4, <2>7 DEF Goto
    <3>2. Settled(conn', req') /\ \A s \in Reqs : Known(queue', req', s)
      BY <1>5, <1>6, <2>5, <2>7
    <3> QED
      BY <1>3, <1>6, <2>6, <3>1, <3>2, NeutralGoes
  <2>8. CASE /\ conn[c].req # NoReq
             /\ req' = [req EXCEPT ![conn[c].req] = [ResetConnector(req[conn[c].req]) EXCEPT !.attempts = @ + 1]]
             /\ Goto(<<Frame("connectEx", c, NoReq, 0), Frame("connError2", c, NoReq, x)>>)
    <3>1. PICK r \in Reqs : r = conn[c].req
      BY <1>3, <2>8, Carried
    <3>2. req[r] \in ReqType /\ ResetConnector(req[r]).attempts = req[r].attempts /\ req[r].attempts \in Nat
      BY <1>3, ResetOK DEF Types, ReqType
    <3>3. PICK n \in Nat : n = req[r].attempts + 1
      BY <3>2
    <3>4. PICK v : v = [ResetConnector(req[r]) EXCEPT !.attempts = n]
      OBVIOUS
    <3>5. /\ v \in ReqType /\ ~v.err /\ ~v.complete /\ v.out = req[r].out /\ v.alive = req[r].alive
          /\ v.proc = req[r].proc /\ v.st = req[r].st
      <4>1. PICK q \in ReqType : q = req[r]
        BY <3>2
      <4>2. v = [ResetConnector(q) EXCEPT !.attempts = n]
        BY <3>4, <4>1
      <4>3. /\ v \in ReqType /\ ~v.err /\ ~v.complete /\ v.out = q.out /\ v.alive = q.alive
            /\ v.proc = q.proc /\ v.st = q.st
        BY <4>2, Retried
      <4> QED
        BY <4>1, <4>3
    <3>6. req' = [req EXCEPT ![r] = v]
      BY <2>8, <3>1, <3>2, <3>3, <3>4
    <3>7. req'[r] = v /\ \A s \in Reqs : s # r => req'[s] = req[s]
      BY <1>3, <3>6 DEF Types
    <3>8. Settled(conn', req')
      BY <2>5, <3>5, <3>7 DEF Settled
    <3>9. \A s \in Reqs : Known(queue', req', s)
      BY <1>5, <1>6, <3>5, <3>7 DEF Known
    <3>10. stack' = <<Frame("connectEx", c, NoReq, 0), Frame("connError2", c, NoReq, x)>> \o u
      BY <1>1, <2>8 DEF Goto
    <3> QED
      BY <1>3, <1>6, <2>6, <3>8, <3>9, <3>10, NeutralConnects
  <2> QED
    BY <2>3, <2>7, <2>8
<1> QED
  BY <1>7, <1>8

LEMMA ConnError2Step ==
    ASSUME WholeInv, ConnError2
    PROVE  FlowInv' /\ KnownInv'
<1>1. PICK f, u : f = Head(stack) /\ u = Tail(stack)
  OBVIOUS
<1>2. stack # <<>> /\ f.fn = "connError2"
  BY <1>1 DEF ConnError2, Top
<1>3. /\ Runs(f, u) /\ Settled(conn, req) /\ Types /\ FrameOK(f)
      /\ \A s \in Reqs : Known(queue, req, s) \/ Handles(f, ret, s)
  BY <1>1, <1>2, WholeRuns
<1>4. PICK c \in Conns, x \in Marks : c = f.c /\ x = f.x
  BY <1>2, <1>3 DEF FrameOK, OfConn, AnyFrame
<1>5. queue' = queue /\ req' = req /\ f.fn \in Neutral
  BY <1>2 DEF ConnError2, lists, Neutral
<1>6. \A s \in Reqs : Known(queue', req', s)
  BY <1>2, <1>3, <1>5 DEF Handles, Handlers, Known
<1>7. CASE ret = 0
  <2>1. stack' = u /\ ret' = 0 /\ conn' = conn
    BY <1>1, <1>7 DEF ConnError2, Return
  <2>2. Owes(f, u, conn', ret')
    BY <1>2, <2>1 DEF Owes
  <2> QED
    BY <1>3, <1>5, <1>6, <2>1, <2>2, StepReturns
<1>8. CASE ret # 0
  <2>1. PICK e : e = Closed(conn[c])
    OBVIOUS
  <2>2. e \in ConnType /\ e.req = conn[c].req /\ e.st = "DISCONNECTED" /\ AtRest(e)
    BY <1>3, <2>1, ClosedOK, ClosedRest DEF Types, Settled
  <2>3. /\ conn' = [conn EXCEPT ![c] = e] /\ stack' = <<Frame("connectionError", c, NoReq, x)>> \o u
    BY <1>1, <1>3, <1>4, <1>8, <2>1 DEF ConnError2, top, Types, Goto
  <2>4. SameConns(conn, conn') /\ conn'[c] = e
    <3>1. SameConns(conn, conn')
      BY <1>3, <2>2, <2>3, OneConn
    <3> QED
      BY <1>3, <2>3, <3>1 DEF Types
  <2>5. Settled(conn', req')
    BY <1>3, <1>5, <2>2, <2>3, SettledOne
  <2>6. Only(ToSet(u), conn', c)
    <3>1. Only(ToSet(u), conn, c) /\ \A g \in ToSet(u) : FrameOK(g)
      BY <1>2, <1>3, <1>4, <1>8 DEF Runs, Claim
    <3> QED
      BY <2>4, <3>1, SaidLater, Same2Freed
  <2> QED
    BY <1>3, <1>5, <1>6, <2>2, <2>3, <2>4, <2>5, <2>6, NeutralGoes
<1> QED
  BY <1>7, <1>8

LEMMA KeptRest ==
    ASSUME NEW cn, NEW dn, AllKept(cn, dn), NEW rq, Settled(cn, rq)
    PROVE  Settled(dn, rq)
<1>1. ASSUME NEW c \in Conns PROVE AtRest(dn[c])
  <2>1. Kept(cn[c], dn[c]) /\ AtRest(cn[c])
    BY DEF AllKept, Settled
  <2> QED
    BY <2>1 DEF Kept, AtRest
<1> QED
  BY <1>1 DEF Settled

LEMMA ConnectionErrorStep ==
    ASSUME WholeInv, ConnectionError
    PROVE  FlowInv' /\ KnownInv'
<1>1. PICK f, u : f = Head(stack) /\ u = Tail(stack)
  OBVIOUS
<1>2. stack # <<>> /\ f.fn = "connectionError" /\ BaseInv
  BY <1>1 DEF ConnectionError, Top, WholeInv
<1>3. /\ Runs(f, u) /\ Settled(conn, req) /\ Types /\ FrameOK(f) /\ Placed(conn, queue, req, pool)
      /\ Sure(f, conn, req)
      /\ \A s \in Reqs : Known(queue, req, s) \/ Handles(f, ret, s)
  BY <1>1, <1>2, WholeRuns
<1>4. PICK c \in Conns, x \in Marks : c = f.c /\ x = f.x
  BY <1>2, <1>3 DEF FrameOK, OfConn, AnyFrame
<1>5. PICK dn, sq : dn = Detach(c) /\ sq = DetachReq(c)
  OBVIOUS
<1>6. Detached(conn, dn, req, sq, c)
  BY <1>3, <1>5, DetachOK
<1>7. req' = sq
  BY <1>1, <1>4, <1>5 DEF ConnectionError, top
<1>8. /\ dn[c].req = NoReq /\ dn[c].st = conn[c].st /\ dn[c].inProcess = conn[c].inProcess
      /\ \A d \in Conns : d # c => dn[d] = conn[d]
  BY <1>3, <1>5 DEF Detach, Types, ConnType
<1>9. \A s \in Reqs : /\ sq[s].alive = req[s].alive /\ sq[s].st = req[s].st /\ sq[s].err = req[s].err
                      /\ sq[s].complete = req[s].complete /\ sq[s].out = req[s].out
                      /\ s # conn[c].req => sq[s].proc = req[s].proc
  BY <1>3, <1>5 DEF DetachReq, Types, ReqType
<1>10. Settled(dn, sq)
  <2>1. AtRest(dn[c])
    BY <1>2, <1>3, <1>4, <1>8 DEF Settled, AtRest, Sure
  <2> QED
    BY <1>3, <1>8, <1>9, <2>1 DEF Settled
<1>11. Quiet(ToSet(u), dn)
  <2>1. Only(ToSet(u), conn, c) /\ \A g \in ToSet(u) : FrameOK(g)
    BY <1>2, <1>3, <1>4 DEF Runs, Claim
  <2>2. Freed(conn, dn)
    BY <1>8 DEF Freed
  <2> QED
    BY <1>8, <2>1, <2>2, SaidLater
<1>12. \A s \in Reqs : s # conn[c].req => Known(queue, sq, s)
  BY <1>2, <1>3, <1>9 DEF Known, Handles, Handlers
<1>13. CASE x = "again"
  <2>1. /\ conn' = dn /\ stack' = u /\ ret' = 1
        /\ queue' = (IF conn[c].req = NoReq THEN queue ELSE <<conn[c].req>> \o queue)
    BY <1>1, <1>4, <1>5, <1>13 DEF ConnectionError, top, Return
  <2>2. \A s \in Reqs : Known(queue', req', s)
    <3>1. CASE conn[c].req = NoReq
      <4>1. \A s \in Reqs : s # conn[c].req
        BY <3>1, ConnAssumption
      <4> QED
        BY <1>7, <1>12, <2>1, <3>1, <4>1
    <3>2. CASE conn[c].req # NoReq
      <4>1. PICK r \in Reqs : r = conn[c].req
        BY <1>3, <3>2, Carried
      <4>2. queue \in Seq(Reqs) /\ Once(queue) /\ ~Has(queue, r) /\ queue' = <<r>> \o queue
        BY <1>3, <2>1, <3>2, <4>1, Carried DEF Types
      <4>3. \A s : Has(queue', s) <=> Has(queue, s) \/ s = r
        BY <4>2, ConsHas
      <4> QED
        BY <1>7, <1>12, <4>1, <4>3 DEF Known
    <3> QED
      BY <3>1, <3>2
  <2>3. Owes(f, u, conn', ret')
    BY <1>2, <1>11, <2>1 DEF Owes
  <2> QED
    BY <1>3, <1>7, <1>10, <2>1, <2>2, <2>3, StepReturns
<1>14. CASE x # "again"
  <2>1. /\ AllKept(dn, conn') /\ SameConns(dn, conn') /\ queue' = queue
        /\ IF conn[c].req = NoReq
           THEN Goto(<<Frame("connectionError2", NoConn, NoReq, 0)>>) /\ ret' = 0
           ELSE /\ Goto(<<Frame("tryRecover", NoConn, conn[c].req, 0),
                          Frame("connectionError2", NoConn, NoReq, 0)>>)
                /\ ret' = ret
    BY <1>1, <1>2, <1>4, <1>5, <1>14, ConnectionErrorEffect
  <2>2. Settled(conn', req')
    BY <1>7, <1>10, <2>1, KeptRest
  <2>3. Quiet(ToSet(u), conn')
    <3>1. \A g \in ToSet(u) : FrameOK(g)
      BY <1>3 DEF Runs
    <3> QED
      BY <1>11, <2>1, <3>1, SaidLater, Same2Freed
  <2>4. PICK b : b = Frame("connectionError2", NoConn, NoReq, 0)
    OBVIOUS
  <2>5. FrameOK(b) /\ b.fn = "connectionError2" /\ b.fn \in Neutral /\ f.fn \in Neutral /\ b.fn \notin Lower
    BY <1>2, <2>4, PlainFrame DEF Neutral, Lower
  <2>6. u # <<>> => Ties(b, Head(u))
    BY <1>3, <2>5, NeutralTies DEF Runs
  <2>7. CASE conn[c].req = NoReq
    <3>1. stack' = <<b>> \o u /\ ret' = 0
      BY <1>1, <2>1, <2>4, <2>7 DEF Goto
    <3>2. Claim(b, u, conn', ret', req') /\ Sure(b, conn', req')
      BY <2>5, <3>1 DEF Claim, After, Sure
    <3>3. \A s \in Reqs : Known(queue', req', s)
      BY <1>7, <1>12, <2>1, <2>7, ConnAssumption
    <3> QED
      BY <1>3, <2>2, <2>5, <2>6, <3>1, <3>2, <3>3, StepGoes
  <2>8. CASE conn[c].req # NoReq
    <3>1. PICK r \in Reqs : r = conn[c].req
      BY <1>3, <2>8, Carried
    <3>2. PICK a, w : a = Frame("tryRecover", NoConn, r, 0) /\ w = <<b>> \o u
      OBVIOUS
    <3>3. FrameOK(a) /\ a.fn = "tryRecover" /\ a.r = r
      BY <3>2, ReqFrame, MarkFacts DEF OfReq, OfConn
    <3>4. stack' = <<a, b>> \o u
      BY <1>1, <2>1, <2>4, <2>8, <3>1, <3>2 DEF Goto
    <3>5. ToSet(w) = {b} \cup ToSet(u)
      BY <1>3, <2>5, <3>2, CallFrames DEF Runs
    <3>6. Quiet(ToSet(w), conn')
      BY <2>3, <2>5, <3>5 DEF Quiet, After
    <3>7. Claim(a, w, conn', ret', req') /\ Sure(a, conn', req')
      BY <3>3, <3>6 DEF Claim, After, Sure
    <3>8. Ties(a, b) /\ b.fn \in Resumes /\ a.fn \notin Lower
      BY <2>5, <3>3 DEF Ties, Resumes, Lower
    <3>9. \A s \in Reqs : Known(queue', req', s) \/ Handles(a, ret', s)
      BY <1>7, <1>12, <2>1, <3>1, <3>3 DEF Handles, Handlers
    <3> QED
      BY <1>3, <2>2, <2>5, <2>6, <3>2, <3>3, <3>4, <3>7, <3>8, <3>9, StepCalls
  <2> QED
    BY <2>7, <2>8
<1> QED
  BY <1>13, <1>14

LEMMA ConnectionError2Step ==
    ASSUME WholeInv, ConnectionError2
    PROVE  FlowInv' /\ KnownInv'
<1>1. PICK f, u : f = Head(stack) /\ u = Tail(stack)
  OBVIOUS
<1>2. stack # <<>> /\ f.fn = "connectionError2"
  BY <1>1 DEF ConnectionError2, Top
<1>3. /\ Runs(f, u) /\ Settled(conn, req)
      /\ \A s \in Reqs : Known(queue, req, s) \/ Handles(f, ret, s)
  BY <1>1, <1>2, WholeRuns
<1>4. UNCHANGED <<conn, req, queue, ret>>
  BY DEF ConnectionError2, lists
<1>5. Settled(conn', req') /\ \A s \in Reqs : Known(queue', req', s)
  BY <1>2, <1>3, <1>4 DEF Handles, Handlers, Known
<1>6. ret \in {0, LS_FAIL} /\ (ret # 0 => Quiet(ToSet(u), conn))
  BY <1>2, <1>3 DEF Runs, Claim
<1>7. CASE worker.st = "BAD"
  <2>1. PICK a, b, w : /\ a = Frame("failOutstandingReqs", NoConn, NoReq, 0)
                       /\ b = Frame("return", NoConn, NoReq, ret) /\ w = <<b>> \o u
    OBVIOUS
  <2>2. FrameOK(a) /\ a.fn = "failOutstandingReqs" /\ FrameOK(b) /\ b.fn = "return" /\ b.x = ret
    BY <1>6, <2>1, PlainFrame, ReturnFrame, MarkFacts
  <2>3. stack' = <<a, b>> \o u
    BY <1>1, <1>7, <2>1 DEF ConnectionError2, Goto
  <2>4. w # <<>> /\ Head(w) = b /\ ToSet(w) = {b} \cup ToSet(u)
    BY <1>3, <2>1, <2>2, CallFrames DEF Runs
  <2>5. ret # 0 => Quiet(ToSet(w), conn')
    BY <1>4, <1>6, <2>2, <2>4 DEF Quiet, After
  <2>6. Claim(a, w, conn', ret', req') /\ Sure(a, conn', req')
    BY <2>2, <2>4, <2>5 DEF Claim, After, Sure
  <2>7. Ties(a, b) /\ b.fn \in Resumes /\ a.fn \notin Lower /\ b.fn \notin Lower
    BY <1>6, <2>2 DEF Ties, Resumes, Lower
  <2>8. u # <<>> => Ties(b, Head(u))
    BY <1>2, <1>3, <2>2, NeutralTies DEF Runs, Neutral
  <2> QED
    BY <1>3, <1>5, <2>1, <2>2, <2>3, <2>6, <2>7, <2>8, StepCalls
<1>8. CASE worker.st # "BAD"
  <2>1. stack' = u
    BY <1>1, <1>8 DEF ConnectionError2
  <2>2. Owes(f, u, conn', ret')
    BY <1>2, <1>4, <1>6 DEF Owes
  <2> QED
    BY <1>3, <1>5, <2>1, <2>2, StepReturns
<1> QED
  BY <1>7, <1>8

LEMMA FailOutstandingReqsStep ==
    ASSUME WholeInv, FailOutstandingReqs
    PROVE  FlowInv' /\ KnownInv'
<1>1. PICK f, u : f = Head(stack) /\ u = Tail(stack)
  OBVIOUS
<1>2. stack # <<>> /\ f.fn = "failOutstandingReqs" /\ FlowInv /\ Stacked(stack)
  BY <1>1 DEF FailOutstandingReqs, Top, WholeInv, BaseInv
<1>3. /\ Runs(f, u) /\ Settled(conn, req) /\ Types /\ Placed(conn, queue, req, pool) /\ FrameOK(f)
      /\ Sure(f, conn, req)
      /\ \A s \in Reqs : Known(queue, req, s) \/ Handles(f, ret, s)
  BY <1>1, <1>2, WholeRuns
<1>4. UNCHANGED <<conn, req, ret>>
  BY DEF FailOutstandingReqs
<1>5. \A s \in Reqs : Known(queue, req, s)
  BY <1>2, <1>3 DEF Handles, Handlers
<1>6. u # <<>> /\ (Head(u).x # 0 => Quiet(ToSet(u), conn))
  BY <1>2, <1>3 DEF Runs, Claim
<1>7. CASE queue = <<>>
  <2>1. stack' = u /\ queue' = queue
    BY <1>1, <1>7 DEF FailOutstandingReqs
  <2>2. Owes(f, u, conn', ret')
    BY <1>2, <1>4, <1>6 DEF Owes
  <2> QED
    BY <1>3, <1>4, <1>5, <2>1, <2>2, StepReturns
<1>8. CASE queue # <<>> /\ ~req[Head(queue)].alive
  <2>1. queue' = Tail(queue) /\ stack' = stack
    BY <1>8 DEF FailOutstandingReqs
  <2>2. \A s \in Reqs : Known(queue', req', s)
    BY <1>3, <1>4, <1>5, <1>8, <2>1, TakenOut
  <2>3. Claim(f, u, conn', ret', req') /\ Sure(f, conn', req') /\ Settled(conn', req')
    BY <1>3, <1>4 DEF Runs
  <2> QED
    BY <1>2, <1>3, <2>1, <2>2, <2>3, StepStays
<1>9. CASE queue # <<>> /\ req[Head(queue)].alive
  <2>1. PICK r : r = Head(queue)
    OBVIOUS
  <2>2. PICK a : a = Frame("endResponse", NoConn, r, 0)
    OBVIOUS
  <2>3. queue' = Tail(queue) /\ stack' = <<a>> \o stack
    BY <1>9, <2>1, <2>2 DEF FailOutstandingReqs
  <2>4. r \in Reqs /\ \A s \in Reqs : s # r => Known(queue', req', s)
    BY <1>3, <1>4, <1>5, <1>9, <2>1, <2>3, TakenOut
  <2>5. FrameOK(a) /\ a.fn = "endResponse" /\ a.r = r
    BY <2>2, <2>4, ReqFrame, MarkFacts DEF OfReq, OfConn
  <2>6. req[r].proc = NoConn
    <3>1. Has(queue, r)
      BY <1>3, <1>9, <2>1, TailHas DEF Types
    <3> QED
      BY <1>3, <2>4, <3>1 DEF Placed
  <2>7. Head(u).x # 0 => Quiet(ToSet(stack), conn)
    <3>1. ToSet(stack) = {f} \cup ToSet(u)
      BY <1>1, <1>2, Members
    <3> QED
      BY <1>2, <1>6, <3>1 DEF Quiet, After
  <2>8. Claim(a, stack, conn', ret', req')
    BY <1>1, <1>2, <1>4, <1>6, <2>5, <2>6, <2>7 DEF Claim, After
  <2>9. Chained(stack') /\ Floored(stack')
    <3>1. Ties(a, Head(stack)) /\ a.fn \notin Lower /\ a \in AnyFrame
      BY <1>1, <1>2, <2>5 DEF Ties, Lower, FrameOK
    <3> QED
      BY <1>2, <2>3, <3>1, FlowPush DEF FlowInv
  <2>10. stack' # <<>> /\ Head(stack') = a /\ Tail(stack') = stack
    <3>1. Head(stack).fn \in Resumes
      BY <1>1, <1>2 DEF Resumes
    <3> QED
      BY <1>2, <2>3, <2>5, <3>1, OnTop
  <2>11. FlowInv'
    BY <2>8, <2>9, <2>10 DEF FlowInv
  <2>12. Sure(a, conn', req')
    BY <1>4, <2>5, <2>6, ConnAssumption DEF Sure
  <2>13. \A s \in Reqs : Known(queue', req', s) \/ Handles(a, ret', s)
    BY <2>4, <2>5 DEF Handles, Handlers
  <2>14. Settled(conn', req')
    BY <1>3, <1>4
  <2> QED
    BY <2>10, <2>11, <2>12, <2>13, <2>14 DEF KnownInv
<1> QED
  BY <1>7, <1>8, <1>9

\* one request changes and stays where it is
LEMMA OneKnown ==
    ASSUME Types, NEW r \in Reqs, NEW v \in ReqType, v.proc = req[r].proc, v.st = req[r].st, v.alive = req[r].alive,
           v.err \/ v.complete => v.out # 0, req[r].out # 0 => v.out # 0,
           req' = [req EXCEPT ![r] = v], queue' = queue, NEW cn, Settled(cn, req)
    PROVE  /\ Settled(cn, req')
           /\ \A s \in Reqs : Known(queue, req, s) => Known(queue', req', s)
           /\ v.out # 0 => Known(queue', req', r)
<1>1. req'[r] = v /\ \A s \in Reqs : s # r => req'[s] = req[s]
  BY DEF Types
<1>2. Settled(cn, req')
  BY <1>1 DEF Settled
<1> QED
  BY <1>1, <1>2 DEF Known

LEMMA TryRecoverStep ==
    ASSUME WholeInv, TryRecover
    PROVE  FlowInv' /\ KnownInv'
<1>1. PICK f, u : f = Head(stack) /\ u = Tail(stack)
  OBVIOUS
<1>2. stack # <<>> /\ f.fn = "tryRecover"
  BY <1>1 DEF TryRecover, Top
<1>3. /\ Runs(f, u) /\ Settled(conn, req) /\ Types /\ FrameOK(f)
      /\ \A s \in Reqs : Known(queue, req, s) \/ Handles(f, ret, s)
  BY <1>1, <1>2, WholeRuns
<1>4. PICK r \in Reqs : r = f.r
  BY <1>2, <1>3 DEF FrameOK, OfReq
<1>5. conn' = conn /\ queue' = queue
  BY DEF TryRecover
<1>6. req[r] \in ReqType /\ req[r].attempts \in Nat
  BY <1>3 DEF Types, ReqType
<1>7. PICK n \in Nat : n = req[r].attempts + 1
  BY <1>6
<1>8. PICK q : q = [ResetConnector(req[r]) EXCEPT !.attempts = n]
  OBVIOUS
<1>9. /\ q \in ReqType /\ ~q.err /\ ~q.complete /\ q.out = req[r].out /\ q.alive = req[r].alive
      /\ q.proc = req[r].proc /\ q.st = req[r].st
  <2>1. PICK p \in ReqType : p = req[r]
    BY <1>6
  <2>2. q = [ResetConnector(p) EXCEPT !.attempts = n]
    BY <1>8, <2>1
  <2>3. /\ q \in ReqType /\ ~q.err /\ ~q.complete /\ q.out = p.out /\ q.alive = p.alive
        /\ q.proc = p.proc /\ q.st = p.st
    BY <2>2, Retried
  <2> QED
    BY <2>1, <2>3
<1>10. PICK v : v = ErrResponse(q, SC_503)
  OBVIOUS
<1>11. v \in ReqType /\ v.proc = req[r].proc /\ v.st = req[r].st /\ v.alive = req[r].alive /\ v.out # 0
  BY <1>9, <1>10, ErrOK DEF SC_503
<1>12. \/ /\ req' = [req EXCEPT ![r] = q] /\ ret' = ret
          /\ Goto(<<Frame("processRequest", NoConn, r, TRUE), Frame("tryRecover2", NoConn, r, 0)>>)
       \/ req' = [req EXCEPT ![r] = v] /\ Return(LS_FAIL)
  BY <1>1, <1>4, <1>7, <1>8, <1>10 DEF TryRecover, top
<1>13. Quiet(ToSet(u), conn') /\ (u # <<>> => Head(u).fn = "connectionError2")
  BY <1>2, <1>3, <1>5 DEF Runs, Claim, Ties
<1>14. \A s \in Reqs : s # r => Known(queue, req, s)
  BY <1>3, <1>4 DEF Handles
<1>15. CASE req' = [req EXCEPT ![r] = v] /\ Return(LS_FAIL)
  <2>1. stack' = u /\ ret' = LS_FAIL
    BY <1>1, <1>15 DEF Return
  <2>2. Owes(f, u, conn', ret')
    BY <1>2, <1>13, <2>1 DEF Owes
  <2>3. Settled(conn', req') /\ \A s \in Reqs : Known(queue', req', s)
    BY <1>3, <1>5, <1>11, <1>14, <1>15, OneKnown
  <2> QED
    BY <1>3, <2>1, <2>2, <2>3, StepReturns
<1>16. CASE /\ req' = [req EXCEPT ![r] = q]
            /\ Goto(<<Frame("processRequest", NoConn, r, TRUE), Frame("tryRecover2", NoConn, r, 0)>>)
  <2>1. PICK a, b, w : /\ a = Frame("processRequest", NoConn, r, TRUE) /\ b = Frame("tryRecover2", NoConn, r, 0)
                       /\ w = <<b>> \o u
    OBVIOUS
  <2>2. stack' = <<a, b>> \o u
    BY <1>1, <1>16, <2>1 DEF Goto
  <2>3. PICK yes \in Marks : yes = TRUE
    BY MarkFacts
  <2>4. FrameOK(a) /\ a.fn = "processRequest" /\ a.r = r /\ a.x
    <3>1. "processRequest" \in OfReq \ OfConn
      BY DEF OfReq, OfConn
    <3>2. a = Frame("processRequest", NoConn, r, yes)
      BY <2>1, <2>3
    <3>3. FrameOK(a) /\ a.fn = "processRequest" /\ a.r = r /\ a.x = yes
      BY <3>1, <3>2, ReqFrame
    <3> QED
      BY <2>3, <3>3
  <2>5. FrameOK(b) /\ b.fn = "tryRecover2" /\ b.r = r
    BY <2>1, ReqFrame, MarkFacts DEF OfReq, OfConn
  <2>6. w # <<>> /\ ToSet(w) = {b} \cup ToSet(u)
    BY <1>3, <2>1, <2>5, CallFrames DEF Runs
  <2>7. Quiet(ToSet(w), conn')
    BY <1>13, <2>5, <2>6 DEF Quiet, After
  <2>8. Claim(a, w, conn', ret', req') /\ Sure(a, conn', req')
    BY <2>4, <2>6, <2>7 DEF Claim, After, Sure
  <2>9. Ties(a, b) /\ (u # <<>> => Ties(b, Head(u)))
    BY <1>13, <2>4, <2>5 DEF Ties
  <2>10. Settled(conn', req') /\ \A s \in Reqs : Known(queue', req', s) \/ Handles(a, ret', s)
    <3>1. Settled(conn', req') /\ \A s \in Reqs : Known(queue, req, s) => Known(queue', req', s)
      BY <1>3, <1>5, <1>9, <1>16, OneKnown
    <3> QED
      BY <1>14, <2>4, <3>1 DEF Handles, Handlers
  <2>11. b.fn \in Resumes /\ a.fn \notin Lower /\ b.fn \notin Lower
    BY <2>4, <2>5 DEF Resumes, Lower
  <2> QED
    BY <1>3, <2>1, <2>2, <2>4, <2>5, <2>8, <2>9, <2>10, <2>11, StepCalls
<1> QED
  BY <1>12, <1>15, <1>16

LEMMA TryRecover2Step ==
    ASSUME WholeInv, TryRecover2
    PROVE  FlowInv' /\ KnownInv'
<1>1. PICK f, u : f = Head(stack) /\ u = Tail(stack)
  OBVIOUS
<1>2. stack # <<>> /\ f.fn = "tryRecover2" /\ conn' = conn /\ queue' = queue
  BY <1>1 DEF TryRecover2, Top, lists
<1>3. /\ Runs(f, u) /\ Settled(conn, req) /\ Types /\ FrameOK(f)
      /\ \A s \in Reqs : Known(queue, req, s) \/ Handles(f, ret, s)
  BY <1>1, <1>2, WholeRuns
<1>4. PICK r \in Reqs : r = f.r
  BY <1>2, <1>3 DEF FrameOK, OfReq
<1>5. CASE ret \in {0, 1}
  <2>1. stack' = u /\ ret' = 0 /\ req' = req
    BY <1>1, <1>5 DEF TryRecover2, Return
  <2>2. Owes(f, u, conn', ret')
    BY <1>2, <2>1 DEF Owes
  <2>3. \A s \in Reqs : Known(queue', req', s)
    BY <1>2, <1>3, <1>5, <2>1 DEF Handles, Known
  <2> QED
    BY <1>2, <1>3, <2>1, <2>2, <2>3, StepReturns
<1>6. CASE ret \notin {0, 1}
  <2>1. PICK v : v = ErrResponse(req[r], SC_503)
    OBVIOUS
  <2>2. v \in ReqType /\ v.proc = req[r].proc /\ v.st = req[r].st /\ v.alive = req[r].alive /\ v.out # 0
    BY <1>3, <2>1, ErrOK DEF SC_503, Types
  <2>3. stack' = u /\ ret' = LS_FAIL /\ req' = [req EXCEPT ![r] = v]
    BY <1>1, <1>4, <1>6, <2>1 DEF TryRecover2, Return, top
  <2>4. Quiet(ToSet(u), conn')
    BY <1>2, <1>3, <1>6 DEF Runs, Claim
  <2>5. Owes(f, u, conn', ret')
    BY <1>2, <2>3, <2>4 DEF Owes
  <2>6. \A s \in Reqs : s # r => Known(queue, req, s)
    BY <1>3, <1>4 DEF Handles
  <2>7. Settled(conn', req') /\ \A s \in Reqs : Known(queue', req', s)
    BY <1>2, <1>3, <2>2, <2>3, <2>6, OneKnown
  <2> QED
    BY <1>3, <2>3, <2>5, <2>7, StepReturns
<1> QED
  BY <1>5, <1>6

LEMMA ResetStats2Step ==
    ASSUME WholeInv, ResetStats2
    PROVE  FlowInv' /\ KnownInv'
<1>1. PICK f, u : f = Head(stack) /\ u = Tail(stack)
  OBVIOUS
<1>2. stack # <<>> /\ f.fn = "resetStats2" /\ stack' = u /\ UNCHANGED <<queue, req>>
  BY <1>1 DEF ResetStats2, Top
<1>3. /\ Runs(f, u) /\ Settled(conn, req) /\ Types
      /\ \A s \in Reqs : Known(queue, req, s) \/ Handles(f, ret, s)
  BY <1>1, <1>2, WholeRuns
<1>4. conn' = conn \/ conn' = ClearConns(conn, pool)
  BY DEF ResetStats2
<1>5. Settled(conn', req')
  <2>1. AllKept(conn, ClearConns(conn, pool))
    BY <1>3, ClearConnsOK DEF Types
  <2> QED
    BY <1>2, <1>3, <1>4, <2>1, KeptRest
<1>6. Owes(f, u, conn', ret')
  BY <1>2 DEF Owes, Lower
<1>7. \A s \in Reqs : Known(queue', req', s)
  BY <1>2, <1>3 DEF Handles, Handlers, Known
<1> QED
  BY <1>2, <1>3, <1>5, <1>6, <1>7, StepReturns

LEMMA EndResponseStep ==
    ASSUME WholeInv, EndResponse
    PROVE  FlowInv' /\ KnownInv'
<1>1. PICK f, u : f = Head(stack) /\ u = Tail(stack)
  OBVIOUS
<1>2. stack # <<>> /\ f.fn = "endResponse"
  BY <1>1 DEF EndResponse, Top
<1>3. /\ Runs(f, u) /\ Settled(conn, req) /\ Types /\ FrameOK(f) /\ Sure(f, conn, req)
      /\ \A s \in Reqs : Known(queue, req, s) \/ Handles(f, ret, s)
  BY <1>1, <1>2, WholeRuns
<1>4. PICK r \in Reqs : r = f.r
  BY <1>2, <1>3 DEF FrameOK, OfReq
<1>5. PICK q \in ReqType : q = req[r]
  BY <1>3 DEF Types
<1>6. PICK c \in Conns \cup {NoConn} : c = q.proc
  BY DEF ReqType
<1>7. \A s \in Reqs : s # r => Known(queue, req, s)
  BY <1>3, <1>4 DEF Handles
<1>8. conn' = conn => Owes(f, u, conn', ret')
  BY <1>2, <1>3 DEF Runs, Claim, Owes
<1>9. q.err \/ q.complete => q.out # 0
  BY <1>3, <1>5 DEF Settled
<1>10. CASE q.complete
  <2>1. stack' = u /\ UNCHANGED <<conn, req, queue>>
    BY <1>1, <1>4, <1>5, <1>10 DEF EndResponse, top, Return
  <2>2. \A s \in Reqs : Known(queue', req', s)
    BY <1>5, <1>7, <1>9, <1>10, <2>1 DEF Known
  <2> QED
    BY <1>3, <1>8, <2>1, <2>2, StepReturns
<1>11. CASE ~q.complete /\ q.hdr = "none" /\ ~q.abort
  <2>1. PICK v : v = ErrResponse(q, 500)
    OBVIOUS
  <2>2. v \in ReqType /\ v.proc = q.proc /\ v.st = q.st /\ v.alive = q.alive /\ v.out = 500
    BY <2>1, ErrOK
  <2>3. PICK p : p = [v EXCEPT !.hdr = "ok"]
    OBVIOUS
  <2>4. p \in ReqType /\ p.proc = v.proc /\ p.st = v.st /\ p.alive = v.alive /\ p.out = v.out
    BY <2>2, <2>3 DEF ReqType
  <2>5. req' = [req EXCEPT ![r] = p] /\ stack' = u /\ UNCHANGED <<conn, queue>>
    BY <1>1, <1>4, <1>5, <1>11, <2>1, <2>3 DEF EndResponse, top, Return
  <2>6. p.proc = req[r].proc /\ p.st = req[r].st /\ p.alive = req[r].alive /\ p.out # 0
    BY <1>5, <2>2, <2>4
  <2>7. Settled(conn', req') /\ \A s \in Reqs : Known(queue', req', s)
    BY <1>3, <1>7, <2>4, <2>5, <2>6, OneKnown
  <2> QED
    BY <1>3, <1>8, <2>5, <2>7, StepReturns
<1>12. CASE ~q.complete /\ ~(q.hdr = "none" /\ ~q.abort)
  <2>1. PICK out \in {0, 200, 500, SC_503} : out = IF q.err THEN q.out ELSE 200
    BY DEF ReqType
  <2>2. out # 0
    BY <1>9, <2>1
  <2>3. PICK v : v = Ended(q, out)
    OBVIOUS
  <2>4. v.out = out
    BY <2>3, EndedOK
  <2>5. /\ req' = [req EXCEPT ![r] = v]
        /\ IF c # NoConn
           THEN /\ conn' = [conn EXCEPT ![c] = CleanedUp(conn[c])]
                /\ Goto(<<Frame("recycleConn", c, NoReq, 0)>>)
                /\ UNCHANGED queue
           ELSE /\ queue' = Unlink(queue, r)
                /\ stack' = u /\ UNCHANGED conn
    BY <1>1, <1>4, <1>5, <1>6, <1>12, <2>1, <2>3 DEF EndResponse, top, Ended
  <2>6. req'[r].out # 0 /\ \A s \in Reqs : s # r => req'[s] = req[s]
    BY <1>3, <2>2, <2>4, <2>5 DEF Types
  <2>7. Settled(conn, req')
    BY <1>3, <2>6 DEF Settled
  <2>8. CASE c = NoConn
    <3>1. queue' = Unlink(queue, r) /\ stack' = u /\ conn' = conn
      BY <2>5, <2>8
    <3>2. \A s : Has(queue', s) <=> Has(queue, s) /\ s # r
      BY <1>3, <3>1, UnlinkHas DEF Types
    <3>3. \A s \in Reqs : Known(queue', req', s)
      BY <1>7, <2>6, <3>2 DEF Known
    <3> QED
      BY <1>3, <1>8, <2>7, <3>1, <3>3, StepReturns
  <2>9. CASE c # NoConn
    <3>1. PICK k \in ConnType : k = conn[c] /\ c \in Conns
      BY <1>3, <2>9 DEF Types
    <3>2. PICK e : e = CleanedUp(k)
      OBVIOUS
    <3>3. AtRest(e)
      <4>1. AtRest(k) /\ k.st \in ConnStates /\ (k.inProcess => k.st # "PROCESSING")
        BY <1>2, <1>3, <1>4, <1>5, <1>6, <3>1 DEF Settled, Sure, ConnType
      <4>2. k.st \in {"ABORT", "CLOSING"} \/ ~k.inProcess
        BY <4>1 DEF AtRest, ConnStates
      <4>3. ~e.inProcess
        BY <3>2, <4>2, CleanedUpOK
      <4> QED
        BY <4>3 DEF AtRest
    <3>4. conn' = [conn EXCEPT ![c] = e] /\ queue' = queue
      BY <2>5, <2>9, <3>1, <3>2
    <3>5. Settled(conn', req')
      <4>1. Settled(conn', req)
        BY <1>3, <3>1, <3>3, <3>4, SettledOne
      <4> QED
        BY <2>7, <4>1 DEF Settled
    <3>6. \A s \in Reqs : Known(queue', req', s)
      BY <1>7, <2>6, <3>4 DEF Known
    <3>7. PICK a : a = Frame("recycleConn", c, NoReq, 0)
      OBVIOUS
    <3>8. FrameOK(a) /\ a.fn = "recycleConn"
      BY <3>1, <3>7, ConnFrame, MarkFacts DEF OfConn, OfReq
    <3>9. stack' = <<a>> \o u
      BY <1>1, <2>5, <2>9, <3>7 DEF Goto
    <3>10. NoAfter(ToSet(u)) /\ (u # <<>> => Head(u).fn # "failOutstandingReqs")
      BY <1>2, <1>3, <1>4, <1>5, <1>6, <2>9 DEF Runs, Claim
    <3>11. u # <<>> => Ties(a, Head(u))
      <4>1. ASSUME u # <<>> PROVE Open(Head(u)) \/ Head(u).fn = "connError"
        <5>1. Ties(f, Head(u)) /\ Head(u).fn \in Resumes
          BY <1>3, <4>1 DEF Runs
        <5> QED
          BY <1>2, <3>10, <4>1, <5>1 DEF Ties, Resumes, Open, Zero, After
      <4> QED
        BY <1>3, <3>8, <4>1, NeutralTies DEF Runs, Recyclers
    <3>12. Claim(a, u, conn', ret', req') /\ Sure(a, conn', req')
      BY <3>8 DEF Claim, After, Sure
    <3> QED
      BY <1>3, <3>5, <3>6, <3>8, <3>9, <3>10, <3>11, <3>12, StepGoes
  <2> QED
    BY <2>8, <2>9
<1> QED
  BY <1>10, <1>11, <1>12

LEMMA OnEventDoneStep ==
    ASSUME WholeInv, OnEventDone
    PROVE  FlowInv' /\ KnownInv'
<1>1. PICK f, u : f = Head(stack) /\ u = Tail(stack)
  OBVIOUS
<1>2. stack # <<>> /\ f.fn = "onEventDone" /\ UNCHANGED <<req, queue, ret>>
  BY <1>1 DEF OnEventDone, Top
<1>3. /\ Runs(f, u) /\ Settled(conn, req) /\ Types /\ FrameOK(f) /\ Placed(conn, queue, req, pool)
      /\ \A s \in Reqs : Known(queue, req, s) \/ Handles(f, ret, s)
  BY <1>1, <1>2, WholeRuns
<1>4. PICK c \in Conns : c = f.c
  BY <1>2, <1>3 DEF FrameOK, OfConn
<1>5. PICK e : e = Closed(conn[c])
  OBVIOUS
<1>6. e \in ConnType /\ e.st = "DISCONNECTED" /\ AtRest(e)
  BY <1>3, <1>5, ClosedOK, ClosedRest DEF Types, Settled
<1>7. \/ stack' = u /\ conn' = conn
      \/ conn' = [conn EXCEPT ![c] = e] /\ stack' = u
      \/ /\ conn' = [conn EXCEPT ![c] = e] /\ conn[c].req # NoReq
         /\ Goto(<<Frame("endResponse", NoConn, conn[c].req, 0)>>)
  BY <1>1, <1>4, <1>5 DEF OnEventDone, top
<1>8. Settled(conn', req')
  BY <1>2, <1>3, <1>6, <1>7, SettledOne
<1>9. \A s \in Reqs : Known(queue', req', s)
  BY <1>2, <1>3 DEF Handles, Handlers, Known
<1>10. CASE stack' = u
  <2>1. Owes(f, u, conn', ret')
    BY <1>2 DEF Owes, Lower
  <2> QED
    BY <1>3, <1>8, <1>9, <1>10, <2>1, StepReturns
<1>11. CASE /\ conn' = [conn EXCEPT ![c] = e] /\ conn[c].req # NoReq
            /\ Goto(<<Frame("endResponse", NoConn, conn[c].req, 0)>>)
  <2>1. PICK r \in Reqs : r = conn[c].req
    BY <1>3, <1>11, Carried
  <2>2. req[r].proc = c
    BY <1>3, <1>11, <2>1, Carried
  <2>3. PICK a : a = Frame("endResponse", NoConn, r, 0)
    OBVIOUS
  <2>4. FrameOK(a) /\ a.fn = "endResponse" /\ a.r = r /\ a.fn \notin Lower
    BY <2>3, ReqFrame, MarkFacts DEF OfReq, OfConn, Lower
  <2>5. stack' = <<a>> \o u
    BY <1>1, <1>11, <2>1, <2>3 DEF Goto
  <2>6. conn'[c].st = "DISCONNECTED"
    BY <1>3, <1>6, <1>11 DEF Types
  <2>7. Sure(a, conn', req')
    BY <1>2, <2>2, <2>4, <2>6 DEF Sure
  <2>8. NoAfter(ToSet(u))
    BY <1>2, <1>3 DEF Runs, Lower
  <2>9. u # <<>> => Open(Head(u))
    BY <1>2, <1>3, NeutralTies DEF Runs, Neutral
  <2>10. (u # <<>> => Ties(a, Head(u))) /\ (u # <<>> => Head(u).fn # "failOutstandingReqs")
    <3>1. ASSUME u # <<>> PROVE Ties(a, Head(u)) /\ Head(u).fn # "failOutstandingReqs"
      <4>1. Head(u).fn \in Resumes /\ Open(Head(u))
        BY <1>3, <2>9, <3>1 DEF Runs
      <4>2. Ties(a, Head(u))
        BY <2>4, <4>1, NeutralTies
      <4> QED
        BY <4>1, <4>2 DEF Open, Zero, After
    <3> QED
      BY <3>1
  <2>11. Claim(a, u, conn', ret', req')
    BY <2>4, <2>8, <2>10 DEF Claim, After
  <2> QED
    BY <1>3, <1>8, <1>9, <2>4, <2>5, <2>7, <2>10, <2>11, StepGoes
<1> QED
  BY <1>7, <1>10, <1>11

-----------------------------------------------------------------------------
(* Events: nobody waits when one comes, and none of the functions it calls has
   called assignReq(). *)

Entries == {"processRequest", "doWrite", "connError", "endResponse", "recycleConn", "processPending", "resetStats2"}

LEMMA EntryClaim ==
    ASSUME NEW f, f.fn \in Entries, NEW u, NoAfter(ToSet(u)), f.fn = "processRequest" => u # <<>>,
           u # <<>> => Head(u).fn # "failOutstandingReqs", NEW cn, NEW v, NEW rq
    PROVE  Claim(f, u, cn, v, rq)
  BY DEF Claim, Entries, After, NoAfter, Quiet, Only

LEMMA Enters0 ==
    ASSUME stack' = <<>>, Settled(conn', req'), \A r \in Reqs : Known(queue', req', r)
    PROVE  FlowInv' /\ KnownInv'
<1>1. PICK s : s = <<>> /\ s = stack'
  OBVIOUS
<1>2. Chained(s) /\ Floored(s)
  BY <1>1 DEF Chained, Floored
<1> QED
  BY <1>1, <1>2 DEF FlowInv, KnownInv

LEMMA Enters1 ==
    ASSUME NEW f, FrameOK(f), f.fn \in Entries, f.fn # "processRequest", stack' = <<f>>,
           Settled(conn', req'), Sure(f, conn', req'),
           \A r \in Reqs : Known(queue', req', r) \/ Handles(f, ret', r)
    PROVE  FlowInv' /\ KnownInv'
<1>1. PICK s : s = <<f>> /\ s = stack'
  OBVIOUS
<1>2. f \in AnyFrame
  BY DEF FrameOK
<1>3. Len(s) = 1 /\ s # <<>> /\ Head(s) = f /\ Tail(s) = <<>> /\ s[1] = f
  BY <1>1, <1>2
<1>4. Chained(s) /\ Floored(s)
  BY <1>3 DEF Chained, Floored
<1>5. NoAfter(ToSet(<<>>))
  BY DEF NoAfter, ToSet
<1>6. Claim(f, <<>>, conn', ret', req')
  BY <1>5, EntryClaim
<1> QED
  BY <1>1, <1>3, <1>4, <1>6 DEF FlowInv, KnownInv

LEMMA Enters2 ==
    ASSUME NEW f, FrameOK(f), f.fn \in Entries, NEW g, FrameOK(g), g.fn \notin After \cup {"failOutstandingReqs"},
           stack' = <<f, g>>, Ties(f, g), Settled(conn', req'), Sure(f, conn', req'),
           \A r \in Reqs : Known(queue', req', r) \/ Handles(f, ret', r)
    PROVE  FlowInv' /\ KnownInv'
<1>1. PICK s, u : s = <<f, g>> /\ s = stack' /\ u = <<g>>
  OBVIOUS
<1>2. f \in AnyFrame /\ g \in AnyFrame
  BY DEF FrameOK
<1>3. Len(s) = 2 /\ s # <<>> /\ Head(s) = f /\ Tail(s) = u /\ s[1] = f /\ s[2] = g
  BY <1>1, <1>2
<1>4. Chained(s)
  <2>1. \A i \in 1 .. Len(s) - 1 : i = 1 /\ i + 1 = 2
    BY <1>3
  <2> QED
    BY <1>3, <2>1 DEF Chained
<1>5. Floored(s)
  <2>1. \A i \in 1 .. Len(s), j \in 1 .. Len(s) : i < j => j = 2
    BY <1>3
  <2> QED
    BY <1>3, <2>1 DEF Floored
<1>6. NoAfter(ToSet(u)) /\ u # <<>> /\ Head(u) = g
  BY <1>1, <1>2 DEF NoAfter, ToSet
<1>7. Claim(f, u, conn', ret', req')
  BY <1>6, EntryClaim
<1> QED
  BY <1>1, <1>3, <1>4, <1>5, <1>7 DEF FlowInv, KnownInv

LEMMA Enters3 ==
    ASSUME NEW f, FrameOK(f), f.fn \in Entries, NEW g, FrameOK(g), g.fn \notin After \cup {"failOutstandingReqs"},
           NEW h, FrameOK(h), h.fn \notin After, stack' = <<f, g, h>>, Ties(f, g), Ties(g, h),
           Settled(conn', req'), Sure(f, conn', req'),
           \A r \in Reqs : Known(queue', req', r) \/ Handles(f, ret', r)
    PROVE  FlowInv' /\ KnownInv'
<1>1. PICK s, u : s = <<f, g, h>> /\ s = stack' /\ u = <<g, h>>
  OBVIOUS
<1>2. f \in AnyFrame /\ g \in AnyFrame /\ h \in AnyFrame
  BY DEF FrameOK
<1>3. Len(s) = 3 /\ s # <<>> /\ Head(s) = f /\ Tail(s) = u /\ s[1] = f /\ s[2] = g /\ s[3] = h
  BY <1>1, <1>2
<1>4. Chained(s)
  <2>1. \A i \in 1 .. Len(s) - 1 : (i = 1 /\ i + 1 = 2) \/ (i = 2 /\ i + 1 = 3)
    BY <1>3
  <2> QED
    BY <1>3, <2>1 DEF Chained
<1>5. Floored(s)
  <2>1. \A i \in 1 .. Len(s), j \in 1 .. Len(s) : i < j => j = 2 \/ j = 3
    BY <1>3
  <2> QED
    BY <1>3, <2>1 DEF Floored
<1>6. NoAfter(ToSet(u)) /\ u # <<>> /\ Head(u) = g
  <2>1. u \in Seq(AnyFrame) /\ Len(u) = 2 /\ u[1] = g /\ u[2] = h /\ u # <<>> /\ Head(u) = g
    BY <1>1, <1>2
  <2>2. \A i \in 1 .. Len(u) : i = 1 \/ i = 2
    BY <2>1
  <2>3. \A k \in ToSet(u) : k = g \/ k = h
    BY <2>1, <2>2 DEF ToSet
  <2> QED
    BY <2>1, <2>3 DEF NoAfter
<1>7. Claim(f, u, conn', ret', req')
  BY <1>6, EntryClaim
<1> QED
  BY <1>1, <1>3, <1>4, <1>5, <1>7 DEF FlowInv, KnownInv

\* the handlers of a connection, as above
LEMMA EntersConn ==
    ASSUME NEW c \in Conns, NEW fn \in {"doWrite", "connError"}, NEW x \in Marks,
           Handler(c, <<Frame(fn, c, NoReq, x)>>), fn = "doWrite" => conn'[c].st = "PROCESSING",
           Settled(conn', req'), \A r \in Reqs : Known(queue', req', r)
    PROVE  FlowInv' /\ KnownInv'
<1>1. PICK a, b : a = Frame(fn, c, NoReq, x) /\ b = Frame("onEventDone", c, NoReq, 0)
  OBVIOUS
<1>2. stack' = <<a>> \o <<b>>
  BY <1>1 DEF Handler, Call
<1>3. stack' = <<a, b>>
  BY <1>2, Concats
<1>4. FrameOK(a) /\ a.fn = fn /\ a.c = c
  BY <1>1, ConnFrame DEF OfConn, OfReq
<1>5. FrameOK(b) /\ b.fn = "onEventDone"
  BY <1>1, ConnFrame, MarkFacts DEF OfConn, OfReq
<1>6. Ties(a, b) /\ Sure(a, conn', req') /\ a.fn \in Entries
  BY <1>4, <1>5 DEF Ties, Sure, Entries
<1>7. b.fn \notin After \cup {"failOutstandingReqs"}
  BY <1>5 DEF After
<1> QED
  BY <1>3, <1>4, <1>5, <1>6, <1>7, Enters2

LEMMA EntersEnd ==
    ASSUME NEW c \in Conns, NEW r \in Reqs, NEW g, FrameOK(g), g.fn = "connError" \/ Zero(g),
           Handler(c, <<Frame("endResponse", NoConn, r, 0), g>>),
           \A d \in Conns : req'[r].proc = d /\ conn'[d].inProcess => conn'[d].st # "PROCESSING",
           Settled(conn', req'), \A s \in Reqs : Known(queue', req', s)
    PROVE  FlowInv' /\ KnownInv'
<1>1. PICK a, b : a = Frame("endResponse", NoConn, r, 0) /\ b = Frame("onEventDone", c, NoReq, 0)
  OBVIOUS
<1>2. stack' = <<a, g>> \o <<b>>
  BY <1>1 DEF Handler, Call
<1>3. stack' = <<a, g, b>>
  BY <1>2, Concats
<1>4. FrameOK(a) /\ a.fn = "endResponse" /\ a.r = r
  BY <1>1, ReqFrame, MarkFacts DEF OfConn, OfReq
<1>5. FrameOK(b) /\ b.fn = "onEventDone"
  BY <1>1, ConnFrame, MarkFacts DEF OfConn, OfReq
<1>6. Ties(a, g) /\ Ties(g, b) /\ Sure(a, conn', req') /\ a.fn \in Entries
  BY <1>4, <1>5 DEF Ties, Zero, Sure, Entries
<1>7. g.fn \notin After \cup {"failOutstandingReqs"} /\ b.fn \notin After
  BY <1>5 DEF After, Zero
<1> QED
  BY <1>3, <1>4, <1>5, <1>6, <1>7, Enters3

\* what is known between two events
LEMMA Rested ==
    ASSUME WholeInv, stack = <<>>
    PROVE  /\ Types /\ PoolOK(pool) /\ Placed(conn, queue, req, pool) /\ Settled(conn, req) /\ BaseInv
           /\ \A r \in Reqs : Known(queue, req, r)
  BY DEF WholeInv, KnownInv, BaseInv

LEMMA NewRequestStep ==
    ASSUME WholeInv, NEW r \in Reqs, NewRequest(r)
    PROVE  FlowInv' /\ KnownInv'
<1>1. PICK p : p = [FreshReq EXCEPT !.st = "active"]
  OBVIOUS
<1>2. ~p.err /\ ~p.complete
  BY <1>1, FreshOK
<1>3. /\ stack = <<>> /\ req' = [req EXCEPT ![r] = p] /\ UNCHANGED <<conn, queue, ret>>
      /\ stack' = <<Frame("processRequest", NoConn, r, FALSE), Frame("process", NoConn, r, 0)>>
  BY <1>1 DEF NewRequest, Call, lists
<1>4. Types /\ Settled(conn, req) /\ \A s \in Reqs : Known(queue, req, s)
  BY <1>3, Rested
<1>5. req'[r] = p /\ \A s \in Reqs : s # r => req'[s] = req[s]
  BY <1>3, <1>4 DEF Types
<1>6. Settled(conn', req')
  BY <1>2, <1>3, <1>4, <1>5 DEF Settled
<1>7. PICK no \in Marks : no = FALSE
  BY MarkFacts
<1>8. PICK a, b : a = Frame("processRequest", NoConn, r, no) /\ b = Frame("process", NoConn, r, 0)
  OBVIOUS
<1>9. stack' = <<a, b>>
  BY <1>3, <1>7, <1>8
<1>10. "processRequest" \in OfReq \ OfConn /\ "process" \in OfReq \ OfConn /\ 0 \in Marks
  BY MarkFacts DEF OfReq, OfConn
<1>11. FrameOK(a) /\ a.fn = "processRequest" /\ a.r = r
  BY <1>8, <1>10, ReqFrame
<1>12. FrameOK(b) /\ b.fn = "process" /\ b.r = r
  BY <1>8, <1>10, ReqFrame
<1>13. Ties(a, b) /\ Sure(a, conn', req') /\ a.fn \in Entries /\ b.fn \notin After \cup {"failOutstandingReqs"}
  BY <1>11, <1>12 DEF Ties, Sure, Entries, After
<1>14. \A s \in Reqs : Known(queue', req', s) \/ Handles(a, ret', s)
  BY <1>3, <1>4, <1>5, <1>11 DEF Known, Handles, Handlers
<1> QED
  BY <1>6, <1>9, <1>11, <1>12, <1>13, <1>14, Enters2

LEMMA ClientGoneStep ==
    ASSUME WholeInv, NEW r \in Reqs, ClientGone(r)
    PROVE  FlowInv' /\ KnownInv'
<1>1. stack = <<>> /\ stack' = <<>> /\ UNCHANGED <<conn, queue>>
  BY DEF ClientGone, lists
<1>2. Types /\ Settled(conn, req) /\ \A s \in Reqs : Known(queue, req, s)
  BY <1>1, Rested
<1>3. PICK no \in BOOLEAN : no = FALSE
  OBVIOUS
<1>4. PICK p : p = [req[r] EXCEPT !.alive = no]
  OBVIOUS
<1>5. req[r] \in ReqType
  BY <1>2 DEF Types
<1>6. p.alive = no /\ p.err = req[r].err /\ p.complete = req[r].complete /\ p.out = req[r].out
  BY <1>4, <1>5 DEF ReqType
<1>7. req' = [req EXCEPT ![r] = p]
  BY <1>2, <1>3, <1>4 DEF ClientGone, Types
<1>8. req'[r] = p /\ \A s \in Reqs : s # r => req'[s] = req[s]
  BY <1>2, <1>7 DEF Types
<1>9. Settled(conn', req')
  BY <1>1, <1>2, <1>6, <1>8 DEF Settled
<1>10. \A s \in Reqs : Known(queue', req', s)
  BY <1>1, <1>2, <1>3, <1>6, <1>8 DEF Known
<1> QED
  BY <1>1, <1>9, <1>10, Enters0

LEMMA CleanUpStep ==
    ASSUME WholeInv, NEW r \in Reqs, CleanUp(r)
    PROVE  FlowInv' /\ KnownInv'
<1>1. stack = <<>>
  BY DEF CleanUp, Call
<1>2. Types /\ Settled(conn, req) /\ \A s \in Reqs : Known(queue, req, s)
  BY <1>1, Rested
<1>3. PICK q \in ReqType : q = req[r]
  BY <1>2 DEF Types
<1>4. PICK c \in Conns \cup {NoConn} : c = q.proc
  BY DEF ReqType
<1>5. PICK p : p = Over(q)
  OBVIOUS
<1>6. p.st = "over" /\ ~p.err /\ ~p.complete
  BY <1>5, OverOK
<1>7. /\ req' = [req EXCEPT ![r] = p]
      /\ \/ stack' = <<>> /\ conn' = conn /\ (queue' = queue \/ queue' = Unlink(queue, r))
         \/ /\ c # NoConn /\ conn' = [conn EXCEPT ![c] = CleanedUp([conn[c] EXCEPT !.st = "ABORT"])]
            /\ stack' = <<Frame("recycleConn", c, NoReq, 0)>> /\ queue' = queue
  BY <1>3, <1>4, <1>5 DEF CleanUp, Call, Over
<1>8. req'[r] = p /\ \A s \in Reqs : s # r => req'[s] = req[s]
  BY <1>2, <1>7 DEF Types
<1>9. Settled(conn, req')
  BY <1>2, <1>6, <1>8 DEF Settled
<1>10. \A s \in Reqs : Known(queue', req', s)
  <2>1. \A s \in Reqs : s # r => (Has(queue, s) => Has(queue', s))
    BY <1>2, <1>7, UnlinkHas DEF Types
  <2> QED
    BY <1>2, <1>6, <1>8, <2>1 DEF Known
<1>11. CASE stack' = <<>> /\ conn' = conn
  BY <1>9, <1>10, <1>11, Enters0
<1>12. CASE /\ c # NoConn /\ conn' = [conn EXCEPT ![c] = CleanedUp([conn[c] EXCEPT !.st = "ABORT"])]
            /\ stack' = <<Frame("recycleConn", c, NoReq, 0)>>
  <2>1. c \in Conns /\ conn[c] \in ConnType
    BY <1>2, <1>12 DEF Types
  <2>2. PICK k : k = [conn[c] EXCEPT !.st = "ABORT"]
    OBVIOUS
  <2>3. k \in ConnType /\ k.st = "ABORT"
    BY <2>1, <2>2 DEF ConnType, ConnStates
  <2>4. PICK e : e = CleanedUp(k)
    OBVIOUS
  <2>5. ~e.inProcess
    BY <2>3, <2>4, CleanedUpOK
  <2>6. AtRest(e) /\ conn' = [conn EXCEPT ![c] = e]
    BY <1>12, <2>2, <2>4, <2>5 DEF AtRest
  <2>7. Settled(conn', req')
    <3>1. Settled(conn', req)
      BY <1>2, <2>1, <2>6, SettledOne
    <3> QED
      BY <1>9, <3>1 DEF Settled
  <2>8. PICK a : a = Frame("recycleConn", c, NoReq, 0)
    OBVIOUS
  <2>9. FrameOK(a) /\ a.fn = "recycleConn"
    BY <2>1, <2>8, ConnFrame, MarkFacts DEF OfConn, OfReq
  <2>10. Sure(a, conn', req') /\ a.fn \in Entries /\ stack' = <<a>>
    BY <1>12, <2>8, <2>9 DEF Sure, Entries
  <2> QED
    BY <1>10, <2>7, <2>9, <2>10, Enters1
<1> QED
  BY <1>7, <1>11, <1>12

LEMMA OnWriteStep ==
    ASSUME WholeInv, NEW c \in Conns, OnWrite(c)
    PROVE  FlowInv' /\ KnownInv'
<1>1. stack = <<>> /\ UNCHANGED <<req, queue>> /\ Handler(c, <<Frame("doWrite", c, NoReq, 0)>>)
  BY DEF OnWrite, Handler, Call, lists
<1>2. Types /\ Settled(conn, req) /\ \A s \in Reqs : Known(queue, req, s)
  BY <1>1, Rested
<1>3. PICK k \in ConnType : k = conn[c]
  BY <1>2 DEF Types
<1>4. PICK e : e = [k EXCEPT !.st = "PROCESSING"]
  OBVIOUS
<1>5. e.st = "PROCESSING" /\ e.req = k.req /\ e.inProcess = k.inProcess
  BY <1>4 DEF ConnType
<1>6. conn' = [conn EXCEPT ![c] = e]
  BY <1>2, <1>3, <1>4 DEF OnWrite, Types
<1>7. AtRest(e)
  <2>1. AtRest(k) /\ (k.st = "CONNECTING" \/ k.req # NoReq)
    BY <1>2, <1>3 DEF Settled, OnWrite, Serving
  <2> QED
    BY <1>5, <2>1 DEF AtRest
<1>8. Settled(conn', req') /\ conn'[c].st = "PROCESSING"
  <2>1. Settled(conn', req')
    BY <1>1, <1>2, <1>6, <1>7, SettledOne
  <2> QED
    BY <1>2, <1>5, <1>6, <2>1 DEF Types
<1>9. \A s \in Reqs : Known(queue', req', s)
  BY <1>1, <1>2
<1> QED
  BY <1>1, <1>8, <1>9, EntersConn, MarkFacts

LEMMA OnConnectFailStep ==
    ASSUME WholeInv, NEW c \in Conns, OnConnectFail(c)
    PROVE  FlowInv' /\ KnownInv'
<1>1. PICK x \in AsyncErrnos : Handler(c, <<Frame("connError", c, NoReq, x)>>)
  BY DEF OnConnectFail
<1>2. stack = <<>> /\ UNCHANGED <<conn, req, queue>>
  BY DEF OnConnectFail, Handler, Call, lists
<1>3. Settled(conn', req') /\ \A s \in Reqs : Known(queue', req', s)
  BY <1>2, Rested
<1> QED
  BY <1>1, <1>3, EntersConn, MarkFacts

LEMMA OnReadFailStep ==
    ASSUME WholeInv, NEW c \in Conns, OnReadFail(c)
    PROVE  FlowInv' /\ KnownInv'
<1>1. PICK x \in IoErrnos : Handler(c, <<Frame("connError", c, NoReq, x)>>)
  BY DEF OnReadFail
<1>2. stack = <<>> /\ UNCHANGED <<conn, req, queue>>
  BY DEF OnReadFail, Handler, Call, lists
<1>3. Settled(conn', req') /\ \A s \in Reqs : Known(queue', req', s)
  BY <1>2, Rested
<1> QED
  BY <1>1, <1>3, EntersConn, MarkFacts

\* an event that ends the exchange of a connection, or changes nothing of it
LEMMA ConnRests ==
    ASSUME WholeInv, stack = <<>>, NEW c \in Conns, NEW e \in ConnType, conn' = [conn EXCEPT ![c] = e],
           e.st \in {"ABORT", "CLOSING"} \/ ~e.inProcess, NEW r \in Reqs, r = conn[c].req,
           req'[r].proc = req[r].proc
    PROVE  /\ Settled(conn', req)
           /\ \A d \in Conns : req'[r].proc = d /\ conn'[d].inProcess => conn'[d].st # "PROCESSING"
<1>1. Types /\ Settled(conn, req) /\ Placed(conn, queue, req, pool)
  BY Rested
<1>2. AtRest(e)
  BY DEF AtRest
<1>3. Settled(conn', req)
  BY <1>1, <1>2, SettledOne
<1>4. req[r].proc = c
  BY <1>1 DEF Placed
<1>5. conn'[c] = e
  BY <1>1 DEF Types
<1>6. \A d \in Conns : req'[r].proc = d /\ conn'[d].inProcess => conn'[d].st # "PROCESSING"
  BY <1>4, <1>5
<1> QED
  BY <1>3, <1>6

LEMMA OnRespHeaderStep ==
    ASSUME WholeInv, NEW c \in Conns, NEW close \in BOOLEAN, OnRespHeader(c, close)
    PROVE  FlowInv' /\ KnownInv'
<1>1. stack = <<>> /\ stack' = <<>> /\ queue' = queue
  BY DEF OnRespHeader
<1>2. Types /\ Settled(conn, req) /\ BaseInv /\ \A s \in Reqs : Known(queue, req, s)
  BY <1>1, Rested
<1>3. PICK r \in Reqs : r = conn[c].req
  BY <1>2, AnswerOf DEF OnRespHeader
<1>4. PICK h \in {"ok", "close"} : h = IF close THEN "close" ELSE "ok"
  OBVIOUS
<1>5. PICK q \in ReqType : q = req[r]
  BY <1>2 DEF Types
<1>6. PICK p : p = [q EXCEPT !.hdr = h]
  OBVIOUS
<1>7. /\ p \in ReqType /\ p.proc = q.proc /\ p.st = q.st /\ p.complete = q.complete /\ p.err = q.err
      /\ p.out = q.out /\ p.alive = q.alive
  BY <1>6 DEF ReqType
<1>8. PICK k \in ConnType : k = conn[c]
  BY <1>2 DEF Types
<1>9. PICK yes \in BOOLEAN : yes = TRUE
  OBVIOUS
<1>10. PICK e : e = [k EXCEPT !.toClose = yes]
  OBVIOUS
<1>11. e \in ConnType /\ e.req = k.req /\ e.st = k.st /\ e.inProcess = k.inProcess
  BY <1>10 DEF ConnType
<1>12. req' = [req EXCEPT ![r] = p] /\ (conn' = [conn EXCEPT ![c] = e] \/ conn' = conn)
  BY <1>2, <1>3, <1>4, <1>5, <1>6, <1>8, <1>9, <1>10 DEF OnRespHeader, Types
<1>13. Settled(conn', req)
  <2>1. AtRest(e)
    BY <1>2, <1>8, <1>11 DEF Settled, AtRest
  <2> QED
    BY <1>2, <1>12, <2>1, SettledOne
<1>14. Settled(conn', req') /\ \A s \in Reqs : Known(queue', req', s)
  <2>1. /\ p.proc = req[r].proc /\ p.st = req[r].st /\ p.alive = req[r].alive /\ p.out = req[r].out
        /\ p.err \/ p.complete => p.out # 0
    BY <1>2, <1>5, <1>7 DEF Settled
  <2> QED
    BY <1>1, <1>2, <1>7, <1>12, <1>13, <2>1, OneKnown
<1> QED
  BY <1>1, <1>14, Enters0

LEMMA OnBadHeaderStep ==
    ASSUME WholeInv, NEW c \in Conns, NEW tooLong \in BOOLEAN, OnBadHeader(c, tooLong)
    PROVE  FlowInv' /\ KnownInv'
<1>1. stack = <<>> /\ queue' = queue
  BY DEF OnBadHeader, Handler, Call, lists
<1>2. Types /\ Settled(conn, req) /\ BaseInv /\ \A s \in Reqs : Known(queue, req, s)
  BY <1>1, Rested
<1>3. PICK r \in Reqs : r = conn[c].req
  BY <1>2, AnswerOf DEF OnBadHeader
<1>4. PICK q \in ReqType : q = req[r]
  BY <1>2 DEF Types
<1>5. PICK yes \in BOOLEAN : yes = TRUE
  OBVIOUS
<1>6. PICK v : v = IF tooLong THEN [q EXCEPT !.abort = yes] ELSE q
  OBVIOUS
<1>7. v \in ReqType /\ v.proc = q.proc /\ v.st = q.st /\ v.alive = q.alive
  <2>1. PICK w : w = [q EXCEPT !.abort = yes]
    OBVIOUS
  <2>2. w \in ReqType /\ w.proc = q.proc /\ w.st = q.st /\ w.alive = q.alive
    BY <2>1 DEF ReqType
  <2> QED
    BY <1>6, <2>1, <2>2
<1>8. PICK p : p = ErrResponse(v, 500)
  OBVIOUS
<1>9. p \in ReqType /\ p.proc = v.proc /\ p.st = v.st /\ p.alive = v.alive /\ p.out = 500
  BY <1>7, <1>8, ErrOK
<1>10. req' = [req EXCEPT ![r] = p]
  BY <1>3, <1>4, <1>5, <1>6, <1>8 DEF OnBadHeader
<1>11. p.proc = req[r].proc /\ p.st = req[r].st /\ p.alive = req[r].alive /\ p.out # 0
  BY <1>4, <1>7, <1>9
<1>12. PICK x \in Errnos :
          Handler(c, (IF tooLong THEN <<Frame("endResponse", NoConn, r, 0)>> ELSE <<>>)
                     \o <<Frame("connError", c, NoReq, x)>>)
  BY <1>3 DEF OnBadHeader
<1>13. PICK g : g = Frame("connError", c, NoReq, x)
  OBVIOUS
<1>14. CASE tooLong
  <2>1. PICK k \in ConnType : k = [conn[c] EXCEPT !.st = "ABORT"]
    BY <1>2 DEF Types, ConnType, ConnStates
  <2>2. PICK e : e = [k EXCEPT !.used = yes]
    OBVIOUS
  <2>3. conn[c] \in ConnType
    BY <1>2 DEF Types
  <2>4. k.st = "ABORT"
    BY <2>1, <2>3 DEF ConnType
  <2>5. e \in ConnType /\ e.st = "ABORT"
    BY <2>2, <2>4 DEF ConnType
  <2>6. conn' = [conn EXCEPT ![c] = e]
    BY <1>2, <1>5, <1>14, <2>1, <2>2 DEF OnBadHeader, Types
  <2>7. req'[r].proc = req[r].proc
    BY <1>2, <1>10, <1>11 DEF Types
  <2>8. /\ Settled(conn', req)
        /\ \A d \in Conns : req'[r].proc = d /\ conn'[d].inProcess => conn'[d].st # "PROCESSING"
    BY <1>1, <1>3, <2>5, <2>6, <2>7, ConnRests
  <2>9. Settled(conn', req') /\ \A s \in Reqs : Known(queue', req', s)
    <3>1. PICK cn : cn = conn'
      OBVIOUS
    <3>2. /\ Types /\ Settled(cn, req) /\ p \in ReqType /\ queue' = queue
          /\ p.err \/ p.complete => p.out # 0
          /\ req[r].out # 0 => p.out # 0
      BY <1>1, <1>2, <1>9, <1>11, <2>8, <3>1
    <3>3. Settled(cn, req') /\ \A s \in Reqs : Known(queue, req, s) => Known(queue', req', s)
      BY <1>10, <1>11, <3>2, OneKnown
    <3> QED
      BY <1>2, <3>1, <3>3
  <2>10. FrameOK(g) /\ g.fn = "connError"
    BY <1>13, ConnFrame, MarkFacts DEF OfConn, OfReq
  <2>11. PICK a : a = Frame("endResponse", NoConn, r, 0)
    OBVIOUS
  <2>12. Handler(c, <<a>> \o <<g>>)
    BY <1>12, <1>13, <1>14, <2>11
  <2>13. <<a>> \o <<g>> = <<a, g>>
    BY Concats
  <2>14. Handler(c, <<a, g>>)
    BY <2>12, <2>13
  <2> QED
    BY <2>8, <2>9, <2>10, <2>11, <2>14, EntersEnd
<1>15. CASE ~tooLong
  <2>1. conn' = conn
    BY <1>15 DEF OnBadHeader
  <2>2. Settled(conn', req') /\ \A s \in Reqs : Known(queue', req', s)
    BY <1>1, <1>2, <1>9, <1>10, <1>11, <2>1, OneKnown
  <2>3. Handler(c, <<>> \o <<g>>)
    BY <1>12, <1>13, <1>15
  <2>4. <<>> \o <<g>> = <<g>>
    OBVIOUS
  <2>5. Handler(c, <<g>>)
    BY <2>3, <2>4
  <2> QED
    BY <1>13, <2>2, <2>5, EntersConn, MarkFacts
<1> QED
  BY <1>14, <1>15

LEMMA OnRespDoneStep ==
    ASSUME WholeInv, NEW c \in Conns, OnRespDone(c)
    PROVE  FlowInv' /\ KnownInv'
<1>1. stack = <<>> /\ queue' = queue /\ req' = req
  BY DEF OnRespDone, Handler, Call, lists
<1>2. Types /\ BaseInv /\ \A s \in Reqs : Known(queue, req, s)
  BY <1>1, Rested
<1>3. PICK r \in Reqs : r = conn[c].req
  BY <1>2, AnswerOf DEF OnRespDone
<1>4. conn[c] \in ConnType
  BY <1>2 DEF Types
<1>5. PICK st \in ConnStates : st = IF req[r].hdr = "close" THEN "CLOSING" ELSE conn[c].st
  BY <1>4 DEF ConnType, ConnStates
<1>6. PICK yes \in BOOLEAN, no \in BOOLEAN : yes = TRUE /\ no = FALSE
  OBVIOUS
<1>7. PICK k, e : k = [conn[c] EXCEPT !.used = yes, !.inProcess = no] /\ e = [k EXCEPT !.st = st]
  OBVIOUS
<1>8. k \in ConnType /\ k.inProcess = no
  BY <1>4, <1>7 DEF ConnType
<1>9. e \in ConnType /\ e.inProcess = no
  BY <1>7, <1>8 DEF ConnType
<1>10. conn' = [conn EXCEPT ![c] = e]
  BY <1>2, <1>3, <1>5, <1>6, <1>7 DEF OnRespDone, Types
<1>11. /\ Settled(conn', req)
       /\ \A d \in Conns : req'[r].proc = d /\ conn'[d].inProcess => conn'[d].st # "PROCESSING"
  <2>1. ~e.inProcess /\ req'[r].proc = req[r].proc
    BY <1>1, <1>6, <1>9
  <2> QED
    BY <1>1, <1>3, <1>9, <1>10, <2>1, ConnRests
<1>12. PICK g : g = Frame("return", NoConn, NoReq, 0)
  OBVIOUS
<1>13. FrameOK(g) /\ Zero(g)
  BY <1>12, ReturnFrame, MarkFacts DEF Zero
<1>14. Handler(c, <<Frame("endResponse", NoConn, r, 0), g>>)
  BY <1>3, <1>12 DEF OnRespDone
<1>15. Settled(conn', req') /\ \A s \in Reqs : Known(queue', req', s)
  BY <1>1, <1>2, <1>11
<1> QED
  BY <1>11, <1>13, <1>14, <1>15, EntersEnd

LEMMA OnBodyResetStep ==
    ASSUME WholeInv, NEW c \in Conns, OnBodyReset(c)
    PROVE  FlowInv' /\ KnownInv'
<1>1. stack = <<>> /\ queue' = queue
  BY DEF OnBodyReset, Handler, Call, lists
<1>2. Types /\ BaseInv /\ Settled(conn, req) /\ \A s \in Reqs : Known(queue, req, s)
  BY <1>1, Rested
<1>3. PICK r \in Reqs : r = conn[c].req
  BY <1>2, AnswerOf DEF OnBodyReset
<1>4. conn[c] \in ConnType
  BY <1>2 DEF Types
<1>5. PICK yes \in BOOLEAN, no \in BOOLEAN : yes = TRUE /\ no = FALSE
  OBVIOUS
<1>6. PICK e : e = [conn[c] EXCEPT !.used = yes, !.inProcess = no]
  OBVIOUS
<1>7. e \in ConnType /\ e.inProcess = no
  BY <1>4, <1>6 DEF ConnType
<1>8. PICK q \in ReqType : q = req[r]
  BY <1>2 DEF Types
<1>9. PICK p : p = [q EXCEPT !.abort = yes]
  OBVIOUS
<1>10. /\ p \in ReqType /\ p.proc = q.proc /\ p.st = q.st /\ p.complete = q.complete /\ p.err = q.err
       /\ p.out = q.out /\ p.alive = q.alive
  BY <1>9 DEF ReqType
<1>11. conn' = [conn EXCEPT ![c] = e] /\ req' = [req EXCEPT ![r] = p]
  BY <1>2, <1>3, <1>5, <1>6, <1>8, <1>9 DEF OnBodyReset, Types
<1>12. /\ Settled(conn', req)
       /\ \A d \in Conns : req'[r].proc = d /\ conn'[d].inProcess => conn'[d].st # "PROCESSING"
  <2>1. ~e.inProcess
    BY <1>5, <1>7
  <2>2. req'[r].proc = req[r].proc
    BY <1>2, <1>8, <1>10, <1>11 DEF Types
  <2> QED
    BY <1>1, <1>3, <1>7, <1>11, <2>1, <2>2, ConnRests
<1>13. Settled(conn', req') /\ \A s \in Reqs : Known(queue', req', s)
  <2>1. /\ p.proc = req[r].proc /\ p.st = req[r].st /\ p.alive = req[r].alive /\ p.out = req[r].out
        /\ p.err \/ p.complete => p.out # 0
    BY <1>2, <1>8, <1>10 DEF Settled
  <2> QED
    BY <1>1, <1>2, <1>10, <1>11, <1>12, <2>1, OneKnown
<1>14. PICK x \in Errnos : Handler(c, <<Frame("endResponse", NoConn, r, 0), Frame("connError", c, NoReq, x)>>)
  BY <1>3 DEF OnBodyReset
<1>15. PICK g : g = Frame("connError", c, NoReq, x)
  OBVIOUS
<1>16. FrameOK(g) /\ g.fn = "connError"
  BY <1>15, ConnFrame, MarkFacts DEF OfConn, OfReq
<1> QED
  BY <1>12, <1>13, <1>14, <1>15, <1>16, EntersEnd

\* endResponse() on its own
LEMMA EntersEnd1 ==
    ASSUME NEW r \in Reqs, stack' = <<Frame("endResponse", NoConn, r, 0)>>,
           \A d \in Conns : req'[r].proc = d /\ conn'[d].inProcess => conn'[d].st # "PROCESSING",
           Settled(conn', req'), \A s \in Reqs : Known(queue', req', s)
    PROVE  FlowInv' /\ KnownInv'
<1>1. PICK a : a = Frame("endResponse", NoConn, r, 0)
  OBVIOUS
<1>2. FrameOK(a) /\ a.fn = "endResponse" /\ a.r = r
  BY <1>1, ReqFrame, MarkFacts DEF OfReq, OfConn
<1>3. Sure(a, conn', req') /\ a.fn \in Entries /\ stack' = <<a>>
  BY <1>1, <1>2 DEF Sure, Entries
<1> QED
  BY <1>2, <1>3, Enters1

LEMMA OnErrorStep ==
    ASSUME WholeInv, NEW c \in Conns, OnError(c)
    PROVE  FlowInv' /\ KnownInv'
<1>1. stack = <<>> /\ queue' = queue /\ req' = req
  BY DEF OnError, Call, lists
<1>2. Types /\ Placed(conn, queue, req, pool) /\ Settled(conn, req) /\ \A s \in Reqs : Known(queue, req, s)
  BY <1>1, Rested
<1>3. conn[c] \in ConnType
  BY <1>2 DEF Types
<1>4. PICK e : e = [conn[c] EXCEPT !.st = "CLOSING"]
  OBVIOUS
<1>5. e \in ConnType /\ e.st = "CLOSING" /\ AtRest(e)
  BY <1>3, <1>4 DEF ConnType, ConnStates, AtRest
<1>6. conn' = [conn EXCEPT ![c] = e]
  BY <1>2, <1>4 DEF OnError, Types
<1>7. Settled(conn', req') /\ \A s \in Reqs : Known(queue', req', s)
  BY <1>1, <1>2, <1>5, <1>6, SettledOne
<1>8. \/ stack' = <<>>
      \/ \E x \in IoErrnos \cup AsyncErrnos : stack' = <<Frame("connError", c, NoReq, x)>>
      \/ conn[c].req # NoReq /\ stack' = <<Frame("endResponse", NoConn, conn[c].req, 0)>>
  BY DEF OnError, Call
<1>9. CASE stack' = <<>>
  BY <1>7, <1>9, Enters0
<1>10. ASSUME NEW x \in IoErrnos \cup AsyncErrnos, stack' = <<Frame("connError", c, NoReq, x)>>
       PROVE  FlowInv' /\ KnownInv'
  <2>1. PICK a : a = Frame("connError", c, NoReq, x)
    OBVIOUS
  <2>2. FrameOK(a) /\ a.fn = "connError"
    BY <2>1, ConnFrame, MarkFacts DEF OfConn, OfReq
  <2>3. Sure(a, conn', req') /\ a.fn \in Entries /\ stack' = <<a>>
    BY <1>10, <2>1, <2>2 DEF Sure, Entries
  <2> QED
    BY <1>7, <2>2, <2>3, Enters1
<1>11. CASE conn[c].req # NoReq /\ stack' = <<Frame("endResponse", NoConn, conn[c].req, 0)>>
  <2>1. PICK r \in Reqs : r = conn[c].req
    BY <1>2, <1>11, Carried
  <2>2. \A d \in Conns : req'[r].proc = d /\ conn'[d].inProcess => conn'[d].st # "PROCESSING"
    BY <1>1, <1>5, <1>6, <2>1, ConnRests
  <2> QED
    BY <1>7, <1>11, <2>1, <2>2, EntersEnd1
<1> QED
  BY <1>8, <1>9, <1>10, <1>11

LEMMA OnIdleTimeoutStep ==
    ASSUME WholeInv, NEW c \in Conns, OnIdleTimeout(c)
    PROVE  FlowInv' /\ KnownInv'
<1>1. stack = <<>> /\ stack' = <<>> /\ UNCHANGED <<req, queue>> /\ conn' = [conn EXCEPT ![c] = Closed(conn[c])]
  BY DEF OnIdleTimeout
<1>2. Types /\ Settled(conn, req) /\ \A s \in Reqs : Known(queue, req, s)
  BY <1>1, Rested
<1>3. AtRest(Closed(conn[c]))
  BY <1>2, ClosedRest DEF Types, Settled
<1>4. Settled(conn', req')
  BY <1>1, <1>2, <1>3, SettledOne
<1> QED
  BY <1>1, <1>2, <1>4, Enters0

LEMMA OnChunkTimeoutStep ==
    ASSUME WholeInv, NEW c \in Conns, NEW st \in {"ABORT", "CLOSING"}, OnChunkTimeout(c, st)
    PROVE  FlowInv' /\ KnownInv'
<1>1. stack = <<>> /\ queue' = queue /\ req' = req
  BY DEF OnChunkTimeout, Call, lists
<1>2. Types /\ BaseInv /\ \A s \in Reqs : Known(queue, req, s)
  BY <1>1, Rested
<1>3. PICK r \in Reqs : r = conn[c].req
  BY <1>2, AnswerOf DEF OnChunkTimeout
<1>4. conn[c] \in ConnType
  BY <1>2 DEF Types
<1>5. PICK e : e = [conn[c] EXCEPT !.st = st]
  OBVIOUS
<1>6. e \in ConnType /\ e.st = st
  BY <1>4, <1>5 DEF ConnType, ConnStates
<1>7. conn' = [conn EXCEPT ![c] = e]
  BY <1>2, <1>5 DEF OnChunkTimeout, Types
<1>8. /\ Settled(conn', req)
      /\ \A d \in Conns : req'[r].proc = d /\ conn'[d].inProcess => conn'[d].st # "PROCESSING"
  BY <1>1, <1>3, <1>6, <1>7, ConnRests
<1>9. stack' = <<Frame("endResponse", NoConn, r, 0)>>
  BY <1>3 DEF OnChunkTimeout, Call
<1>10. Settled(conn', req') /\ \A s \in Reqs : Known(queue', req', s)
  BY <1>1, <1>2, <1>8
<1> QED
  BY <1>8, <1>9, <1>10, EntersEnd1

LEMMA ResetStatsStep ==
    ASSUME WholeInv, ResetStats
    PROVE  FlowInv' /\ KnownInv'
<1>1. PICK a, b : a = Frame("processPending", NoConn, NoReq, 0) /\ b = Frame("resetStats2", NoConn, NoReq, 0)
  OBVIOUS
<1>2. /\ stack = <<>> /\ UNCHANGED <<req, queue>> /\ (conn' = conn \/ conn' = ClearConns(conn, pool))
      /\ stack' = <<b>> \/ stack' = <<a>> \o <<b>>
  BY <1>1 DEF ResetStats, Call
<1>3. Types /\ Settled(conn, req) /\ \A s \in Reqs : Known(queue, req, s)
  BY <1>2, Rested
<1>4. FrameOK(a) /\ a.fn = "processPending" /\ FrameOK(b) /\ b.fn = "resetStats2"
  BY <1>1, PendingFrame, PlainFrame
<1>5. Settled(conn', req')
  <2>1. AllKept(conn, ClearConns(conn, pool))
    BY <1>3, ClearConnsOK DEF Types
  <2> QED
    BY <1>2, <1>3, <2>1, KeptRest
<1>6. \A s \in Reqs : Known(queue', req', s)
  BY <1>2, <1>3
<1>7. /\ Sure(a, conn', req') /\ Sure(b, conn', req') /\ Ties(a, b) /\ a.fn \in Entries /\ b.fn \in Entries
      /\ b.fn \notin After \cup {"failOutstandingReqs"}
  BY <1>4 DEF Sure, Ties, Entries, After
<1>8. CASE stack' = <<b>>
  BY <1>4, <1>5, <1>6, <1>7, <1>8, Enters1
<1>9. CASE stack' = <<a>> \o <<b>>
  <2>1. stack' = <<a, b>>
    BY <1>9, Concats
  <2> QED
    BY <1>4, <1>5, <1>6, <1>7, <2>1, Enters2
<1> QED
  BY <1>2, <1>8, <1>9

LEMMA AgeStep ==
    ASSUME WholeInv, Age
    PROVE  FlowInv' /\ KnownInv'
<1>1. stack = <<>> /\ stack' = <<>> /\ UNCHANGED <<conn, req, queue>>
  BY DEF Age, Call
<1>2. Settled(conn', req') /\ \A s \in Reqs : Known(queue', req', s)
  BY <1>1, Rested
<1> QED
  BY <1>1, <1>2, Enters0

LEMMA InitWhole ==
    ASSUME Init
    PROVE  WholeInv
<1>1. BaseInv
  BY InitBase
<1>2. stack = <<>> /\ conn = [c \in Conns |-> FreshConn] /\ req = [r \in Reqs |-> FreshReq]
  BY DEF Init
<1>3. FlowInv
  BY <1>2 DEF FlowInv, Chained, Floored
<1>4. AtRest(FreshConn)
  BY DEF AtRest, FreshConn
<1>5. ~FreshReq.err /\ ~FreshReq.complete /\ FreshReq.st = "idle"
  BY DEF FreshReq
<1>6. Settled(conn, req)
  BY <1>2, <1>4, <1>5 DEF Settled
<1>7. \A r \in Reqs : Known(queue, req, r)
  BY <1>2, <1>5 DEF Known
<1> QED
  BY <1>1, <1>2, <1>3, <1>6, <1>7 DEF WholeInv, KnownInv

LEMMA WholeStep ==
    ASSUME WholeInv, [Next]_vars
    PROVE  WholeInv'
<1>1. BaseInv'
  BY BaseStep DEF WholeInv
<1>2. CASE Step
  <2>1. FlowInv' /\ KnownInv'
    BY <1>2, ProcessRequestStep, ProcessRequest2Step, ReturnValueStep, RecycleConnStep, RecycleLoopStep,
       RecycleLoop2Step, ProcessPendingStep, ProcessPending2Step, AssignReqStep, AssignReq2Step,
       ConnectExStep, DoWriteStep, ConnErrorStep, ConnError2Step, ConnectionErrorStep,
       ConnectionError2Step, FailOutstandingReqsStep, TryRecoverStep, TryRecover2Step,
       EndResponseStep, OnEventDoneStep, ProcessStep, ResetStats2Step DEF Step
  <2> QED
    BY <1>1, <2>1 DEF WholeInv
<1>3. ASSUME NEW c \in Conns, ConnEvent(c) PROVE WholeInv'
  <2>1. FlowInv' /\ KnownInv'
    BY <1>3, OnWriteStep, OnConnectFailStep, OnReadFailStep, OnBodyResetStep, OnErrorStep,
       OnIdleTimeoutStep, OnRespDoneStep, OnRespHeaderStep, OnBadHeaderStep, OnChunkTimeoutStep DEF ConnEvent
  <2> QED
    BY <1>1, <2>1 DEF WholeInv
<1>4. ASSUME NEW r \in Reqs, NewRequest(r) \/ ClientGone(r) \/ CleanUp(r) PROVE WholeInv'
  <2>1. FlowInv' /\ KnownInv'
    BY <1>4, NewRequestStep, ClientGoneStep, CleanUpStep
  <2> QED
    BY <1>1, <2>1 DEF WholeInv
<1>5. CASE ResetStats \/ Age
  <2>1. FlowInv' /\ KnownInv'
    BY <1>5, ResetStatsStep, AgeStep
  <2> QED
    BY <1>1, <2>1 DEF WholeInv
<1>6. CASE UNCHANGED vars
  <2>1. FlowInv' /\ KnownInv'
    BY <1>6 DEF vars, WholeInv, FlowInv, KnownInv
  <2> QED
    BY <1>1, <2>1 DEF WholeInv
<1> QED
  BY <1>2, <1>3, <1>4, <1>5, <1>6 DEF Next

\* The whole inductive invariant: the first part, which functions may wait for which
\* and what each may rely on when its callee has failed, connections without a request
\* at rest, and no request whose client waits unknown to everybody.
THEOREM WholeInvariant == Spec => []WholeInv
<1>1. Init => WholeInv
  BY InitWhole
<1>2. WholeInv /\ [Next]_vars => WholeInv'
  BY WholeStep
<1> QED
  BY <1>1, <1>2, PTL DEF Spec

\* Between two events every request whose client still waits is in the queue of the
\* worker or on a connection, however often assignReq(), connError(), tryRecover() and
\* failOutstandingReqs() called each other on the way.
THEOREM NoneForgotten == Spec => []NobodyForgotten
<1>1. ASSUME WholeInv PROVE NobodyForgotten
  <2>1. SUFFICES ASSUME stack = <<>>, NEW r \in Reqs, req[r].st = "active", req[r].alive, req[r].out = 0
                 PROVE  r \in ToSet(queue) \/ req[r].proc # NoConn
    BY DEF NobodyForgotten
  <2>2. Types /\ Known(queue, req, r)
    BY <1>1, <2>1, Rested
  <2>3. Has(queue, r) \/ req[r].proc # NoConn
    BY <2>1, <2>2 DEF Known
  <2> QED
    BY <2>2, <2>3, ToSetHas DEF Types
<1> QED
  BY <1>1, WholeInvariant, PTL

\* assignReq() only meets a connection on which no exchange is under way, and a
\* caller that takes its request back after a failed assignReq() never takes back
\* somebody else's: its connection carries none.
THEOREM AssignmentsAtRest == Spec => []AssignsAtRest
<1>1. ASSUME WholeInv PROVE AssignsAtRest
  <2>1. ASSUME Top("assignReq")
        PROVE  conn[top.c].st \in {"ABORT", "CLOSING"} \/ (~conn[top.c].inProcess /\ ~Serving(top.c))
    <3>1. PICK f, u : f = Head(stack) /\ u = Tail(stack) /\ stack # <<>> /\ f.fn = "assignReq"
      BY <2>1 DEF Top
    <3>2. Settled(conn, req) /\ Held(f, conn, queue, req, pool) /\ FrameOK(f)
      BY <1>1, <3>1, WholeRuns
    <3>3. PICK c \in Conns : c = f.c
      BY <3>1, <3>2 DEF FrameOK, OfConn
    <3>4. conn[c].req = NoReq /\ AtRest(conn[c])
      BY <3>1, <3>2, <3>3 DEF Held, Idle, Settled
    <3> QED
      BY <3>1, <3>3, <3>4 DEF AtRest, Serving, top
  <2>2. ASSUME NEW fn \in {"processRequest2", "recycleLoop2", "processPending2"}, Top(fn), ret # 0, Serving(top.c)
        PROVE  conn[top.c].req = top.r
    <3>1. PICK f, u : f = Head(stack) /\ u = Tail(stack) /\ stack # <<>> /\ f.fn = fn
      BY <2>2 DEF Top
    <3>2. Claim(f, u, conn, ret, req)
      BY <1>1, <3>1, WholeRuns DEF Runs
    <3>3. conn[f.c].req = NoReq
      BY <2>2, <3>1, <3>2 DEF Claim, After
    <3> QED
      BY <2>2, <3>1, <3>3 DEF Serving, top
  <2> QED
    BY <2>1, <2>2 DEF AssignsAtRest
<1> QED
  BY <1>1, WholeInvariant, PTL

\* After a failed assignReq() the caller's connection carries nothing, whatever ran in
\* between: the branches of processRequest(), recycleConn() and processPending() that
\* take the request back are never entered with the proxy's connections.
THEOREM NothingToTakeBack == Spec => [](\A fn \in After : Top(fn) /\ ret # 0 => ~Serving(top.c))
<1>1. ASSUME WholeInv PROVE \A fn \in After : Top(fn) /\ ret # 0 => ~Serving(top.c)
  <2>1. SUFFICES ASSUME NEW fn \in After, Top(fn), ret # 0
                 PROVE  ~Serving(top.c)
    OBVIOUS
  <2>2. PICK f, u : f = Head(stack) /\ u = Tail(stack) /\ stack # <<>> /\ f.fn = fn
    BY <2>1 DEF Top
  <2>3. Claim(f, u, conn, ret, req)
    BY <1>1, <2>2, WholeRuns DEF Runs
  <2> QED
    BY <2>1, <2>2, <2>3 DEF Claim, Serving, top
<1> QED
  BY <1>1, WholeInvariant, PTL
=============================================================================
