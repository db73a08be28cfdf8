------------------------------ MODULE Iteration ------------------------------
(***************************************************************************)
(* Induction over the natural numbers in a form the provers can use: over  *)
(* a set instead of over a predicate.  With it, a recursive function that  *)
(* walks along the links of a list is shown to satisfy its own equation.   *)
(* And division: what wraps in a counter of a fixed width.  And sequences  *)
(* used as lists: what is in them when one end changes.                    *)
(***************************************************************************)
EXTENDS Integers, Sequences, WellFoundedInduction, TLAPS

LessThan == {ss \in Nat \X Nat : ss[1] < ss[2]}

LEMMA LessThanWellFounded == IsWellFoundedOn(LessThan, Nat)
  BY NatLessThanWellFounded DEF OpToRel, LessThan

\* A set of natural numbers that is not empty has a least member.
LEMMA NatLeast ==
    ASSUME NEW S, S \subseteq Nat, S # {}
    PROVE  \E m \in S : \A k \in S : m <= k
<1>1. PICK m \in S : \A k \in S : ~ (<<k, m>> \in LessThan)
  BY LessThanWellFounded, WFMin
<1>2. \A k \in S : ~(k < m)
  BY <1>1 DEF LessThan
<1> QED
  BY <1>2

\* Induction.
LEMMA NatInSet ==
    ASSUME NEW S, 0 \in S, \A n \in Nat : n \in S => n + 1 \in S
    PROVE  \A n \in Nat : n \in S
<1> DEFINE out == Nat \ S
<1>1. SUFFICES out = {}
  OBVIOUS
<1>2. ASSUME out # {} PROVE FALSE
  <2>1. PICK m \in out : \A k \in out : m <= k
    <3> HIDE DEF out
    <3>1. out \subseteq Nat
      BY DEF out
    <3> QED
      BY <1>2, <3>1, NatLeast
  <2>2. m \in Nat /\ m # 0
    BY <2>1
  <2>3. m - 1 \in S
    BY <2>1, <2>2
  <2> QED
    BY <2>1, <2>2, <2>3
<1> QED
  BY <1>2

-----------------------------------------------------------------------------

\* the first n + 1 members of e, f[e], f[f[e]], ...
Begins(f, e, S, n, w) ==
    /\ w \in [0 .. n -> S]
    /\ w[0] = e
    /\ \A i \in 0 .. n - 1 : w[i + 1] = f[w[i]]

LEMMA BeginningExists ==
    ASSUME NEW S, NEW f \in [S -> S], NEW e \in S
    PROVE  \A n \in Nat : \E w : Begins(f, e, S, n, w)
<1> DEFINE P == {n \in Nat : \E w : Begins(f, e, S, n, w)}
<1>1. 0 \in P
  <2>1. Begins(f, e, S, 0, [i \in 0 .. 0 |-> e])
    BY DEF Begins
  <2> QED
    BY <2>1
<1>2. ASSUME NEW n \in Nat, n \in P PROVE n + 1 \in P
  <2>1. PICK w : Begins(f, e, S, n, w)
    BY <1>2
  <2> DEFINE v == [i \in 0 .. n + 1 |-> IF i = n + 1 THEN f[w[n]] ELSE w[i]]
  <2>2. Begins(f, e, S, n + 1, v)
    <3>1. v \in [0 .. n + 1 -> S]
      BY <2>1 DEF Begins
    <3>2. v[0] = e
      BY <2>1 DEF Begins
    <3>3. \A i \in 0 .. n : v[i + 1] = f[v[i]]
      BY <2>1 DEF Begins
    <3> QED
      BY <3>1, <3>2, <3>3 DEF Begins
  <2> QED
    BY <2>2
<1> HIDE DEF P
<1>3. \A n \in Nat : n \in P
  BY <1>1, <1>2, NatInSet
<1> QED
  BY <1>3 DEF P

LEMMA BeginningUnique ==
    ASSUME NEW S, NEW f \in [S -> S], NEW e \in S,
           NEW n \in Nat, NEW m \in Nat, NEW v, NEW w,
           Begins(f, e, S, n, v), Begins(f, e, S, m, w)
    PROVE  \A i \in Nat : i <= n /\ i <= m => v[i] = w[i]
<1> DEFINE P == {i \in Nat : i <= n /\ i <= m => v[i] = w[i]}
<1>1. 0 \in P
  BY DEF Begins
<1>2. ASSUME NEW i \in Nat, i \in P PROVE i + 1 \in P
  BY <1>2 DEF Begins
<1> HIDE DEF P
<1>3. \A i \in Nat : i \in P
  BY <1>1, <1>2, NatInSet
<1> QED
  BY <1>3 DEF P

\* all of them
Iterates(f, e, S, w) ==
    w \in [Nat -> S] /\ w[0] = e /\ \A i \in Nat : w[i + 1] = f[w[i]]

\* A function on S can be iterated.
LEMMA IterationExists ==
    ASSUME NEW S, NEW f \in [S -> S], NEW e \in S
    PROVE  \E w : Iterates(f, e, S, w)
<1> DEFINE b(n) == CHOOSE w : Begins(f, e, S, n, w)
           w == [n \in Nat |-> b(n)[n]]
<1>1. \A n \in Nat : Begins(f, e, S, n, b(n))
  BY BeginningExists
<1> HIDE DEF b
<1>2. w \in [Nat -> S] /\ w[0] = e
  BY <1>1 DEF Begins
<1>3. ASSUME NEW i \in Nat PROVE w[i + 1] = f[w[i]]
  <2>1. Begins(f, e, S, i, b(i)) /\ Begins(f, e, S, i + 1, b(i + 1))
    BY <1>1
  <2>2. b(i)[i] = b(i + 1)[i]
    BY <2>1, BeginningUnique
  <2>3. b(i + 1)[i + 1] = f[b(i + 1)[i]]
    BY <2>1 DEF Begins
  <2> QED
    BY <2>2, <2>3
<1> HIDE DEF w
<1>4. Iterates(f, e, S, w)
  BY <1>2, <1>3 DEF Iterates
<1> QED
  BY <1>4

-----------------------------------------------------------------------------

\* A walk of N steps, whose k-th step is g[k] and leads from T[k] to T[k + 1].
Walk(N, T, g, e, w) ==
    /\ w = [k \in 0 .. N |-> w[k]]
    /\ w[0] = e
    /\ \A k \in 0 .. N - 1 : w[k + 1] = g[k][w[k]]
    /\ \A k \in 0 .. N : w[k] \in T[k]

Leads(N, T, g) == \A k \in 0 .. N - 1 : \A x \in T[k] : g[k][x] \in T[k + 1]

LEMMA WalkExists ==
    ASSUME NEW N \in Nat, NEW T, NEW g, NEW e, e \in T[0], Leads(N, T, g)
    PROVE  \E w : Walk(N, T, g, e, w)
<1> DEFINE P == {n \in Nat : n <= N => \E w : Walk(n, T, g, e, w)}
<1>1. 0 \in P
  <2>1. Walk(0, T, g, e, [k \in 0 .. 0 |-> e])
    BY DEF Walk
  <2> QED
    BY <2>1
<1>2. ASSUME NEW n \in Nat, n \in P PROVE n + 1 \in P
  <2> SUFFICES ASSUME n + 1 <= N PROVE \E w : Walk(n + 1, T, g, e, w)
    OBVIOUS
  <2>1. PICK w : Walk(n, T, g, e, w)
    BY <1>2
  <2> DEFINE v == [k \in 0 .. n + 1 |-> IF k = n + 1 THEN g[n][w[n]] ELSE w[k]]
  <2>2. g[n][w[n]] \in T[n + 1]
    BY <2>1 DEF Walk, Leads
  <2>3. v[0] = e /\ \A k \in 0 .. n : v[k] = w[k]
    BY <2>1 DEF Walk
  <2>4. v[n + 1] = g[n][w[n]]
    OBVIOUS
  <2>5. v = [k \in 0 .. n + 1 |-> v[k]]
    OBVIOUS
  <2> HIDE DEF v
  <2>6. \A k \in 0 .. n : v[k + 1] = g[k][v[k]]
    <3> TAKE k \in 0 .. n
    <3>1. CASE k = n
      BY <2>3, <2>4, <3>1
    <3>2. CASE k # n
      <4>1. k \in 0 .. n - 1 /\ k + 1 \in 0 .. n
        BY <3>2
      <4> QED
        BY <2>1, <2>3, <4>1 DEF Walk
    <3> QED
      BY <3>1, <3>2
  <2>7. \A k \in 0 .. n + 1 : v[k] \in T[k]
    <3> TAKE k \in 0 .. n + 1
    <3>1. CASE k = n + 1
      BY <2>2, <2>4, <3>1
    <3>2. CASE k # n + 1
      BY <2>1, <2>3, <3>2 DEF Walk
    <3> QED
      BY <3>1, <3>2
  <2>8. Walk(n + 1, T, g, e, v)
    <3>1. 0 .. (n + 1) - 1 = 0 .. n
      OBVIOUS
    <3> QED
      BY <3>1, <2>3, <2>5, <2>6, <2>7 DEF Walk
  <2> QED
    BY <2>8
<1> HIDE DEF P
<1>3. \A n \in Nat : n \in P
  BY <1>1, <1>2, NatInSet
<1> QED
  BY <1>3 DEF P

-----------------------------------------------------------------------------

\* Division with remainder.
LEMMA DivMod ==
    ASSUME NEW m \in Nat \ {0}, NEW n \in Int
    PROVE  n \div m \in Int /\ n % m \in 0 .. m - 1 /\ n = m * (n \div m) + (n % m)
  OBVIOUS

LEMMA Grows ==
    ASSUME NEW m \in Nat \ {0}, NEW a \in Int, NEW b \in Int, a < b
    PROVE  m * a + m <= m * b
<1>1. PICK c \in Nat : b = a + 1 + c
  <2>1. b - a - 1 \in Nat /\ b = a + 1 + (b - a - 1)
    OBVIOUS
  <2> QED
    BY <2>1
<1>2. m * c >= 0
  OBVIOUS
<1>3. m * b = m * a + m + m * c
  BY <1>1
<1>4. m * a \in Int /\ m * b \in Int /\ m * c \in Int
  OBVIOUS
<1> QED
  BY <1>2, <1>3, <1>4

LEMMA Unique ==
    ASSUME NEW m \in Nat \ {0}, NEW q \in Int, NEW s \in Int,
           NEW r \in 0 .. m - 1, NEW u \in 0 .. m - 1, m * q + r = m * s + u
    PROVE  r = u
<1>1. m * q \in Int /\ m * s \in Int
  OBVIOUS
<1>2. CASE q < s
  <2>1. m * q + m <= m * s
    BY <1>2, Grows
  <2> QED
    BY <1>1, <2>1
<1>3. CASE s < q
  <2>1. m * s + m <= m * q
    BY <1>3, Grows
  <2> QED
    BY <1>1, <2>1
<1> QED
  BY <1>1, <1>2, <1>3

LEMMA Remainder ==
    ASSUME NEW m \in Nat \ {0}, NEW n \in Int, NEW q \in Int, NEW r \in 0 .. m - 1, n = m * q + r
    PROVE  n % m = r
<1>1. n \div m \in Int /\ n % m \in 0 .. m - 1 /\ n = m * (n \div m) + (n % m)
  BY DivMod
<1>2. m * (n \div m) + (n % m) = m * q + r
  BY <1>1
<1> QED
  BY <1>1, <1>2, Unique

-----------------------------------------------------------------------------

\* Sequences as lists without duplicates: a member at one place, and a member.
Once(q)   == \A i, j \in 1 .. Len(q) : q[i] = q[j] => i = j
Has(q, x) == \E i \in 1 .. Len(q) : q[i] = x

LEMMA AppendHas ==
    ASSUME NEW S, NEW q \in Seq(S), NEW x \in S
    PROVE  /\ Append(q, x) \in Seq(S)
           /\ \A y : Has(Append(q, x), y) <=> Has(q, y) \/ y = x
           /\ Once(q) /\ ~Has(q, x) => Once(Append(q, x))
<1>1. /\ Append(q, x) \in Seq(S) /\ Len(q) \in Nat /\ Len(Append(q, x)) = Len(q) + 1
      /\ Append(q, x)[Len(q) + 1] = x
      /\ \A i \in 1 .. Len(q) : Append(q, x)[i] = q[i]
  OBVIOUS
<1>2. ASSUME NEW y PROVE Has(Append(q, x), y) <=> Has(q, y) \/ y = x
  <2>1. Has(q, y) => Has(Append(q, x), y)
    BY <1>1 DEF Has
  <2>2. y = x => Has(Append(q, x), y)
    BY <1>1 DEF Has
  <2>3. Has(Append(q, x), y) => Has(q, y) \/ y = x
    BY <1>1 DEF Has
  <2> QED
    BY <2>1, <2>2, <2>3
<1>3. Once(q) /\ ~Has(q, x) => Once(Append(q, x))
  BY <1>1 DEF Once, Has
<1> QED
  BY <1>1, <1>2, <1>3

LEMMA TailHas ==
    ASSUME NEW S, NEW q \in Seq(S), q # <<>>
    PROVE  /\ Tail(q) \in Seq(S) /\ Head(q) \in S
           /\ Has(q, Head(q))
           /\ \A y : Has(q, y) => Has(Tail(q), y) \/ y = Head(q)
           /\ \A y : Has(Tail(q), y) => Has(q, y)
           /\ Once(q) => Once(Tail(q)) /\ ~Has(Tail(q), Head(q))
<1>1. /\ Tail(q) \in Seq(S) /\ Head(q) \in S /\ Len(q) \in Nat /\ Len(q) > 0
      /\ Len(Tail(q)) = Len(q) - 1 /\ Head(q) = q[1]
      /\ \A i \in 1 .. Len(q) - 1 : Tail(q)[i] = q[i + 1]
  OBVIOUS
<1>2. Has(q, Head(q))
  BY <1>1 DEF Has
<1>3. \A y : Has(q, y) => Has(Tail(q), y) \/ y = Head(q)
  <2> TAKE y
  <2> SUFFICES ASSUME NEW i \in 1 .. Len(q), q[i] = y, i # 1 PROVE Has(Tail(q), y)
    BY <1>1 DEF Has
  <2>1. i - 1 \in 1 .. Len(q) - 1 /\ Tail(q)[i - 1] = y
    BY <1>1
  <2> QED
    BY <1>1, <2>1 DEF Has
<1>4. \A y : Has(Tail(q), y) => Has(q, y)
  BY <1>1 DEF Has
<1>5. Once(q) => Once(Tail(q)) /\ ~Has(Tail(q), Head(q))
  BY <1>1 DEF Once, Has
<1> QED
  BY <1>1, <1>2, <1>3, <1>4, <1>5

LEMMA ConsHas ==
    ASSUME NEW S, NEW q \in Seq(S), NEW x \in S
    PROVE  /\ <<x>> \o q \in Seq(S)
           /\ \A y : Has(<<x>> \o q, y) <=> Has(q, y) \/ y = x
           /\ Once(q) /\ ~Has(q, x) => Once(<<x>> \o q)
<1> DEFINE r == <<x>> \o q
<1>1. /\ r \in Seq(S) /\ Len(q) \in Nat /\ Len(r) = Len(q) + 1
      /\ r[1] = x
      /\ \A i \in 1 .. Len(q) : r[i + 1] = q[i]
  OBVIOUS
<1> HIDE DEF r
<1>2. \A i \in 2 .. Len(q) + 1 : r[i] = q[i - 1] /\ i - 1 \in 1 .. Len(q)
  <2> TAKE i \in 2 .. Len(q) + 1
  <2>1. i - 1 \in 1 .. Len(q) /\ (i - 1) + 1 = i
    BY <1>1
  <2> QED
    BY <1>1, <2>1
<1>3. ASSUME NEW y PROVE Has(r, y) <=> Has(q, y) \/ y = x
  <2>1. Has(q, y) => Has(r, y)
    BY <1>1 DEF Has
  <2>2. y = x => Has(r, y)
    BY <1>1 DEF Has
  <2>3. Has(r, y) => Has(q, y) \/ y = x
    BY <1>1, <1>2 DEF Has
  <2> QED
    BY <2>1, <2>2, <2>3
<1>4. Once(q) /\ ~Has(q, x) => Once(r)
  BY <1>1, <1>2, SMTT(30) DEF Once, Has
<1> QED
  BY <1>1, <1>3, <1>4 DEF r
=============================================================================
