--------------------------- MODULE SequenceLemmas ---------------------------
(***************************************************************************)
(* What the operations of src/ on a GList do to it, for the proofs:        *)
(* g_list_append as Append, g_list_prepend as <<a>> \o q, g_list_remove as *)
(* RemoveFirst, the search for the first or last element with some         *)
(* property, and a walk along it.                                          *)
(***************************************************************************)
EXTENDS Integers, Sequences, SequencesExt, SequenceTheorems, FiniteSetTheorems, TLAPS

(* A new element at the end of a list without repetitions.                 *)
LEMMA AppendOnce ==
  ASSUME NEW S, NEW q \in Seq(S), NEW s \in S, IsInjective(q), ~Contains(q, s)
  PROVE  /\ Append(q, s) \in Seq(S)
         /\ IsInjective(Append(q, s))
         /\ \A u : Contains(Append(q, s), u) <=> Contains(q, u) \/ u = s
<1> DEFINE r == Append(q, s)
<1>1. /\ r \in Seq(S) /\ Len(q) \in Nat /\ Len(r) = Len(q) + 1
      /\ \A i \in 1..Len(q) : r[i] = q[i]
      /\ r[Len(q) + 1] = s
  OBVIOUS
<1>2. DOMAIN q = 1..Len(q) /\ DOMAIN r = 1..(Len(q) + 1)
  BY <1>1
<1>3. IsInjective(r)
  <2> SUFFICES ASSUME NEW i \in 1..(Len(q) + 1), NEW j \in 1..(Len(q) + 1), r[i] = r[j]
               PROVE  i = j
    BY <1>2 DEF IsInjective
  <2>1. CASE i \in 1..Len(q) /\ j \in 1..Len(q)
    BY <1>1, <1>2, <2>1 DEF IsInjective
  <2>2. CASE i \in 1..Len(q) /\ j = Len(q) + 1
    BY <1>1, <2>2 DEF Contains
  <2>3. CASE i = Len(q) + 1 /\ j \in 1..Len(q)
    BY <1>1, <2>3 DEF Contains
  <2> QED
    BY <1>1, <2>1, <2>2, <2>3
<1>4. ASSUME NEW u PROVE Contains(r, u) <=> Contains(q, u) \/ u = s
  BY <1>1 DEF Contains
<1> HIDE DEF r
<1> QED
  BY <1>1, <1>3, <1>4 DEF r

(* What RemoveAt does to a list: the elements before the position stay,    *)
(* those after it move up.                                                 *)
LEMMA RemoveAtShape ==
  ASSUME NEW S, NEW q \in Seq(S), NEW k \in 1..Len(q)
  PROVE  /\ RemoveAt(q, k) \in Seq(S)
         /\ Len(RemoveAt(q, k)) = Len(q) - 1
         /\ \A i \in 1..(Len(q) - 1) :
              RemoveAt(q, k)[i] = IF i < k THEN q[i] ELSE q[i + 1]
<1>1. k \in 1..Len(q)
  OBVIOUS
<1>2. Len(q) \in Nat /\ DOMAIN q = 1..Len(q) /\ \A i \in 1..Len(q) : q[i] \in S
  OBVIOUS
<1> DEFINE a == SubSeq(q, 1, k - 1)
           b == SubSeq(q, k + 1, Len(q))
<1>3. a \in Seq(S) /\ Len(a) = k - 1 /\ \A i \in 1..(k - 1) : a[i] = q[i]
  BY <1>1, <1>2
<1>4. /\ b \in Seq(S) /\ Len(b) = Len(q) - k
      /\ \A i \in 1..(Len(q) - k) : b[i] = q[i + k]
  <2>1. k + 1 \in Int /\ Len(q) \in Int /\ \A i \in (k + 1)..Len(q) : q[i] \in S
    BY <1>1, <1>2
  <2>2. /\ b \in Seq(S) /\ Len(b) = IF k + 1 <= Len(q) THEN Len(q) - (k + 1) + 1 ELSE 0
        /\ \A i \in 1..(Len(q) - (k + 1) + 1) : b[i] = q[k + 1 + i - 1]
    BY <2>1, SubSeqProperties
  <2> HIDE DEF b
  <2>3. k \in Int /\ Len(q) \in Int /\ k <= Len(q)
    BY <1>1, <1>2
  <2>4. Len(q) - (k + 1) + 1 = Len(q) - k /\ Len(b) = Len(q) - k
    <3>1. CASE k + 1 <= Len(q)
      BY <2>2, <2>3, <3>1
    <3>2. CASE ~(k + 1 <= Len(q))
      BY <2>2, <2>3, <3>2
    <3> QED
      BY <3>1, <3>2
  <2>5. ASSUME NEW i \in 1..(Len(q) - k) PROVE b[i] = q[i + k]
    <3>1. k + 1 + i - 1 = i + k
      BY <1>1
    <3> QED
      BY <2>2, <2>4, <3>1
  <2> QED
    BY <2>2, <2>4, <2>5
<1> HIDE DEF a, b
<1>5. /\ a \o b \in Seq(S) /\ Len(a \o b) = Len(q) - 1
      /\ \A i \in 1..(Len(q) - 1) :
           (a \o b)[i] = IF i < k THEN a[i] ELSE b[i - (k - 1)]
  <2>1. /\ a \o b \in Seq(S) /\ Len(a \o b) = Len(a) + Len(b)
        /\ \A i \in 1..(Len(a) + Len(b)) :
             (a \o b)[i] = IF i <= Len(a) THEN a[i] ELSE b[i - Len(a)]
    BY <1>3, <1>4, ConcatProperties
  <2>2. Len(a) + Len(b) = Len(q) - 1 /\ \A i \in Int : i <= Len(a) <=> i < k
    BY <1>1, <1>2, <1>3, <1>4
  <2> QED
    BY <1>3, <2>1, <2>2
<1>6. ASSUME NEW i \in 1..(Len(q) - 1), ~(i < k)
      PROVE  b[i - (k - 1)] = q[i + 1]
  <2>1. i - (k - 1) \in 1..(Len(q) - k) /\ (i - (k - 1)) + k = i + 1
    BY <1>1, <1>2, <1>6
  <2> QED
    BY <1>4, <2>1
<1>7. \A i \in 1..(Len(q) - 1) : i < k => a[i] = q[i]
  BY <1>1, <1>2, <1>3
<1>8. RemoveAt(q, k) = a \o b
  BY DEF RemoveAt, a, b
<1> QED
  BY <1>5, <1>6, <1>7, <1>8

(* RemoveFirst does it at the place of an element that occurs once.        *)
LEMMA RemoveShape ==
  ASSUME NEW S, NEW q \in Seq(S), NEW s, NEW k \in 1..Len(q), q[k] = s,
         \A i \in 1..Len(q) : q[i] = s => i = k
  PROVE  /\ RemoveFirst(q, s) \in Seq(S)
         /\ Len(RemoveFirst(q, s)) = Len(q) - 1
         /\ \A i \in 1..(Len(q) - 1) :
              RemoveFirst(q, s)[i] = IF i < k THEN q[i] ELSE q[i + 1]
<1>1. {i \in 1..Len(q) : q[i] = s} = {k}
  OBVIOUS
<1>2. Min({k}) = k
  BY DEF Min
<1>3. SelectInSeq(q, LAMBDA v : v = s) = k
  BY <1>1, <1>2 DEF SelectInSeq
<1>4. RemoveFirst(q, s) = RemoveAt(q, k)
  BY <1>3 DEF RemoveFirst
<1> QED
  BY <1>4, RemoveAtShape

(* The first occurrence in a list without repetitions is the only one.     *)
LEMMA RemoveOnce ==
  ASSUME NEW S, NEW q \in Seq(S), NEW s \in S, IsInjective(q), Contains(q, s)
  PROVE  /\ RemoveFirst(q, s) \in Seq(S)
         /\ IsInjective(RemoveFirst(q, s))
         /\ \A u : Contains(RemoveFirst(q, s), u) <=> Contains(q, u) /\ u # s
<1>1. PICK k \in 1..Len(q) : q[k] = s
  BY DEF Contains
<1>2. Len(q) \in Nat /\ DOMAIN q = 1..Len(q) /\ \A i \in 1..Len(q) : q[i] \in S
  OBVIOUS
<1>3. \A i \in 1..Len(q) : q[i] = s => i = k
  BY <1>1, <1>2 DEF IsInjective
<1> DEFINE r == RemoveFirst(q, s)
<1>4. /\ r \in Seq(S) /\ Len(r) = Len(q) - 1
      /\ \A i \in 1..(Len(q) - 1) : r[i] = IF i < k THEN q[i] ELSE q[i + 1]
  BY <1>1, <1>3, RemoveShape
<1> HIDE DEF r
<1>5. IsInjective(r)
  <2>1. DOMAIN r = 1..(Len(q) - 1)
    BY <1>4, <1>2
  <2> SUFFICES ASSUME NEW i \in 1..(Len(q) - 1), NEW j \in 1..(Len(q) - 1), r[i] = r[j]
               PROVE  i = j
    BY <2>1 DEF IsInjective
  <2> DEFINE at(n) == IF n < k THEN n ELSE n + 1
  <2>2. at(i) \in 1..Len(q) /\ at(j) \in 1..Len(q) /\ q[at(i)] = q[at(j)]
    BY <1>1, <1>2, <1>4
  <2>3. at(i) = at(j)
    BY <1>2, <2>2 DEF IsInjective
  <2> QED
    BY <1>1, <1>2, <2>3
<1>6. ASSUME NEW u PROVE Contains(r, u) <=> Contains(q, u) /\ u # s
  <2>1. ASSUME Contains(r, u) PROVE Contains(q, u) /\ u # s
    <3>1. PICK i \in 1..(Len(q) - 1) : r[i] = u
      BY <2>1, <1>4 DEF Contains
    <3> DEFINE n == IF i < k THEN i ELSE i + 1
    <3>2. n \in 1..Len(q) /\ n # k /\ q[n] = u
      BY <1>1, <1>2, <1>4, <3>1
    <3> QED
      BY <1>3, <3>2 DEF Contains
  <2>2. ASSUME Contains(q, u), u # s PROVE Contains(r, u)
    <3>1. PICK n \in 1..Len(q) : q[n] = u
      BY <2>2 DEF Contains
    <3>2. n # k
      BY <1>1, <2>2, <3>1
    <3> DEFINE i == IF n < k THEN n ELSE n - 1
    <3>3. i \in 1..(Len(q) - 1) /\ r[i] = u
      BY <1>1, <1>2, <1>4, <3>1, <3>2
    <3> QED
      BY <1>4, <3>3 DEF Contains
  <2> QED
    BY <2>1, <2>2
<1> QED
  BY <1>4, <1>5, <1>6 DEF r

(* A nonempty set of positions has a least one.  The library states no     *)
(* induction that could be used for this, but a set of finite sets has one *)
(* without a smaller one in it: take the intervals up to each position.    *)
LEMMA MinOfPositions ==
  ASSUME NEW n \in Nat, NEW S \in SUBSET (1..n), S # {}
  PROVE  /\ Min(S) \in S
         /\ \A i \in S : Min(S) <= i
<1> DEFINE T == {1..i : i \in S}
<1>1. T \subseteq FiniteSubsetsOf(Nat)
  <2> SUFFICES ASSUME NEW i \in S PROVE 1..i \in FiniteSubsetsOf(Nat)
    OBVIOUS
  <2>1. i \in Int
    OBVIOUS
  <2>2. IsFiniteSet(1..i)
    BY <2>1, FS_Interval
  <2> QED
    BY <2>1, <2>2 DEF FiniteSubsetsOf
<1>2. PICK x \in T : \A y \in T : ~ (<<y, x>> \in StrictSubsetOrdering(Nat))
  <2>1. IsWellFoundedOn(StrictSubsetOrdering(Nat), FiniteSubsetsOf(Nat))
    BY FS_StrictSubsetOrderingWellFounded
  <2>2. T # {}
    OBVIOUS
  <2> HIDE DEF T
  <2> QED
    BY <1>1, <2>1, <2>2, WFMin
<1>3. PICK m \in S : x = 1..m
  BY <1>2
<1>4. ASSUME NEW i \in S, i < m PROVE FALSE
  <2>1. 1..i \in T /\ 1..i \subseteq 1..m /\ 1..i # 1..m
    <3>1. m \in 1..m /\ m \notin 1..i
      BY <1>4
    <3> QED
      BY <1>4, <3>1
  <2>2. <<1..i, 1..m>> \in StrictSubsetOrdering(Nat)
    BY <2>1 DEF StrictSubsetOrdering
  <2> QED
    BY <1>2, <1>3, <2>1, <2>2
<1>5. \A i \in S : m <= i
  BY <1>4
<1> QED
  BY <1>5 DEF Min

(* ... and a greatest one.                                                 *)
LEMMA MaxOfPositions ==
  ASSUME NEW n \in Nat, NEW S \in SUBSET (1..n), S # {}
  PROVE  /\ Max(S) \in S
         /\ \A i \in S : i <= Max(S)
<1> DEFINE R == {n + 1 - i : i \in S}
<1>1. R \in SUBSET (1..n) /\ R # {}
  <2>1. PICK i \in S : TRUE
    OBVIOUS
  <2>2. n + 1 - i \in R
    BY <2>1
  <2>3. \A j \in S : n + 1 - j \in 1..n
    OBVIOUS
  <2> QED
    BY <2>2, <2>3
<1>2. Min(R) \in R /\ \A i \in R : Min(R) <= i
  <2> HIDE DEF R
  <2> QED
    BY <1>1, MinOfPositions
<1>3. PICK m \in S : Min(R) = n + 1 - m
  BY <1>2
<1>4. ASSUME NEW i \in S PROVE i <= m
  <2>1. n + 1 - i \in R
    OBVIOUS
  <2>2. n + 1 - m <= n + 1 - i
    BY <1>2, <1>3, <2>1
  <2>3. n \in Int /\ i \in Int /\ m \in Int
    OBVIOUS
  <2> QED
    BY <2>2, <2>3
<1> QED
  BY <1>4 DEF Max

(* Induction over the natural numbers, about a set of them.                *)
LEMMA SetInduction ==
  ASSUME NEW T, 0 \in T, \A n \in Nat : n \in T => n + 1 \in T
  PROVE  Nat \subseteq T
<1> SUFFICES ASSUME NEW k \in Nat, k \notin T PROVE FALSE
  OBVIOUS
<1> DEFINE S == {i \in 1..k : i \notin T}
<1>1. S \in SUBSET (1..k) /\ S # {}
  <2>1. k # 0
    OBVIOUS
  <2>2. k \in S
    BY <2>1
  <2> QED
    BY <2>2
<1>2. Min(S) \in S /\ \A i \in S : Min(S) <= i
  BY <1>1, MinOfPositions
<1> DEFINE m == Min(S)
<1>3. m \in 1..k /\ m \notin T
  BY <1>2
<1>4. m - 1 \in Nat /\ (m - 1) + 1 = m /\ m - 1 \notin T
  BY <1>3
<1>5. m - 1 # 0 /\ m - 1 \in 1..k
  BY <1>3, <1>4
<1> HIDE DEF m
<1>6. m - 1 \in S
  BY <1>4, <1>5
<1> QED
  BY <1>2, <1>3, <1>6 DEF m

(* What a walk along a list computes from the first n of its elements, for *)
(* each n, exists: a recursive function over the positions has values.     *)
LEMMA RecursiveFunction ==
  ASSUME NEW V, NEW base \in V, NEW N \in Nat, NEW step \in [1..N -> [V -> V]]
  PROVE  \E f \in [0..N -> V] :
           f[0] = base /\ \A n \in 1..N : f[n] = step[n][f[n - 1]]
<1> DEFINE Good(k, f) == f[0] = base /\ \A n \in 1..k : f[n] = step[n][f[n - 1]]
           T == {k \in Nat : k <= N => \E f \in [0..k -> V] : Good(k, f)}
<1>1. 0 \in T
  <2> DEFINE f == [n \in 0..0 |-> base]
  <2>1. f \in [0..0 -> V] /\ f[0] = base
    OBVIOUS
  <2> HIDE DEF f
  <2> QED
    BY <2>1
<1>2. ASSUME NEW k \in Nat, k \in T PROVE k + 1 \in T
  <2> SUFFICES ASSUME k + 1 <= N PROVE \E f \in [0..(k + 1) -> V] : Good(k + 1, f)
    OBVIOUS
  <2>1. PICK f \in [0..k -> V] : Good(k, f)
    BY <1>2
  <2>2. f[k] \in V /\ k + 1 \in 1..N
    BY <2>1
  <2>3. step[k + 1][f[k]] \in V
    BY <2>2
  <2> DEFINE g == [n \in 0..(k + 1) |-> IF n <= k THEN f[n] ELSE step[k + 1][f[k]]]
  <2>4. g \in [0..(k + 1) -> V]
    BY <2>1, <2>3
  <2>5. g[0] = base
    BY <2>1
  <2>6. ASSUME NEW n \in 1..(k + 1) PROVE g[n] = step[n][g[n - 1]]
    <3>1. n - 1 \in 0..k /\ g[n - 1] = f[n - 1]
      OBVIOUS
    <3>2. CASE n <= k
      <4>1. n \in 1..k /\ g[n] = f[n]
        BY <3>2
      <4> QED
        BY <2>1, <3>1, <4>1
    <3>3. CASE ~(n <= k)
      <4>1. n = k + 1 /\ n - 1 = k /\ g[n] = step[k + 1][f[k]]
        BY <3>3
      <4> QED
        BY <3>1, <4>1
    <3> QED
      BY <3>2, <3>3
  <2> HIDE DEF g
  <2> QED
    BY <2>4, <2>5, <2>6
<1> HIDE DEF T
<1>3. N \in T
  BY <1>1, <1>2, SetInduction
<1> QED
  BY <1>3 DEF T

(* The same with its sets and its conclusion named.                        *)
Steps(V, N) == [1..N -> [V -> V]]

Walked(V, base, N, step) ==
  \E f \in [0..N -> V] : f[0] = base /\ \A n \in 1..N : f[n] = step[n][f[n - 1]]

LEMMA WalkExists ==
  ASSUME NEW V, NEW base \in V, NEW N \in Nat, NEW step \in Steps(V, N)
  PROVE  Walked(V, base, N, step)
BY RecursiveFunction DEF Steps, Walked

(* An element that moves from the head of one list to the end of another.  *)
LEMMA HandOver ==
  ASSUME NEW S, NEW q \in Seq(S), NEW r \in Seq(S), r # <<>>
  PROVE  Append(q, Head(r)) \o Tail(r) = q \o r
<1>1. /\ Head(r) \in S /\ Tail(r) \in Seq(S) /\ Len(Tail(r)) = Len(r) - 1
      /\ \A i \in 1..Len(Tail(r)) : Tail(r)[i] = r[i + 1]
  BY HeadTailProperties
<1>2. Append(q, Head(r)) = q \o <<Head(r)>> /\ <<Head(r)>> \in Seq(S)
  BY <1>1, AppendIsConcat
<1>3. Append(q, Head(r)) \o Tail(r) = q \o (<<Head(r)>> \o Tail(r))
  <2>1. (q \o <<Head(r)>>) \o Tail(r) = q \o (<<Head(r)>> \o Tail(r))
    BY <1>1, <1>2, ConcatAssociative
  <2> QED
    BY <1>2, <2>1
<1>4. <<Head(r)>> \o Tail(r) = r
  OBVIOUS
<1> QED
  BY <1>3, <1>4

(* The head of a list that g_list_prepend has made.                        *)
LEMMA PrependShape ==
  ASSUME NEW S, NEW q \in Seq(S), NEW a \in S
  PROVE  /\ <<a>> \o q \in Seq(S)
         /\ Len(q) \in Nat /\ Len(<<a>> \o q) = Len(q) + 1
         /\ (<<a>> \o q)[1] = a
         /\ \A i \in 1..Len(q) : (<<a>> \o q)[i + 1] = q[i]
<1>1. <<a>> \in Seq(S) /\ Len(<<a>>) = 1 /\ <<a>>[1] = a /\ Len(q) \in Nat
  OBVIOUS
<1>2. /\ <<a>> \o q \in Seq(S) /\ Len(<<a>> \o q) = 1 + Len(q)
      /\ \A i \in 1..(1 + Len(q)) :
           (<<a>> \o q)[i] = IF i <= 1 THEN <<a>>[i] ELSE q[i - 1]
  BY <1>1, ConcatProperties
<1>3. ASSUME NEW i \in 1..Len(q) PROVE (<<a>> \o q)[i + 1] = q[i]
  <2>1. i + 1 \in 1..(1 + Len(q)) /\ ~(i + 1 <= 1) /\ (i + 1) - 1 = i
    BY <1>1
  <2> QED
    BY <1>2, <2>1
<1>4. (<<a>> \o q)[1] = a
  <2>1. 1 \in 1..(1 + Len(q))
    BY <1>1
  <2> QED
    BY <1>1, <1>2, <2>1
<1> QED
  BY <1>1, <1>2, <1>3, <1>4

(* A list without its last element.                                        *)
LEMMA FrontShape ==
  ASSUME NEW S, NEW q \in Seq(S), Len(q) # 0
  PROVE  /\ Front(q) \in Seq(S) /\ Len(Front(q)) = Len(q) - 1
         /\ \A i \in 1..(Len(q) - 1) : Front(q)[i] = q[i]
BY DEF Front

=============================================================================
