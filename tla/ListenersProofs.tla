-------------------------- MODULE ListenersProofs --------------------------
(***************************************************************************)
(* Proofs about Listeners and Channel, for any addresses, channels,        *)
(* patterns and number of parts, any number of adds and any depth of       *)
(* dispatches: the table and its subscriptions agree; the candidates of a  *)
(* channel are the patterns that select it, by distance; walking them      *)
(* collects the selected subscriptions in order.                           *)
(***************************************************************************)
EXTENDS Listeners, SequenceLemmas

(* The table has its type.                                                 *)
TableTypes ==
  /\ listeners \in [Patterns -> Seq(Addresses)]
  /\ channelOf \in [Addresses -> Patterns \cup {NULL}]

IInv == TableTypes /\ TableIsConsistent

(* What the empty list of a new table holds: nothing.                      *)
LEMMA EmptyTable == Init => IInv
<1> SUFFICES ASSUME Init PROVE IInv
  OBVIOUS
<1>1. TableTypes
  BY DEF Init, TableTypes
<1>2. ASSUME NEW p \in Patterns
      PROVE  /\ IsInjective(listeners[p])
             /\ \A s \in Addresses : Contains(listeners[p], s) <=> channelOf[s] = p
  <2>1. listeners[p] = <<>> /\ Len(listeners[p]) = 0 /\ DOMAIN listeners[p] = {}
    BY DEF Init
  <2>2. \A s \in Addresses : channelOf[s] # p
    BY ListenersAssumption DEF Init, NULL
  <2> QED
    BY <2>1, <2>2 DEF IsInjective, Contains
<1> QED
  BY <1>1, <1>2 DEF IInv, TableIsConsistent

-----------------------------------------------------------------------------
(* The one list that an operation changes keeps its agreement, and nobody  *)
(* else's changes.                                                         *)

LEMMA AddStep ==
  ASSUME IInv, NEW s \in Addresses, NEW p \in Patterns, ListenerAdd(s, p)
  PROVE  IInv'
<1> USE DEF IInv, TableTypes
<1>1. /\ channelOf[s] = NULL
      /\ channelOf' = [channelOf EXCEPT ![s] = p]
      /\ listeners' = [listeners EXCEPT ![p] = Append(@, s)]
  BY DEF ListenerAdd
<1>2. \A q \in Patterns : ~Contains(listeners[q], s)
  BY <1>1, ListenersAssumption DEF TableIsConsistent, NULL
<1>3. /\ Append(listeners[p], s) \in Seq(Addresses)
      /\ IsInjective(Append(listeners[p], s))
      /\ \A u : Contains(Append(listeners[p], s), u) <=> Contains(listeners[p], u) \/ u = s
  BY <1>2, AppendOnce DEF TableIsConsistent
<1>4. TableTypes'
  BY <1>1, <1>3
<1>5. ASSUME NEW q \in Patterns
      PROVE  /\ IsInjective(listeners'[q])
             /\ \A u \in Addresses : Contains(listeners'[q], u) <=> channelOf'[u] = q
  <2>1. CASE q = p
    <3>1. listeners'[q] = Append(listeners[p], s)
      BY <1>1, <2>1
    <3>2. ASSUME NEW u \in Addresses
          PROVE  channelOf'[u] = p <=> channelOf[u] = p \/ u = s
      BY <1>1
    <3> QED
      BY <1>3, <2>1, <3>1, <3>2 DEF TableIsConsistent
  <2>2. CASE q # p
    <3>1. listeners'[q] = listeners[q]
      BY <1>1, <2>2
    <3>2. ASSUME NEW u \in Addresses
          PROVE  channelOf'[u] = q <=> channelOf[u] = q
      BY <1>1, <2>2, ListenersAssumption DEF NULL
    <3> QED
      BY <3>1, <3>2 DEF TableIsConsistent
  <2> QED
    BY <2>1, <2>2
<1> QED
  BY <1>4, <1>5 DEF TableIsConsistent

LEMMA RemoveStep ==
  ASSUME IInv, NEW s \in Addresses, ListenerRemove(s)
  PROVE  IInv'
<1> USE DEF IInv, TableTypes
<1> DEFINE p == channelOf[s]
<1>1. /\ p \in Patterns
      /\ channelOf' = [channelOf EXCEPT ![s] = NULL]
      /\ listeners' = [listeners EXCEPT ![p] = RemoveFirst(@, s)]
  BY DEF ListenerRemove
<1>2. Contains(listeners[p], s) /\ IsInjective(listeners[p])
  BY <1>1 DEF TableIsConsistent
<1>3. /\ RemoveFirst(listeners[p], s) \in Seq(Addresses)
      /\ IsInjective(RemoveFirst(listeners[p], s))
      /\ \A u : Contains(RemoveFirst(listeners[p], s), u)
                  <=> Contains(listeners[p], u) /\ u # s
  BY <1>1, <1>2, RemoveOnce
<1>4. TableTypes'
  BY <1>1, <1>3
<1>5. ASSUME NEW q \in Patterns
      PROVE  /\ IsInjective(listeners'[q])
             /\ \A u \in Addresses : Contains(listeners'[q], u) <=> channelOf'[u] = q
  <2>1. ASSUME NEW u \in Addresses
        PROVE  channelOf'[u] = q <=> channelOf[u] = q /\ u # s
    BY <1>1, ListenersAssumption DEF NULL
  <2>2. CASE q = p
    <3>1. listeners'[q] = RemoveFirst(listeners[p], s)
      BY <1>1, <2>2
    <3> QED
      BY <1>1, <1>3, <2>1, <2>2, <3>1 DEF TableIsConsistent
  <2>3. CASE q # p
    <3>1. listeners'[q] = listeners[q]
      BY <1>1, <2>3
    <3> QED
      BY <2>1, <2>3, <3>1 DEF TableIsConsistent
  <2> QED
    BY <2>2, <2>3
<1> QED
  BY <1>4, <1>5 DEF TableIsConsistent

(* A dispatch reads the table only; its callbacks change it through the    *)
(* two operations.                                                         *)
LEMMA TableStep == IInv /\ [Next]_vars => IInv'
<1> SUFFICES ASSUME IInv, [Next]_vars PROVE IInv'
  OBVIOUS
<1>1. ASSUME UNCHANGED <<listeners, channelOf>> PROVE IInv'
  BY <1>1 DEF IInv, TableTypes, TableIsConsistent
<1>2. ASSUME NEW s \in Addresses, NEW p \in Patterns, ListenerAdd(s, p) PROVE IInv'
  BY <1>2, AddStep
<1>3. ASSUME NEW s \in Addresses, ListenerRemove(s) PROVE IInv'
  BY <1>3, RemoveStep
<1>4. ASSUME NEW c \in Channels, Fire(c) PROVE IInv'
  BY <1>1, <1>4 DEF Fire
<1>5. ASSUME NEW success \in BOOLEAN, CallbackReturns(success) PROVE IInv'
  BY <1>1, <1>5 DEF CallbackReturns
<1>6. CASE UNCHANGED vars
  BY <1>1, <1>6 DEF vars
<1> QED
  BY <1>2, <1>3, <1>4, <1>5, <1>6 DEF Next

(* cometd_listener_add and cometd_listener_remove keep the table: after    *)
(* any number of them, in any order and from callbacks of any dispatch,    *)
(* every live subscription is found once, under its channel, and no freed  *)
(* one is found.                                                           *)
THEOREM Consistency == Spec => []TableIsConsistent
<1>1. Init => IInv
  BY EmptyTable
<1>2. IInv /\ [Next]_vars => IInv'
  BY TableStep
<1>3. IInv => TableIsConsistent
  BY DEF IInv
<1> QED
  BY <1>1, <1>2, <1>3, PTL DEF Spec

-----------------------------------------------------------------------------
(* cometd_channel_matches                                                  *)

(* What a part of a channel or a pattern may be                            *)
Parts == STRING \cup {Star, StarStar}

(* The wildcard w after the first i parts of a channel                     *)
Wild(c, i, w) == Append(SubSeq(c, 1, i), w)

(* One round of the loop of cometd_channel_matches, as in ChannelMatches.  *)
Widen(c, channels, i) ==
  LET widened == <<IF i < Len(c) THEN Wild(c, i, StarStar) ELSE c>> \o channels
  IN  IF i = Len(c) - 1 THEN <<Wild(c, i, Star)>> \o widened ELSE widened

(* A wildcard channel has the parts of the channel before its last.        *)
LEMMA WildShape ==
  ASSUME NEW c \in Seq(Parts), NEW i \in 1..Len(c), NEW w \in {Star, StarStar}
  PROVE  /\ Wild(c, i, w) \in Seq(Parts)
         /\ Len(Wild(c, i, w)) = i + 1
         /\ Wild(c, i, w)[i + 1] = w
         /\ \A k \in 1..i : Wild(c, i, w)[k] = c[k]
<1>1. SubSeq(c, 1, i) \in Seq(Parts) /\ Len(SubSeq(c, 1, i)) = i
      /\ \A k \in 1..i : SubSeq(c, 1, i)[k] = c[k]
  OBVIOUS
<1>2. w \in Parts
  BY DEF Parts
<1> DEFINE s == SubSeq(c, 1, i)
<1> HIDE DEF s
<1>3. s \in Seq(Parts) /\ Len(s) = i /\ \A k \in 1..i : s[k] = c[k]
  BY <1>1 DEF s
<1>4. /\ Append(s, w) \in Seq(Parts) /\ Len(Append(s, w)) = i + 1
      /\ Append(s, w)[i + 1] = w /\ \A k \in 1..i : Append(s, w)[k] = c[k]
  BY <1>2, <1>3
<1> QED
  BY <1>4 DEF Wild, s

(* One round puts one or two candidates in front.                          *)
LEMMA WidenShape ==
  ASSUME NEW c \in Seq(Parts), NEW i \in 1..Len(c), NEW L \in Seq(Seq(Parts))
  PROVE  /\ Widen(c, L, i) \in Seq(Seq(Parts))
         /\ i # Len(c) - 1 =>
              /\ Len(Widen(c, L, i)) = Len(L) + 1
              /\ Widen(c, L, i)[1] = IF i < Len(c) THEN Wild(c, i, StarStar) ELSE c
              /\ \A k \in 1..Len(L) : Widen(c, L, i)[k + 1] = L[k]
         /\ i = Len(c) - 1 =>
              /\ Len(Widen(c, L, i)) = Len(L) + 2
              /\ Widen(c, L, i)[1] = Wild(c, i, Star)
              /\ Widen(c, L, i)[2] = Wild(c, i, StarStar)
              /\ \A k \in 1..Len(L) : Widen(c, L, i)[k + 2] = L[k]
<1> DEFINE first == IF i < Len(c) THEN Wild(c, i, StarStar) ELSE c
           M == <<first>> \o L
           star == Wild(c, i, Star)
<1>1. first \in Seq(Parts) /\ star \in Seq(Parts) /\ Len(L) \in Nat
  BY WildShape
<1> HIDE DEF first, star
<1>2. /\ M \in Seq(Seq(Parts)) /\ Len(M) = Len(L) + 1 /\ M[1] = first
      /\ \A k \in 1..Len(L) : M[k + 1] = L[k]
  BY <1>1, PrependShape
<1> HIDE DEF M
<1>3. /\ <<star>> \o M \in Seq(Seq(Parts)) /\ Len(<<star>> \o M) = Len(M) + 1
      /\ (<<star>> \o M)[1] = star
      /\ \A k \in 1..Len(M) : (<<star>> \o M)[k + 1] = M[k]
  BY <1>1, <1>2, PrependShape
<1>4. CASE i # Len(c) - 1
  <2>1. Widen(c, L, i) = M
    BY <1>4 DEF Widen, M, first
  <2> QED
    BY <1>2, <1>4, <2>1 DEF first
<1>5. CASE i = Len(c) - 1
  <2>1. Widen(c, L, i) = <<star>> \o M
    BY <1>5 DEF Widen, M, first, star
  <2>2. first = Wild(c, i, StarStar)
    BY <1>5 DEF first
  <2>3. (<<star>> \o M)[2] = first
    <3>1. 1 \in 1..Len(M) /\ 1 + 1 = 2
      BY <1>1, <1>2
    <3> QED
      BY <1>2, <1>3, <3>1
  <2>4. ASSUME NEW k \in 1..Len(L) PROVE (<<star>> \o M)[k + 2] = L[k]
    <3>1. k + 1 \in 1..Len(M) /\ (k + 1) + 1 = k + 2
      BY <1>1, <1>2
    <3> QED
      BY <1>2, <1>3, <3>1
  <2>5. Len(<<star>> \o M) = Len(L) + 2
    BY <1>1, <1>2, <1>3
  <2> QED
    BY <1>3, <1>5, <2>1, <2>2, <2>3, <2>4, <2>5 DEF star
<1> QED
  BY <1>4, <1>5

(* The k-th candidate, and how many there are.                             *)
Candidate(c, k) ==
  IF k = 1 THEN c
  ELSE IF k = 2 THEN Wild(c, Len(c) - 1, Star)
  ELSE Wild(c, Len(c) + 2 - k, StarStar)

Candidates(c) == IF Len(c) <= 1 THEN Len(c) ELSE Len(c) + 1

(* How many candidates still go in front after i rounds, and what the loop *)
(* has built by then.                                                      *)
Missing(c, i) ==
  IF i = Len(c) THEN 0 ELSE IF i = Len(c) - 1 THEN 1 ELSE Len(c) - i + 1

BuiltAfter(c, i, L) ==
  /\ Len(L) = IF i = 0 THEN 0 ELSE Candidates(c) - Missing(c, i)
  /\ \A k \in 1..Len(L) : L[k] = Candidate(c, k + Missing(c, i))

(* One round of the loop brings what is built one round further.           *)
LEMMA BuiltStep ==
  ASSUME NEW c \in Seq(Parts), NEW i \in 0..(Len(c) - 1), NEW L \in Seq(Seq(Parts)),
         BuiltAfter(c, i, L)
  PROVE  BuiltAfter(c, i + 1, Widen(c, L, i + 1))
<1> DEFINE n == Len(c)
           M == Widen(c, L, i + 1)
           l == Len(L)
<1>1. n \in Nat /\ l \in Nat /\ i + 1 \in 1..n
  OBVIOUS
<1>2. /\ M \in Seq(Seq(Parts))
      /\ i + 1 # n - 1 =>
              /\ Len(M) = l + 1
              /\ M[1] = IF i + 1 < n THEN Wild(c, i + 1, StarStar) ELSE c
              /\ \A k \in 1..l : M[k + 1] = L[k]
      /\ i + 1 = n - 1 =>
              /\ Len(M) = l + 2
              /\ M[1] = Wild(c, i + 1, Star)
              /\ M[2] = Wild(c, i + 1, StarStar)
              /\ \A k \in 1..l : M[k + 2] = L[k]
  BY <1>1, WidenShape
<1> HIDE DEF M
<1>3. CASE i + 1 < n - 1
  <2>1. l = i /\ \A k \in 1..l : L[k] = Candidate(c, k + (n - i + 1))
    <3>1. Missing(c, i) = n - i + 1 /\ Candidates(c) = n + 1
      BY <1>1, <1>3 DEF Missing, Candidates
    <3> QED
      BY <1>1, <3>1 DEF BuiltAfter
  <2>2. Len(M) = i + 1 /\ M[1] = Wild(c, i + 1, StarStar) /\ \A k \in 1..l : M[k + 1] = L[k]
    BY <1>1, <1>2, <1>3, <2>1
  <2>3. Wild(c, i + 1, StarStar) = Candidate(c, 1 + (n - (i + 1) + 1))
    BY <1>1, <1>3 DEF Candidate
  <2>4. ASSUME NEW k \in 1..(i + 1) PROVE M[k] = Candidate(c, k + (n - (i + 1) + 1))
    <3>1. CASE k = 1
      BY <2>2, <2>3, <3>1
    <3>2. CASE k # 1
      <4>1. k - 1 \in 1..l /\ (k - 1) + 1 = k
            /\ (k - 1) + (n - i + 1) = k + (n - (i + 1) + 1)
        BY <1>1, <2>1, <3>2
      <4>2. M[(k - 1) + 1] = L[k - 1]
        BY <2>2, <4>1
      <4> QED
        BY <2>1, <4>1, <4>2
    <3> QED
      BY <3>1, <3>2
  <2>5. Missing(c, i + 1) = n - (i + 1) + 1 /\ Candidates(c) = n + 1
    BY <1>1, <1>3 DEF Candidates, Missing
  <2>6. i + 1 # 0 /\ (n + 1) - (n - (i + 1) + 1) = i + 1
    BY <1>1
  <2>7. Len(M) = Candidates(c) - Missing(c, i + 1)
    BY <2>2, <2>5, <2>6
  <2>8. \A k \in 1..Len(M) : M[k] = Candidate(c, k + Missing(c, i + 1))
    BY <2>2, <2>4, <2>5
  <2> QED
    BY <2>6, <2>7, <2>8 DEF BuiltAfter, M
<1>4. CASE i + 1 = n - 1
  <2>1. l = i /\ \A k \in 1..l : L[k] = Candidate(c, k + 3)
    <3>1. Missing(c, i) = 3 /\ Candidates(c) - 3 = i
      BY <1>1, <1>4 DEF Missing, Candidates
    <3> QED
      BY <1>1, <3>1 DEF BuiltAfter
  <2>2. /\ Len(M) = i + 2 /\ M[1] = Wild(c, n - 1, Star) /\ M[2] = Wild(c, n - 1, StarStar)
        /\ \A k \in 1..l : M[k + 2] = L[k]
    BY <1>2, <1>4, <2>1
  <2>3. Candidate(c, 2) = Wild(c, n - 1, Star) /\ Candidate(c, 3) = Wild(c, n - 1, StarStar)
    <3>1. n + 2 - 3 = n - 1
      BY <1>1
    <3> QED
      BY <3>1 DEF Candidate
  <2>4. ASSUME NEW k \in 1..(i + 2) PROVE M[k] = Candidate(c, k + 1)
    <3>1. CASE k = 1
      BY <2>2, <2>3, <3>1
    <3>2. CASE k = 2
      BY <2>2, <2>3, <3>2
    <3>3. CASE k # 1 /\ k # 2
      <4>1. k - 2 \in 1..l /\ (k - 2) + 2 = k /\ (k - 2) + 3 = k + 1
        BY <1>1, <2>1, <3>3
      <4>2. M[(k - 2) + 2] = L[k - 2]
        BY <2>2, <4>1
      <4> QED
        BY <2>1, <4>1, <4>2
    <3> QED
      BY <3>1, <3>2, <3>3
  <2>5. Missing(c, i + 1) = 1 /\ Candidates(c) - 1 = i + 2 /\ i + 1 # 0
    BY <1>1, <1>4 DEF Candidates, Missing
  <2>6. Len(M) = Candidates(c) - Missing(c, i + 1)
    BY <2>2, <2>5
  <2>7. \A k \in 1..Len(M) : M[k] = Candidate(c, k + Missing(c, i + 1))
    BY <2>2, <2>4, <2>5
  <2> QED
    BY <2>5, <2>6, <2>7 DEF BuiltAfter, M
<1>5. CASE i + 1 = n
  <2>1. Len(M) = l + 1 /\ M[1] = c /\ \A k \in 1..l : M[k + 1] = L[k]
    BY <1>1, <1>2, <1>5
  <2>2. l + 1 = Candidates(c) /\ \A k \in 1..l : L[k] = Candidate(c, k + 1)
    <3>1. /\ Missing(c, i) = 1
          /\ Candidates(c) = IF i = 0 THEN 1 ELSE n + 1
      BY <1>1, <1>5 DEF Missing, Candidates
    <3>2. i # 0 => Candidates(c) - 1 = i + 1
      BY <1>1, <1>5, <3>1
    <3> QED
      BY <1>1, <1>5, <3>1, <3>2 DEF BuiltAfter
  <2>3. ASSUME NEW k \in 1..(l + 1) PROVE M[k] = Candidate(c, k + 0)
    <3>1. CASE k = 1
      BY <2>1, <3>1 DEF Candidate
    <3>2. CASE k # 1
      <4>1. k - 1 \in 1..l /\ (k - 1) + 1 = k /\ k + 0 = k
        BY <1>1, <3>2
      <4>2. M[(k - 1) + 1] = L[k - 1]
        BY <2>1, <4>1
      <4> QED
        BY <2>2, <4>1, <4>2
    <3> QED
      BY <3>1, <3>2
  <2>4. Missing(c, i + 1) = 0 /\ Candidates(c) - 0 = l + 1 /\ i + 1 # 0
    BY <1>1, <1>5, <2>2 DEF Missing
  <2>5. Len(M) = Candidates(c) - Missing(c, i + 1)
    BY <2>1, <2>4
  <2>6. \A k \in 1..Len(M) : M[k] = Candidate(c, k + Missing(c, i + 1))
    BY <2>1, <2>3, <2>4
  <2> QED
    BY <2>4, <2>5, <2>6 DEF BuiltAfter, M
<1> QED
  BY <1>1, <1>3, <1>4, <1>5

(* All the candidates, in order: the channel itself, the single wildcard   *)
(* and the double ones, the longest first.                                 *)
LEMMA MatchesShape ==
  ASSUME NEW c \in Seq(Parts)
  PROVE  /\ ChannelMatches(c) \in Seq(Seq(Parts))
         /\ Len(c) <= MaxParts =>
              /\ Len(ChannelMatches(c)) = Candidates(c)
              /\ \A k \in 1..Candidates(c) : ChannelMatches(c)[k] = Candidate(c, k)
<1> DEFINE n == Len(c)
           V == Seq(Seq(Parts))
           step == [i \in 1..n |-> [L \in V |-> Widen(c, L, i)]]
           none == <<>>
<1>1. n \in Nat /\ none \in V
  OBVIOUS
<1>2. \A i \in 1..n : \A L \in V : Widen(c, L, i) \in V
  BY WidenShape
<1> HIDE DEF V
<1>3. step \in [1..n -> [V -> V]]
  BY <1>2
<1> HIDE DEF step, none, n
<1>4. n \in Nat /\ none \in V /\ step \in Steps(V, n)
  BY <1>1, <1>3 DEF Steps
<1>5. PICK f \in [0..n -> V] : f[0] = none /\ \A i \in 1..n : f[i] = step[i][f[i - 1]]
  <2>1. Walked(V, none, n, step)
    BY <1>4, WalkExists
  <2> QED
    BY <2>1 DEF Walked
<1>6. ASSUME NEW i \in 1..n PROVE f[i] = Widen(c, f[i - 1], i)
  <2>1. i - 1 \in 0..n /\ f[i - 1] \in V
    BY <1>1
  <2> QED
    BY <1>5, <2>1 DEF step
<1>7. f = [i \in 0..n |-> IF i = 0 THEN none ELSE Widen(c, f[i - 1], i)]
  <2> DEFINE g == [i \in 0..n |-> IF i = 0 THEN none ELSE Widen(c, f[i - 1], i)]
  <2>1. ASSUME NEW i \in 0..n PROVE f[i] = g[i]
    <3>1. CASE i = 0
      BY <1>5, <3>1
    <3>2. CASE i # 0
      <4>1. i \in 1..n
        BY <1>1, <3>2
      <4> QED
        BY <1>6, <3>2, <4>1
    <3> QED
      BY <3>1, <3>2
  <2> QED
    BY <2>1
<1> DEFINE built[i \in 0..n] == IF i = 0 THEN <<>> ELSE Widen(c, built[i - 1], i)
<1>8. built = [i \in 0..n |-> IF i = 0 THEN <<>> ELSE Widen(c, built[i - 1], i)]
  BY <1>7 DEF none
<1>9. ChannelMatches(c) = IF n > MaxParts THEN <<>> ELSE built[n]
  BY DEF ChannelMatches, Widen, Wild, n
<1> HIDE DEF built
<1>10. built[0] = <<>>
  BY <1>1, <1>8
<1>11. ASSUME NEW i \in 1..n PROVE built[i] = Widen(c, built[i - 1], i)
  <2>1. i \in 0..n /\ i # 0
    BY <1>1
  <2> QED
    BY <1>8, <2>1
<1> DEFINE Good(i) == built[i] \in V /\ BuiltAfter(c, i, built[i])
           T == {i \in Nat : i <= n => Good(i)}
<1>12. 0 \in T
  <2>1. <<>> \in V /\ Len(<<>>) = 0
    BY DEF V
  <2>2. Len(built[0]) = 0 /\ built[0] \in V /\ \A k \in 1..0 : FALSE
    BY <1>10, <2>1
  <2> QED
    BY <2>2 DEF BuiltAfter
<1>13. ASSUME NEW i \in Nat, i \in T, i + 1 <= n PROVE Good(i + 1)
  <2>1. i + 1 \in 1..n /\ i \in 0..(n - 1) /\ (i + 1) - 1 = i /\ i <= n
    BY <1>1, <1>13
  <2>2. Good(i)
    BY <1>13, <2>1
  <2>3. built[i + 1] = Widen(c, built[i], i + 1)
    BY <1>11, <2>1
  <2>4. Widen(c, built[i], i + 1) \in V
    BY <1>2, <2>1, <2>2
  <2>5. BuiltAfter(c, i + 1, Widen(c, built[i], i + 1))
    <3> DEFINE L == built[i]
    <3> HIDE DEF L
    <3>1. i \in 0..(Len(c) - 1) /\ L \in Seq(Seq(Parts)) /\ BuiltAfter(c, i, L)
      BY <2>1, <2>2 DEF n, V, L
    <3>2. BuiltAfter(c, i + 1, Widen(c, L, i + 1))
      BY <3>1, BuiltStep
    <3> QED
      BY <3>2 DEF L
  <2> QED
    BY <2>3, <2>4, <2>5
<1>14. Good(n)
  <2>1. \A i \in Nat : i \in T => i + 1 \in T
    BY <1>1, <1>13
  <2>2. n \in T
    <3> HIDE DEF T
    <3> QED
      BY <1>1, <1>12, <2>1, SetInduction
  <2> QED
    BY <1>1, <2>2
<1>15. ChannelMatches(c) \in V
  <2>1. <<>> \in V
    BY DEF V
  <2> QED
    BY <1>9, <1>14, <2>1
<1>16. ASSUME n <= MaxParts
       PROVE  /\ Len(ChannelMatches(c)) = Candidates(c)
              /\ \A k \in 1..Candidates(c) : ChannelMatches(c)[k] = Candidate(c, k)
  <2> DEFINE L == ChannelMatches(c)
  <2>1. L = built[n] /\ L \in V
    BY <1>1, <1>9, <1>14, <1>16, MaxPartsAssumption
  <2> HIDE DEF L
  <2>2. BuiltAfter(c, n, L) /\ Missing(c, n) = 0
    BY <1>14, <2>1 DEF Missing, n
  <2>3. Candidates(c) \in Nat /\ (n = 0 => Candidates(c) = 0)
    BY <1>1 DEF Candidates, n
  <2>4. Len(L) = Candidates(c)
    BY <2>2, <2>3 DEF BuiltAfter
  <2>5. \A k \in 1..Candidates(c) : k + 0 = k
    BY <2>3
  <2>6. \A k \in 1..Candidates(c) : L[k] = Candidate(c, k)
    BY <2>2, <2>4, <2>5 DEF BuiltAfter
  <2> QED
    BY <2>4, <2>6 DEF L
<1> QED
  BY <1>15, <1>16 DEF V, n

(* A candidate is at its distance.                                         *)
LEMMA CandidateDistance ==
  ASSUME NEW c \in Seq(Parts), ~IsWildcard(c), NEW k \in 1..Candidates(c)
  PROVE  /\ Candidate(c, k) \in Seq(Parts) /\ Candidate(c, k) # <<>>
         /\ Selects(Candidate(c, k), c)
         /\ Distance(Candidate(c, k), c) = k - 1
<1> DEFINE n == Len(c)
<1>1. n \in Nat /\ n # 0 /\ c[n] # Star /\ c[n] # StarStar
  BY DEF IsWildcard, Last, Candidates
<1>2. CASE k = 1
  BY <1>1, <1>2 DEF Candidate, Selects, Distance
<1>3. CASE k # 1
  <2> DEFINE w == IF k = 2 THEN Star ELSE StarStar
             i == IF k = 2 THEN n - 1 ELSE n + 2 - k
             p == Wild(c, i, w)
  <2>1. n > 1 /\ k \in 2..(n + 1) /\ i \in 1..(n - 1) /\ w \in {Star, StarStar}
        /\ Candidate(c, k) = p
    BY <1>1, <1>3 DEF Candidates, Candidate
  <2>2. Star # StarStar
    BY DEF Star, StarStar
  <2> HIDE DEF w, p
  <2>3. /\ p \in Seq(Parts) /\ Len(p) = i + 1 /\ p[i + 1] = w
        /\ \A j \in 1..i : p[j] = c[j]
    <3> HIDE DEF i
    <3>1. i \in 1..Len(c)
      BY <2>1
    <3> QED
      BY <2>1, <3>1, WildShape DEF p
  <2>4. p # c /\ Last(p) = w
    <3>1. Last(p) = w
      BY <2>3 DEF Last
    <3>2. Last(c) = c[n]
      BY DEF Last
    <3> QED
      BY <1>1, <2>1, <3>1, <3>2
  <2>5. IsPrefix(Front(p), c)
    <3>1. Front(p) = SubSeq(p, 1, i)
      BY <2>1, <2>3 DEF Front
    <3>2. /\ SubSeq(p, 1, i) \in Seq(Parts) /\ Len(SubSeq(p, 1, i)) = i
          /\ SubSeq(c, 1, i) \in Seq(Parts) /\ Len(SubSeq(c, 1, i)) = i
          /\ \A j \in 1..i : SubSeq(p, 1, i)[j] = p[j] /\ SubSeq(c, 1, i)[j] = c[j]
      BY <2>1, <2>3
    <3> DEFINE q == SubSeq(p, 1, i)
               r == SubSeq(c, 1, i)
    <3> HIDE DEF q, r, i
    <3>3. q \in Seq(Parts) /\ r \in Seq(Parts) /\ Len(q) = i /\ Len(r) = i
          /\ \A j \in 1..i : q[j] = r[j]
      BY <2>3, <3>2 DEF q, r
    <3>4. q = r
      BY <3>3
    <3>5. SubSeq(q, 1, i) = q
      BY <2>1, <3>3
    <3> QED
      BY <2>1, <3>1, <3>3, <3>4, <3>5 DEF IsPrefix, q, r
  <2>6. k = 2 => w = Star /\ Len(p) = n
    BY <1>1, <2>3 DEF w
  <2>7. k # 2 => w = StarStar /\ Len(p) = n + 3 - k /\ k \in 3..(n + 1)
    BY <1>1, <2>1, <2>3 DEF w
  <2>8. Selects(p, c)
    BY <1>1, <2>1, <2>4, <2>5, <2>6, <2>7 DEF Selects
  <2>9. Distance(p, c) = k - 1
    BY <1>1, <2>1, <2>2, <2>4, <2>6, <2>7 DEF Distance
  <2>10. p # <<>>
    BY <2>1, <2>3
  <2> QED
    BY <2>1, <2>3, <2>8, <2>9, <2>10
<1> QED
  BY <1>2, <1>3

(* A pattern whose front is a prefix of a channel is one of its wildcards. *)
LEMMA WildOfFront ==
  ASSUME NEW c \in Seq(Parts), NEW p \in Seq(Parts), NEW w \in {Star, StarStar},
         Len(p) > 1, Len(p) <= Len(c), IsPrefix(Front(p), c), Last(p) = w
  PROVE  Len(p) - 1 \in 1..Len(c) /\ p = Wild(c, Len(p) - 1, w)
<1> DEFINE m == Len(p) - 1
           q == Front(p)
<1>1. m \in 1..Len(c) /\ Len(p) = m + 1
  OBVIOUS
<1>2. q \in Seq(Parts) /\ Len(q) = m /\ \A k \in 1..m : q[k] = p[k]
  BY <1>1 DEF Front
<1>3. SubSeq(q, 1, m) = SubSeq(c, 1, m)
  <2> HIDE DEF q
  <2> QED
    BY <1>2 DEF IsPrefix, q
<1> HIDE DEF q, m
<1>4. \A k \in 1..m : SubSeq(q, 1, m)[k] = q[k] /\ SubSeq(c, 1, m)[k] = c[k]
  BY <1>1, <1>2
<1>5. \A k \in 1..m : p[k] = c[k]
  BY <1>2, <1>3, <1>4
<1> DEFINE r == Wild(c, m, w)
<1>6. /\ r \in Seq(Parts) /\ Len(r) = m + 1 /\ r[m + 1] = w
      /\ \A k \in 1..m : r[k] = c[k]
  BY <1>1, WildShape
<1> HIDE DEF r
<1>7. p[m + 1] = w
  BY <1>1 DEF Last
<1>8. \A k \in 1..(m + 1) : p[k] = r[k]
  <2> SUFFICES ASSUME NEW k \in 1..(m + 1) PROVE p[k] = r[k]
    OBVIOUS
  <2>1. CASE k = m + 1
    BY <1>6, <1>7, <2>1
  <2>2. CASE k # m + 1
    <3>1. k \in 1..m
      BY <1>1, <2>2
    <3> QED
      BY <1>5, <1>6, <3>1
  <2> QED
    BY <2>1, <2>2
<1>9. p = r
  BY <1>1, <1>6, <1>8
<1> QED
  BY <1>1, <1>9 DEF r, m

(* Every pattern that selects a channel is among its candidates.           *)
LEMMA SelectedIsCandidate ==
  ASSUME NEW c \in Seq(Parts), NEW p \in Seq(Parts), p # <<>>, Selects(p, c)
  PROVE  \E k \in 1..Candidates(c) : p = Candidate(c, k)
<1> DEFINE n == Len(c)
<1>1. n \in Nat
  OBVIOUS
<1>2. CASE p = c
  <2>1. 1 \in 1..Candidates(c)
    <3>1. n # 0
      BY <1>2
    <3> QED
      BY <1>1, <3>1 DEF Candidates
  <2> QED
    BY <1>2, <2>1 DEF Candidate
<1>3. CASE Last(p) = Star /\ Len(p) > 1 /\ Len(p) = Len(c) /\ IsPrefix(Front(p), c)
  <2>1. p = Wild(c, Len(p) - 1, Star)
    BY <1>3, WildOfFront
  <2>2. 2 \in 1..Candidates(c)
    BY <1>1, <1>3 DEF Candidates
  <2>3. Candidate(c, 2) = Wild(c, Len(c) - 1, Star)
    BY DEF Candidate
  <2> QED
    BY <1>3, <2>1, <2>2, <2>3
<1>4. CASE Last(p) = StarStar /\ Len(p) > 1 /\ Len(p) <= Len(c) /\ IsPrefix(Front(p), c)
  <2>1. p = Wild(c, Len(p) - 1, StarStar)
    BY <1>4, WildOfFront
  <2> DEFINE k == n + 3 - Len(p)
  <2>2. k \in 1..Candidates(c) /\ k # 1 /\ k # 2 /\ n + 2 - k = Len(p) - 1
    BY <1>1, <1>4 DEF Candidates
  <2> HIDE DEF k
  <2>3. Candidate(c, k) = p
    BY <2>1, <2>2 DEF Candidate
  <2> QED
    BY <2>2, <2>3
<1> QED
  BY <1>2, <1>3, <1>4 DEF Selects

-----------------------------------------------------------------------------
(* cometd_listener_get                                                     *)

(* The listeners of one channel are in the order of their subscription.    *)
BornInOrder ==
  /\ adds \in 0..MaxAdds
  /\ born \in [Addresses -> 0..MaxAdds]
  /\ \A s \in Addresses : born[s] <= adds
  /\ \A p \in Patterns : \A i, j \in 1..Len(listeners[p]) :
       i < j => born[listeners[p][i]] < born[listeners[p][j]]

(* What the walk along the candidates has collected after i of them: the   *)
(* subscriptions of those channels, in the order of the channels first.    *)
CollectedAfter(channels, i, L) ==
  /\ L \in Seq(Addresses)
  /\ \A s \in Addresses : Contains(L, s) <=>
       channelOf[s] # NULL /\ \E k \in 1..i : channelOf[s] = channels[k]
  /\ \A a, b \in 1..Len(L) : a < b =>
       \/ \E k, l \in 1..i : /\ k < l /\ channelOf[L[a]] = channels[k]
                             /\ channelOf[L[b]] = channels[l]
       \/ channelOf[L[a]] = channelOf[L[b]] /\ born[L[a]] < born[L[b]]

(* What the table holds for a channel, registered or not.                  *)
LEMMA LookupShape ==
  ASSUME IInv, BornInOrder, NEW p, p # NULL
  PROVE  /\ Lookup(p) \in Seq(Addresses)
         /\ \A s \in Addresses : Contains(Lookup(p), s) <=> channelOf[s] = p
         /\ \A i, j \in 1..Len(Lookup(p)) :
              i < j => born[Lookup(p)[i]] < born[Lookup(p)[j]]
<1>1. CASE p \in Patterns
  <2>1. Lookup(p) = listeners[p]
    BY <1>1 DEF Lookup
  <2> QED
    BY <1>1, <2>1 DEF IInv, TableTypes, TableIsConsistent, BornInOrder
<1>2. CASE p \notin Patterns
  <2>1. Lookup(p) = <<>> /\ Len(<<>>) = 0
    BY <1>2 DEF Lookup
  <2>2. \A s \in Addresses : channelOf[s] # p
    BY <1>2 DEF IInv, TableTypes
  <2> QED
    BY <2>1, <2>2 DEF Contains
<1> QED
  BY <1>1, <1>2

(* The subscriptions of one more channel, behind those collected so far.   *)
LEMMA CollectStep ==
  ASSUME IInv, BornInOrder, NEW channels, NEW i \in Nat, NEW L, CollectedAfter(channels, i, L),
         channels[i + 1] # NULL
  PROVE  CollectedAfter(channels, i + 1, L \o Lookup(channels[i + 1]))
<1> DEFINE p == channels[i + 1]
           M == Lookup(p)
           R == L \o M
<1>1. /\ M \in Seq(Addresses)
      /\ \A s \in Addresses : Contains(M, s) <=> channelOf[s] = p
      /\ \A a, b \in 1..Len(M) : a < b => born[M[a]] < born[M[b]]
  BY LookupShape
<1>2. /\ L \in Seq(Addresses)
      /\ \A s \in Addresses : Contains(L, s) <=>
            channelOf[s] # NULL /\ \E k \in 1..i : channelOf[s] = channels[k]
      /\ \A a, b \in 1..Len(L) : a < b =>
            \/ \E k, l \in 1..i : /\ k < l /\ channelOf[L[a]] = channels[k]
                                  /\ channelOf[L[b]] = channels[l]
            \/ channelOf[L[a]] = channelOf[L[b]] /\ born[L[a]] < born[L[b]]
  BY DEF CollectedAfter
<1> HIDE DEF M, p
<1>3. Len(L) \in Nat /\ Len(M) \in Nat
  BY <1>1, <1>2
<1>4. /\ R \in Seq(Addresses) /\ Len(R) = Len(L) + Len(M)
      /\ \A a \in 1..(Len(L) + Len(M)) : R[a] = IF a <= Len(L) THEN L[a] ELSE M[a - Len(L)]
  BY <1>1, <1>2, ConcatProperties
<1> HIDE DEF R
<1>5. ASSUME NEW a \in 1..Len(R), a <= Len(L) PROVE a \in 1..Len(L) /\ R[a] = L[a]
  BY <1>3, <1>4, <1>5
<1>6. ASSUME NEW a \in 1..Len(R), ~(a <= Len(L))
      PROVE  a - Len(L) \in 1..Len(M) /\ R[a] = M[a - Len(L)]
  BY <1>3, <1>4, <1>6
<1>7. \A s : Contains(R, s) <=> Contains(L, s) \/ Contains(M, s)
  <2> SUFFICES ASSUME NEW s PROVE Contains(R, s) <=> Contains(L, s) \/ Contains(M, s)
    OBVIOUS
  <2>1. Contains(R, s) => Contains(L, s) \/ Contains(M, s)
    BY <1>5, <1>6 DEF Contains
  <2>2. Contains(L, s) => Contains(R, s)
    <3> SUFFICES ASSUME NEW a \in 1..Len(L), L[a] = s PROVE \E b \in 1..Len(R) : R[b] = s
      BY DEF Contains
    <3>1. a \in 1..Len(R) /\ a <= Len(L)
      BY <1>3, <1>4
    <3> QED
      BY <1>5, <3>1
  <2>3. Contains(M, s) => Contains(R, s)
    <3> SUFFICES ASSUME NEW a \in 1..Len(M), M[a] = s PROVE \E b \in 1..Len(R) : R[b] = s
      BY DEF Contains
    <3>1. a + Len(L) \in 1..Len(R) /\ ~(a + Len(L) <= Len(L)) /\ (a + Len(L)) - Len(L) = a
      BY <1>3, <1>4
    <3> QED
      BY <1>6, <3>1
  <2> QED
    BY <2>1, <2>2, <2>3
<1>8. /\ p # NULL /\ i + 1 \in 1..(i + 1) /\ 1..i \subseteq 1..(i + 1)
      /\ \A k \in 1..i : k < i + 1
      /\ \A k \in 1..(i + 1) : k \in 1..i \/ k = i + 1
  BY DEF p
<1>9. \A s \in Addresses : Contains(R, s) <=>
        channelOf[s] # NULL /\ \E k \in 1..(i + 1) : channelOf[s] = channels[k]
  BY <1>1, <1>2, <1>7, <1>8 DEF p
<1>10. ASSUME NEW a \in 1..Len(R), NEW b \in 1..Len(R), a < b
       PROVE  \/ \E k, l \in 1..(i + 1) : /\ k < l /\ channelOf[R[a]] = channels[k]
                                          /\ channelOf[R[b]] = channels[l]
              \/ channelOf[R[a]] = channelOf[R[b]] /\ born[R[a]] < born[R[b]]
  <2>1. CASE b <= Len(L)
    <3>1. a <= Len(L)
      BY <1>3, <1>4, <1>10, <2>1
    <3>2. a \in 1..Len(L) /\ R[a] = L[a] /\ b \in 1..Len(L) /\ R[b] = L[b]
      BY <1>5, <2>1, <3>1
    <3>3. \/ \E k, l \in 1..i : /\ k < l /\ channelOf[R[a]] = channels[k]
                                /\ channelOf[R[b]] = channels[l]
          \/ channelOf[R[a]] = channelOf[R[b]] /\ born[R[a]] < born[R[b]]
      BY <1>2, <1>10, <3>2
    <3> QED
      BY <1>8, <3>3
  <2>2. CASE a <= Len(L) /\ ~(b <= Len(L))
    <3>1. a \in 1..Len(L) /\ R[a] = L[a]
      BY <1>5, <2>2
    <3>2. b - Len(L) \in 1..Len(M) /\ R[b] = M[b - Len(L)]
      BY <1>6, <2>2
    <3>3. L[a] \in Addresses /\ Contains(L, L[a])
      BY <1>2, <3>1 DEF Contains
    <3>4. R[b] \in Addresses /\ Contains(M, R[b])
      BY <1>1, <3>2 DEF Contains
    <3>5. PICK k \in 1..i : channelOf[R[a]] = channels[k]
      BY <1>2, <3>1, <3>3
    <3>6. channelOf[R[b]] = channels[i + 1]
      BY <1>1, <3>4 DEF p
    <3> QED
      BY <1>8, <3>5, <3>6
  <2>3. CASE ~(a <= Len(L))
    <3>1. ~(b <= Len(L))
      BY <1>3, <1>4, <1>10, <2>3
    <3>2. a - Len(L) \in 1..Len(M) /\ R[a] = M[a - Len(L)]
      BY <1>6, <2>3
    <3>3. b - Len(L) \in 1..Len(M) /\ R[b] = M[b - Len(L)]
      BY <1>6, <3>1
    <3>4. a - Len(L) < b - Len(L)
      BY <1>3, <1>4, <1>10
    <3>5. born[R[a]] < born[R[b]]
      BY <1>1, <3>2, <3>3, <3>4
    <3>6. /\ R[a] \in Addresses /\ Contains(M, R[a])
          /\ R[b] \in Addresses /\ Contains(M, R[b])
      BY <1>1, <3>2, <3>3 DEF Contains
    <3> QED
      BY <1>1, <3>5, <3>6
  <2> QED
    BY <2>1, <2>2, <2>3
<1>11. CollectedAfter(channels, i + 1, R)
  BY <1>4, <1>9, <1>10 DEF CollectedAfter
<1> QED
  BY <1>11 DEF R, M, p

(* cometd_listener_get after the whole walk                                *)
LEMMA GetShape ==
  ASSUME IInv, BornInOrder, NEW c \in Seq(Parts), ~IsWildcard(c), Len(c) <= MaxParts
  PROVE  CollectedAfter(ChannelMatches(c), Candidates(c), ListenerGet(c))
<1> DEFINE channels == ChannelMatches(c)
           N == Len(channels)
           V == Seq(Addresses)
           step == [i \in 1..N |-> [L \in V |-> L \o Lookup(channels[i])]]
           none == <<>>
<1>1. /\ N = Candidates(c) /\ N \in Nat
      /\ \A i \in 1..N : channels[i] # NULL
  BY MatchesShape, CandidateDistance DEF NULL
<1>2. \A i \in 1..N : Lookup(channels[i]) \in V
  <2> HIDE DEF channels
  <2> QED
    BY <1>1, LookupShape
<1> HIDE DEF channels
<1>3. none \in V /\ \A L, M \in V : L \o M \in V
  BY ConcatProperties
<1> HIDE DEF V
<1>4. step \in [1..N -> [V -> V]]
  BY <1>2, <1>3
<1> HIDE DEF step, none, N
<1>5. N \in Nat /\ none \in V /\ step \in Steps(V, N)
  BY <1>1, <1>3, <1>4 DEF Steps
<1>6. PICK f \in [0..N -> V] : f[0] = none /\ \A i \in 1..N : f[i] = step[i][f[i - 1]]
  <2>1. Walked(V, none, N, step)
    BY <1>5, WalkExists
  <2> QED
    BY <2>1 DEF Walked
<1>7. ASSUME NEW i \in 1..N PROVE f[i] = f[i - 1] \o Lookup(channels[i])
  <2>1. i - 1 \in 0..N /\ f[i - 1] \in V
    BY <1>1
  <2> QED
    BY <1>6, <2>1 DEF step
<1>8. f = [i \in 0..N |-> IF i = 0 THEN none ELSE f[i - 1] \o Lookup(channels[i])]
  <2> DEFINE g == [i \in 0..N |-> IF i = 0 THEN none ELSE f[i - 1] \o Lookup(channels[i])]
  <2>1. ASSUME NEW i \in 0..N PROVE f[i] = g[i]
    <3>1. CASE i = 0
      BY <1>6, <3>1
    <3>2. CASE i # 0
      <4>1. i \in 1..N
        BY <1>1, <3>2
      <4> QED
        BY <1>7, <3>2, <4>1
    <3> QED
      BY <3>1, <3>2
  <2> QED
    BY <2>1
<1> DEFINE found[i \in 0..N] == IF i = 0 THEN <<>> ELSE found[i - 1] \o Lookup(channels[i])
<1>9. found = [i \in 0..N |-> IF i = 0 THEN <<>> ELSE found[i - 1] \o Lookup(channels[i])]
  BY <1>8 DEF none
<1>10. ListenerGet(c) = found[N]
  BY DEF ListenerGet, N, channels
<1> HIDE DEF found
<1>11. found[0] = <<>>
  BY <1>1, <1>9
<1>12. ASSUME NEW i \in 1..N PROVE found[i] = found[i - 1] \o Lookup(channels[i])
  <2>1. i \in 0..N /\ i # 0
    BY <1>1
  <2> QED
    BY <1>9, <2>1
<1> DEFINE T == {i \in Nat : i <= N => CollectedAfter(channels, i, found[i])}
<1>13. 0 \in T
  <2>1. <<>> \in Seq(Addresses) /\ Len(<<>>) = 0 /\ 1..0 = {}
    OBVIOUS
  <2> QED
    BY <1>11, <2>1 DEF CollectedAfter, Contains
<1>14. ASSUME NEW i \in Nat, i \in T, i + 1 <= N PROVE CollectedAfter(channels, i + 1, found[i + 1])
  <2>1. i + 1 \in 1..N /\ (i + 1) - 1 = i /\ i <= N
    BY <1>1, <1>14
  <2>2. CollectedAfter(channels, i, found[i]) /\ channels[i + 1] # NULL
    BY <1>1, <1>14, <2>1
  <2>3. found[i + 1] = found[i] \o Lookup(channels[i + 1])
    BY <1>12, <2>1
  <2> QED
    BY <2>2, <2>3, CollectStep
<1>15. N \in T
  <2>1. \A i \in Nat : i \in T => i + 1 \in T
    BY <1>1, <1>14
  <2> HIDE DEF T
  <2> QED
    BY <1>1, <1>13, <2>1, SetInduction
<1> QED
  BY <1>1, <1>10, <1>15 DEF channels

(* What a dispatch reads from a table in order is what the pattern of each *)
(* subscription and the order of subscribing ask for.                      *)
LEMMA GetIsRight ==
  ASSUME IInv, BornInOrder, Patterns \subseteq Seq(Parts), <<>> \notin Patterns,
         NEW c \in Seq(Parts), ~IsWildcard(c), Len(c) <= MaxParts
  PROVE  FiresTheSelected(c, ListenerGet(c))
<1> DEFINE L == ListenerGet(c)
           n == Candidates(c)
<1>1. CollectedAfter(ChannelMatches(c), n, L)
  BY GetShape
<1>2. \A k \in 1..n : ChannelMatches(c)[k] = Candidate(c, k)
  BY MatchesShape
<1>3. \A k \in 1..n : /\ Selects(Candidate(c, k), c)
                      /\ Distance(Candidate(c, k), c) = k - 1
  BY CandidateDistance
<1> HIDE DEF L
<1>4. ASSUME NEW s \in Addresses
      PROVE  /\ channelOf[s] # NULL => channelOf[s] \in Seq(Parts) /\ channelOf[s] # <<>>
             /\ Contains(L, s) <=> channelOf[s] # NULL /\ Selects(channelOf[s], c)
  <2>1. channelOf[s] # NULL => channelOf[s] \in Seq(Parts) /\ channelOf[s] # <<>>
    BY DEF IInv, TableTypes
  <2>2. Contains(L, s) <=> channelOf[s] # NULL /\ \E k \in 1..n : channelOf[s] = Candidate(c, k)
    BY <1>1, <1>2 DEF CollectedAfter
  <2>3. ASSUME channelOf[s] # NULL, Selects(channelOf[s], c)
        PROVE  \E k \in 1..n : channelOf[s] = Candidate(c, k)
    BY <2>1, <2>3, SelectedIsCandidate
  <2> QED
    BY <1>3, <2>1, <2>2, <2>3
<1>5. ToSet(L) = {s \in Addresses : channelOf[s] # NULL /\ Selects(channelOf[s], c)}
  <2>1. L \in Seq(Addresses)
    BY <1>1 DEF CollectedAfter
  <2>2. \A s : s \in ToSet(L) <=> Contains(L, s)
    BY <2>1 DEF ToSet, Contains
  <2>3. \A s : Contains(L, s) => s \in Addresses
    BY <2>1 DEF Contains
  <2> QED
    BY <1>4, <2>2, <2>3
<1>6. ASSUME NEW a \in 1..Len(L), NEW b \in 1..Len(L), a < b
      PROVE  \/ Distance(channelOf[L[a]], c) < Distance(channelOf[L[b]], c)
             \/ /\ Distance(channelOf[L[a]], c) = Distance(channelOf[L[b]], c)
                /\ born[L[a]] < born[L[b]]
  <2>1. \/ \E k, l \in 1..n : /\ k < l /\ channelOf[L[a]] = Candidate(c, k)
                              /\ channelOf[L[b]] = Candidate(c, l)
        \/ channelOf[L[a]] = channelOf[L[b]] /\ born[L[a]] < born[L[b]]
    <3>1. \/ \E k, l \in 1..n : /\ k < l /\ channelOf[L[a]] = ChannelMatches(c)[k]
                                /\ channelOf[L[b]] = ChannelMatches(c)[l]
          \/ channelOf[L[a]] = channelOf[L[b]] /\ born[L[a]] < born[L[b]]
      BY <1>1, <1>6 DEF CollectedAfter
    <3> QED
      BY <1>2, <3>1
  <2>2. CASE \E k, l \in 1..n : /\ k < l /\ channelOf[L[a]] = Candidate(c, k)
                                /\ channelOf[L[b]] = Candidate(c, l)
    BY <1>3, <2>2
  <2> QED
    BY <2>1, <2>2
<1> QED
  BY <1>5, <1>6 DEF FiresTheSelected, L

-----------------------------------------------------------------------------
(* The order of the lists, and the dispatches under way                    *)

(* A new subscription is the last of its list and the latest born.         *)
LEMMA AddKeepsOrder ==
  ASSUME IInv, BornInOrder, NEW s \in Addresses, NEW p \in Patterns, ListenerAdd(s, p)
  PROVE  BornInOrder'
<1>1. /\ channelOf[s] = NULL /\ adds < MaxAdds
      /\ listeners' = [listeners EXCEPT ![p] = Append(@, s)]
      /\ adds' = adds + 1 /\ born' = [born EXCEPT ![s] = adds + 1]
  BY DEF ListenerAdd
<1>2. /\ MaxAdds \in Nat /\ adds \in 0..MaxAdds /\ born \in [Addresses -> 0..MaxAdds]
      /\ \A u \in Addresses : born[u] <= adds
  BY ListenersAssumption DEF BornInOrder
<1>3. /\ adds' \in 0..MaxAdds /\ born' \in [Addresses -> 0..MaxAdds]
      /\ \A u \in Addresses : born'[u] = IF u = s THEN adds + 1 ELSE born[u]
  BY <1>1, <1>2
<1>4. \A u \in Addresses : born'[u] <= adds'
  BY <1>1, <1>2, <1>3
<1>5. ASSUME NEW q \in Patterns
      PROVE  /\ listeners[q] \in Seq(Addresses) /\ ~Contains(listeners[q], s)
             /\ \A i, j \in 1..Len(listeners[q]) :
                  i < j => born'[listeners[q][i]] < born'[listeners[q][j]]
  <2>1. listeners[q] \in Seq(Addresses) /\ ~Contains(listeners[q], s)
    BY <1>1, ListenersAssumption DEF IInv, TableTypes, TableIsConsistent, NULL
  <2>2. \A i \in 1..Len(listeners[q]) : listeners[q][i] \in Addresses /\ listeners[q][i] # s
    BY <2>1 DEF Contains
  <2> QED
    BY <1>3, <2>1, <2>2 DEF BornInOrder
<1>6. ASSUME NEW q \in Patterns, NEW i \in 1..Len(listeners'[q]), NEW j \in 1..Len(listeners'[q]),
             i < j
      PROVE  born'[listeners'[q][i]] < born'[listeners'[q][j]]
  <2>1. CASE q # p
    <3>1. listeners'[q] = listeners[q]
      BY <1>1, <2>1 DEF IInv, TableTypes
    <3> QED
      BY <1>5, <1>6, <3>1
  <2>2. CASE q = p
    <3> DEFINE L == listeners[p]
               n == Len(L)
    <3>1. L \in Seq(Addresses)
      BY <1>5
    <3>2. listeners'[q] = Append(L, s)
      BY <1>1, <2>2 DEF IInv, TableTypes
    <3>3. \A k, l \in 1..n : k < l => born'[L[k]] < born'[L[l]]
      BY <1>5
    <3>4. \A k \in 1..n : born'[L[k]] <= adds
      BY <1>1, <1>2, <1>3, <1>5, <3>1 DEF Contains
    <3> HIDE DEF L
    <3>5. n \in Nat /\ Len(Append(L, s)) = n + 1 /\ Append(L, s)[n + 1] = s
          /\ \A k \in 1..n : Append(L, s)[k] = L[k]
      BY <3>1
    <3>6. i \in 1..(n + 1) /\ j \in 1..(n + 1)
      BY <1>6, <3>2, <3>5
    <3>7. CASE j = n + 1
      <4>1. i \in 1..n
        BY <1>6, <3>5, <3>6, <3>7
      <4>2. born'[L[i]] <= adds /\ L[i] \in Addresses
        BY <3>1, <3>4, <4>1
      <4>3. born'[L[i]] \in Int
        BY <1>3, <4>2
      <4>4. born'[s] = adds + 1
        BY <1>3
      <4>5. listeners'[q][i] = L[i] /\ listeners'[q][j] = s
        BY <3>2, <3>5, <3>7, <4>1
      <4> QED
        BY <1>2, <4>2, <4>3, <4>4, <4>5
    <3>8. CASE j # n + 1
      <4>1. i \in 1..n /\ j \in 1..n
        BY <1>6, <3>5, <3>6, <3>8
      <4>2. listeners'[q][i] = L[i] /\ listeners'[q][j] = L[j]
        BY <3>2, <3>5, <4>1
      <4> QED
        BY <1>6, <3>3, <4>1, <4>2
    <3> QED
      BY <3>7, <3>8
  <2> QED
    BY <2>1, <2>2
<1> QED
  BY <1>3, <1>4, <1>6 DEF BornInOrder

(* A removal leaves the others of the list in their order.                 *)
LEMMA RemoveKeepsOrder ==
  ASSUME IInv, BornInOrder, NEW s \in Addresses, ListenerRemove(s)
  PROVE  BornInOrder'
<1> DEFINE p == channelOf[s]
           L == listeners[p]
<1>1. /\ p \in Patterns
      /\ listeners' = [listeners EXCEPT ![p] = RemoveFirst(@, s)]
      /\ adds' = adds /\ born' = born
  BY DEF ListenerRemove, IInv, TableTypes
<1>2. L \in Seq(Addresses) /\ IsInjective(L) /\ Contains(L, s)
  BY <1>1 DEF IInv, TableTypes, TableIsConsistent
<1>3. PICK k \in 1..Len(L) : L[k] = s
  BY <1>2 DEF Contains
<1>4. \A i \in 1..Len(L) : L[i] = s => i = k
  BY <1>2, <1>3 DEF IsInjective
<1>5. \A i, j \in 1..Len(L) : i < j => born[L[i]] < born[L[j]]
  BY <1>1 DEF BornInOrder
<1> HIDE DEF p
<1>6. listeners'[p] = RemoveFirst(L, s) /\ \A q \in Patterns : q # p => listeners'[q] = listeners[q]
  BY <1>1 DEF IInv, TableTypes
<1> HIDE DEF L
<1>7. /\ Len(L) \in Nat
      /\ Len(RemoveFirst(L, s)) = Len(L) - 1
      /\ \A i \in 1..(Len(L) - 1) : RemoveFirst(L, s)[i] = IF i < k THEN L[i] ELSE L[i + 1]
  BY <1>2, <1>3, <1>4, RemoveShape
<1>8. ASSUME NEW i \in 1..(Len(L) - 1), NEW j \in 1..(Len(L) - 1), i < j
      PROVE  born[RemoveFirst(L, s)[i]] < born[RemoveFirst(L, s)[j]]
  <2> DEFINE at(m) == IF m < k THEN m ELSE m + 1
  <2>1. at(i) \in 1..Len(L) /\ at(j) \in 1..Len(L) /\ at(i) < at(j)
    BY <1>7, <1>8
  <2>2. RemoveFirst(L, s)[i] = L[at(i)] /\ RemoveFirst(L, s)[j] = L[at(j)]
    BY <1>7
  <2> HIDE DEF at
  <2> QED
    BY <1>5, <2>1, <2>2
<1>9. ASSUME NEW q \in Patterns, NEW i \in 1..Len(listeners'[q]), NEW j \in 1..Len(listeners'[q]),
             i < j
      PROVE  born'[listeners'[q][i]] < born'[listeners'[q][j]]
  <2>1. CASE q = p
    BY <1>1, <1>6, <1>7, <1>8, <1>9, <2>1
  <2>2. CASE q # p
    BY <1>1, <1>6, <1>9, <2>2 DEF BornInOrder
  <2> QED
    BY <2>1, <2>2
<1> QED
  BY <1>1, <1>9 DEF BornInOrder

(* Every dispatch under way is at one of the listeners of its list.        *)
Call == [list : Seq(Addresses), item : Nat]

Underway(q) ==
  /\ q \in Seq(Call)
  /\ Len(q) <= MaxDepth
  /\ \A i \in 1..Len(q) : q[i].item \in 1..Len(q[i].list)

CallsShape == Underway(calls)

(* cometd_listener_get on any channel, also one of too many parts.         *)
LEMMA GetType ==
  ASSUME IInv, BornInOrder, NEW c \in Channels, ~IsWildcard(c)
  PROVE  ListenerGet(c) \in Seq(Addresses)
<1>1. c \in Seq(Parts)
  BY ListenersAssumption DEF Parts
<1>2. CASE Len(c) <= MaxParts
  BY <1>1, <1>2, GetShape DEF CollectedAfter
<1>3. CASE ~(Len(c) <= MaxParts)
  <2>1. Len(c) > MaxParts
    BY <1>1, <1>3, MaxPartsAssumption
  <2>2. ChannelMatches(c) = <<>>
    BY <2>1 DEF ChannelMatches
  <2> DEFINE found[i \in 0..0] ==
               IF i = 0 THEN <<>> ELSE found[i - 1] \o Lookup(<<>>[i])
             g == [i \in 0..0 |-> <<>>]
  <2>3. g = [i \in 0..0 |-> IF i = 0 THEN <<>> ELSE g[i - 1] \o Lookup(<<>>[i])]
    <3> DEFINE h == [i \in 0..0 |-> IF i = 0 THEN <<>> ELSE g[i - 1] \o Lookup(<<>>[i])]
    <3>1. \A i \in 0..0 : i = 0
      OBVIOUS
    <3>2. \A i \in 0..0 : g[i] = h[i]
      BY <3>1
    <3> QED
      BY <3>2
  <2>4. found = [i \in 0..0 |-> IF i = 0 THEN <<>> ELSE found[i - 1] \o Lookup(<<>>[i])]
    <3> HIDE DEF g
    <3> QED
      BY <2>3
  <2>5. Len(<<>>) = 0
    OBVIOUS
  <2>6. ListenerGet(c) = found[0]
    BY <2>2, <2>5 DEF ListenerGet
  <2> HIDE DEF found
  <2>7. found[0] = <<>>
    <3>1. 0 \in 0..0
      OBVIOUS
    <3> QED
      BY <2>4, <3>1
  <2> QED
    BY <2>6, <2>7
<1> QED
  BY <1>2, <1>3

(* A new dispatch starts at the first listener of a list that is not       *)
(* empty.                                                                  *)
LEMMA FireKeepsCalls ==
  ASSUME IInv, BornInOrder, CallsShape, NEW c \in Channels, Fire(c)
  PROVE  CallsShape'
<1> DEFINE list == ListenerGet(c)
           call == [list |-> list, item |-> 1]
<1>1. list \in Seq(Addresses)
  BY GetType DEF Fire
<1>2. Len(calls) < MaxDepth /\ calls' = IF list = <<>> THEN calls ELSE Append(calls, call)
  BY DEF Fire
<1> HIDE DEF list
<1>3. CASE list = <<>>
  BY <1>2, <1>3 DEF CallsShape
<1>4. CASE list # <<>>
  <2>1. call \in Call /\ call.item = 1 /\ call.list = list
    BY <1>1 DEF Call
  <2>2. 1 \in 1..Len(list)
    BY <1>1, <1>4
  <2> HIDE DEF call
  <2>3. calls \in Seq(Call) /\ Len(calls) \in Nat /\ calls' = Append(calls, call)
    BY <1>2, <1>4 DEF CallsShape, Underway
  <2>4. /\ Append(calls, call) \in Seq(Call) /\ Len(Append(calls, call)) = Len(calls) + 1
        /\ Append(calls, call)[Len(calls) + 1] = call
        /\ \A i \in 1..Len(calls) : Append(calls, call)[i] = calls[i]
    BY <2>1, <2>3
  <2>5. Len(calls) + 1 <= MaxDepth
    BY <1>2, <2>3, ListenersAssumption
  <2>6. ASSUME NEW i \in 1..(Len(calls) + 1)
        PROVE  Append(calls, call)[i].item \in 1..Len(Append(calls, call)[i].list)
    <3>1. CASE i = Len(calls) + 1
      BY <2>1, <2>2, <2>4, <3>1
    <3>2. CASE i # Len(calls) + 1
      <4>1. i \in 1..Len(calls)
        BY <2>3, <3>2
      <4> QED
        BY <2>4, <4>1 DEF CallsShape, Underway
    <3> QED
      BY <3>1, <3>2
  <2>7. Underway(Append(calls, call))
    BY <2>4, <2>5, <2>6 DEF Underway
  <2> QED
    BY <2>3, <2>7 DEF CallsShape
<1> QED
  BY <1>3, <1>4

(* A callback that returns ends the dispatch or takes it to its next       *)
(* listener.                                                               *)
LEMMA ReturnKeepsCalls ==
  ASSUME CallsShape, NEW success \in BOOLEAN, CallbackReturns(success)
  PROVE  CallsShape'
<1> DEFINE n == Len(calls)
           call == Last(calls)
           next == [call EXCEPT !.item = @ + 1]
           front == Front(calls)
<1>1. calls \in Seq(Call) /\ n \in Nat /\ n # 0 /\ n <= MaxDepth
      /\ \A i \in 1..n : calls[i].item \in 1..Len(calls[i].list)
  BY DEF CallsShape, Underway, CallbackReturns
<1>2. call = calls[n] /\ call \in Call /\ call.item \in 1..Len(call.list)
  BY <1>1 DEF Last
<1>3. /\ front \in Seq(Call) /\ Len(front) = n - 1
      /\ \A i \in 1..(n - 1) : front[i] = calls[i]
  BY <1>1, FrontShape
<1>4. calls' = IF success /\ call.item < Len(call.list) THEN front \o <<next>> ELSE front
  BY DEF CallbackReturns
<1> HIDE DEF front, call
<1>5. Underway(front)
  <2>1. n - 1 <= MaxDepth
    BY <1>1, ListenersAssumption
  <2>2. \A i \in 1..(n - 1) : i \in 1..n
    BY <1>1
  <2> QED
    BY <1>1, <1>3, <2>1, <2>2 DEF Underway
<1>6. ASSUME call.item < Len(call.list) PROVE Underway(front \o <<next>>)
  <2>1. /\ call.list \in Seq(Addresses) /\ Len(call.list) \in Nat
        /\ next \in Call /\ next.list = call.list /\ next.item = call.item + 1
    BY <1>2 DEF Call
  <2>2. next.item \in 1..Len(next.list)
    BY <1>2, <1>6, <2>1
  <2> HIDE DEF next
  <2> DEFINE q == front \o <<next>>
  <2>3. q = Append(front, next)
    BY <1>3, <2>1
  <2>4. /\ Append(front, next) \in Seq(Call) /\ Len(Append(front, next)) = n
        /\ Append(front, next)[n] = next
        /\ \A i \in 1..(n - 1) : Append(front, next)[i] = front[i]
    BY <1>1, <1>3, <2>1
  <2> HIDE DEF q
  <2>5. ASSUME NEW i \in 1..n PROVE q[i].item \in 1..Len(q[i].list)
    <3>1. CASE i = n
      BY <2>2, <2>3, <2>4, <3>1
    <3>2. CASE i # n
      <4>1. i \in 1..(n - 1)
        BY <1>1, <3>2
      <4>2. q[i] = calls[i]
        BY <1>3, <2>3, <2>4, <4>1
      <4> QED
        BY <1>1, <4>2
    <3> QED
      BY <3>1, <3>2
  <2>6. Underway(q)
    BY <1>1, <2>3, <2>4, <2>5 DEF Underway
  <2> QED
    BY <2>6 DEF q
<1>7. CASE success /\ call.item < Len(call.list)
  BY <1>4, <1>6, <1>7 DEF CallsShape
<1>8. CASE ~(success /\ call.item < Len(call.list))
  BY <1>4, <1>5, <1>8 DEF CallsShape
<1> QED
  BY <1>7, <1>8

(* The inductive invariant of the table and the dispatches                 *)
DispatchInv == IInv /\ BornInOrder /\ CallsShape

(* Nothing is added and nothing is under way.                              *)
LEMMA DispatchInit == Init => DispatchInv
<1> SUFFICES ASSUME Init PROVE DispatchInv
  OBVIOUS
<1>1. IInv
  BY EmptyTable
<1>2. \A p \in Patterns : listeners[p] = <<>> /\ Len(<<>>) = 0
  BY DEF Init
<1>3. BornInOrder
  BY <1>2, ListenersAssumption DEF Init, BornInOrder
<1>4. CallsShape
  <2>1. <<>> \in Seq(Call) /\ Len(<<>>) = 0 /\ 0 <= MaxDepth
    BY ListenersAssumption
  <2> QED
    BY <2>1 DEF Init, CallsShape, Underway
<1> QED
  BY <1>1, <1>3, <1>4 DEF DispatchInv

(* Every step keeps the table, the order of its lists and the dispatches.  *)
LEMMA DispatchStep == DispatchInv /\ [Next]_vars => DispatchInv'
<1> SUFFICES ASSUME DispatchInv, [Next]_vars PROVE BornInOrder' /\ CallsShape'
  BY TableStep DEF DispatchInv
<1> USE DEF DispatchInv
<1>1. ASSUME UNCHANGED <<listeners, born, adds>> PROVE BornInOrder'
  BY <1>1 DEF BornInOrder
<1>2. ASSUME UNCHANGED calls PROVE CallsShape'
  BY <1>2 DEF CallsShape
<1>3. ASSUME NEW s \in Addresses, NEW p \in Patterns, ListenerAdd(s, p)
      PROVE  BornInOrder' /\ CallsShape'
  BY <1>2, <1>3, AddKeepsOrder DEF ListenerAdd
<1>4. ASSUME NEW s \in Addresses, ListenerRemove(s) PROVE BornInOrder' /\ CallsShape'
  BY <1>2, <1>4, RemoveKeepsOrder DEF ListenerRemove
<1>5. ASSUME NEW c \in Channels, Fire(c) PROVE BornInOrder' /\ CallsShape'
  BY <1>1, <1>5, FireKeepsCalls DEF Fire
<1>6. ASSUME NEW success \in BOOLEAN, CallbackReturns(success)
      PROVE  BornInOrder' /\ CallsShape'
  BY <1>1, <1>6, ReturnKeepsCalls DEF CallbackReturns
<1>7. CASE UNCHANGED vars
  BY <1>1, <1>2, <1>7 DEF vars
<1> QED
  BY <1>3, <1>4, <1>5, <1>6, <1>7 DEF Next

(* The three hold in every execution.                                      *)
LEMMA DispatchInvariant == Spec => []DispatchInv
BY DispatchInit, DispatchStep, PTL DEF Spec

(* Every variable has its type, and every dispatch under way is within its *)
(* list, however callbacks dispatch and change the table.                  *)
THEOREM TypeCorrect == Spec => []TypeOK
<1>1. DispatchInv => TypeOK
  <2> SUFFICES ASSUME DispatchInv PROVE TypeOK
    OBVIOUS
  <2>1. ASSUME NEW i \in 1..Len(calls)
        PROVE  calls[i].list \in Seq(Addresses) /\ calls[i].item \in 1..Len(calls[i].list)
    <3>1. calls[i] \in Call /\ calls[i].item \in 1..Len(calls[i].list)
      BY DEF DispatchInv, CallsShape, Underway
    <3> QED
      BY <3>1 DEF Call
  <2> QED
    BY <2>1 DEF DispatchInv, IInv, TableTypes, BornInOrder, CallsShape, Underway, TypeOK
<1> QED
  BY <1>1, DispatchInvariant, PTL

(* cometd_listener_fire calls the listeners that the channel of a message  *)
(* selects, and no other, each once, the most specific subscription first  *)
(* and those of one channel as they were added: for every table that adds  *)
(* and removes can lead to and every channel within COMETD_MAX_CHANNEL_PARTS. *)
THEOREM DispatchOrder == Spec => []DispatchesAsSubscribed
<1>1. DispatchInv => DispatchesAsSubscribed
  <2> SUFFICES ASSUME DispatchInv, NEW c \in Channels, Len(c) <= MaxParts, ~IsWildcard(c)
               PROVE  FiresTheSelected(c, ListenerGet(c))
    BY DEF DispatchesAsSubscribed
  <2>1. /\ c \in Seq(Parts) /\ Patterns \subseteq Seq(Parts) /\ <<>> \notin Patterns
    BY ListenersAssumption DEF Parts
  <2> QED
    BY <2>1, GetIsRight DEF DispatchInv
<1> QED
  BY <1>1, DispatchInvariant, PTL

=============================================================================
