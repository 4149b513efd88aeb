--------------------------- MODULE MessagesProofs ---------------------------
(***************************************************************************)
(* Proofs about Messages, for any number of callers, extensions, requests  *)
(* and messages of a payload.                                              *)
(*                                                                         *)
(*   IInv      message ids: what a thread has read of the seed             *)
(*   SInv      sending: what is built, posted and marked                   *)
(*   RInv      receiving: marks of what is at hand and has been handled    *)
(*   FlowInv   where each message is, or is on its way to                  *)
(***************************************************************************)
EXTENDS Messages, SequenceLemmas

(* The phases between the two halves of ++msg_id_seed                      *)
Counting == {"building", "rebuilding"}

Numbered(n) == \A id \in 1..n : \E j \in 1..Len(ids) : ids[j] = id

IdTypes ==
  /\ seed \in Nat /\ ids \in Seq(Nat) /\ raced \in BOOLEAN
  /\ seen \in [Senders -> Nat]
  /\ DOMAIN pc = Threads
  /\ \A t \in Threads : pc[t] \in Counting => t \in Senders

(* Without a race only one thread counts, from the seed as it is, which is *)
(* the number of ids.                                                      *)
OneCounts ==
  ~raced =>
    /\ seed = Len(ids)
    /\ \A i \in 1..Len(ids) : ids[i] = i
    /\ \A t \in Senders : pc[t] \in Counting =>
         /\ seen[t] = seed
         /\ \A u \in Senders : pc[u] \in Counting => u = t

(* With or without, the seed, and every value that a thread has read of    *)
(* it, is one that all smaller ids have led up to.                         *)
NoneSkipped ==
  /\ Numbered(seed)
  /\ \A t \in Senders : pc[t] \in Counting => Numbered(seen[t])
  /\ \A i \in 1..Len(ids) : \A id \in 1..ids[i] : \E j \in 1..i : ids[j] = id

IInv == IdTypes /\ OneCounts /\ NoneSkipped

(* At first there are no ids.                                              *)
LEMMA InitInvariant == Init => IInv
<1> SUFFICES ASSUME Init PROVE IInv
  OBVIOUS
<1>1. /\ seed = 0 /\ ids \in Seq(Nat) /\ Len(ids) = 0 /\ raced = FALSE
      /\ pc = [t \in Threads |-> "idle"]
      /\ seen = [t \in Senders |-> 0]
  BY DEF Init
<1>2. \A t \in Threads : pc[t] \notin Counting
  BY <1>1 DEF Counting
<1>3. Senders \subseteq Threads
  BY DEF Threads
<1>4. IdTypes
  BY <1>1, <1>2 DEF IdTypes
<1>5. OneCounts
  BY <1>1, <1>2, <1>3 DEF OneCounts
<1>6. NoneSkipped
  BY <1>1, <1>2, <1>3 DEF NoneSkipped, Numbered
<1> QED
  BY <1>4, <1>5, <1>6 DEF IInv

(* A load of the seed.                                                     *)
LEMMA ReadStep ==
  ASSUME IInv, NEW t \in Senders, NEW phase \in Counting,
         pc[t] \notin Counting, pc' = [pc EXCEPT ![t] = phase],
         ReadSeed(t), UNCHANGED <<seed, ids>>
  PROVE  IInv'
<1>1. /\ DOMAIN pc = Threads /\ t \in Threads
      /\ pc'[t] = phase /\ \A u \in Threads \ {t} : pc'[u] = pc[u]
      /\ DOMAIN pc' = Threads
  BY DEF IInv, IdTypes, Threads
<1>2. /\ seen' \in [Senders -> Nat] /\ seen'[t] = seed
      /\ \A u \in Senders \ {t} : seen'[u] = seen[u]
  BY DEF ReadSeed, IInv, IdTypes
<1>3. IdTypes'
  BY <1>1, <1>2 DEF ReadSeed, IInv, IdTypes
<1>4. OneCounts'
  <2> SUFFICES ASSUME ~raced' PROVE OneCounts'
    BY DEF OneCounts
  <2>1. ~raced /\ \A u \in Senders \ {t} : pc[u] \notin Counting
    BY DEF ReadSeed, Counting
  <2> QED
    BY <1>1, <1>2, <2>1 DEF OneCounts, IInv, Threads
<1>5. NoneSkipped'
  BY <1>1, <1>2 DEF NoneSkipped, Numbered, IInv, Threads
<1> QED
  BY <1>3, <1>4, <1>5 DEF IInv

(* The store of the next one.                                              *)
LEMMA WriteStep ==
  ASSUME IInv, NEW t \in Senders, pc[t] \in Counting, NEW phase,
         phase \notin Counting, pc' = [pc EXCEPT ![t] = phase],
         WriteSeed(t), UNCHANGED <<raced, seen>>
  PROVE  IInv'
<1> DEFINE n == Len(ids)
<1>1. /\ DOMAIN pc = Threads /\ t \in Threads
      /\ pc'[t] = phase /\ \A u \in Threads \ {t} : pc'[u] = pc[u]
      /\ DOMAIN pc' = Threads
  BY DEF IInv, IdTypes, Threads
<1>2. seed' = seen[t] + 1 /\ seen[t] \in Nat /\ ids \in Seq(Nat) /\ n \in Nat
  BY DEF WriteSeed, IInv, IdTypes
<1>3. /\ ids' \in Seq(Nat) /\ Len(ids') = n + 1
      /\ \A i \in 1..n : ids'[i] = ids[i]
      /\ ids'[n + 1] = seen[t] + 1
  BY <1>2 DEF WriteSeed
<1>4. IdTypes'
  BY <1>1, <1>2, <1>3 DEF IInv, IdTypes
<1>5. OneCounts'
  BY <1>1, <1>2, <1>3 DEF OneCounts, IInv, Threads
<1>6. ASSUME NEW m \in Nat, Numbered(m)
      PROVE  \A id \in 1..m : \E j \in 1..(n + 1) : ids'[j] = id
  <2> SUFFICES ASSUME NEW id \in 1..m PROVE \E j \in 1..(n + 1) : ids'[j] = id
    OBVIOUS
  <2>1. PICK j \in 1..n : ids[j] = id
    BY <1>6 DEF Numbered
  <2>2. j \in 1..(n + 1) /\ ids'[j] = id
    BY <1>2, <1>3, <2>1
  <2> QED
    BY <2>2
<1>7. Numbered(seen[t])
  BY DEF IInv, NoneSkipped
<1>8. \A id \in 1..(seen[t] + 1) : \E j \in 1..(n + 1) : ids'[j] = id
  <2> SUFFICES ASSUME NEW id \in 1..(seen[t] + 1)
               PROVE  \E j \in 1..(n + 1) : ids'[j] = id
    OBVIOUS
  <2>1. CASE id = seen[t] + 1
    BY <1>2, <1>3, <2>1
  <2>2. CASE id \in 1..seen[t]
    BY <1>2, <1>6, <1>7, <2>2
  <2> QED
    BY <1>2, <2>1, <2>2
<1>9. NoneSkipped'
  <2>1. Numbered(seed)'
    BY <1>2, <1>3, <1>8 DEF Numbered
  <2>2. ASSUME NEW u \in Senders, pc'[u] \in Counting PROVE Numbered(seen[u])'
    <3>1. u # t /\ pc[u] \in Counting /\ seen[u] \in Nat
      BY <1>1, <2>2 DEF IInv, IdTypes, Threads
    <3>2. Numbered(seen[u])
      BY <3>1 DEF IInv, NoneSkipped
    <3>3. \A id \in 1..seen[u] : \E j \in 1..(n + 1) : ids'[j] = id
      BY <1>6, <3>1, <3>2
    <3> QED
      BY <1>3, <3>3 DEF Numbered
  <2>3. ASSUME NEW i \in 1..(n + 1), NEW id \in 1..ids'[i]
        PROVE  \E j \in 1..i : ids'[j] = id
    <3>1. CASE i \in 1..n
      <4>1. PICK j \in 1..i : ids[j] = id
        BY <1>3, <2>3, <3>1 DEF IInv, NoneSkipped
      <4>2. j \in 1..n
        BY <1>2, <3>1, <4>1
      <4>3. ids'[j] = id
        BY <1>3, <4>1, <4>2
      <4> QED
        BY <4>3
    <3>2. CASE i = n + 1
      BY <1>3, <1>8, <2>3, <3>2
    <3> QED
      BY <1>2, <3>1, <3>2
  <2> QED
    BY <1>3, <2>1, <2>2, <2>3 DEF NoneSkipped
<1> QED
  BY <1>4, <1>5, <1>9 DEF IInv

(* Everything else leaves ids alone and no thread between the halves.      *)
LEMMA OtherStep ==
  ASSUME IInv, UNCHANGED <<seed, ids, raced, seen>>, DOMAIN pc' = Threads,
         \A t \in Threads : pc'[t] \in Counting <=> pc[t] \in Counting
  PROVE  IInv'
<1>1. IdTypes'
  BY DEF IInv, IdTypes
<1>2. OneCounts'
  BY DEF IInv, OneCounts, Threads
<1>3. NoneSkipped'
  BY DEF IInv, NoneSkipped, Numbered, Threads
<1> QED
  BY <1>1, <1>2, <1>3 DEF IInv

(* Every step of Next                                                      *)
LEMMA NextInvariant == IInv /\ [Next]_vars => IInv'
<1> SUFFICES ASSUME IInv, [Next]_vars PROVE IInv'
  OBVIOUS
<1> USE DEF Goes, Counting
<1>t. DOMAIN pc = Threads /\ Senders \subseteq Threads /\ Callers \subseteq Senders
      /\ Loop \in Senders /\ Listener \in Threads
  BY DEF IInv, IdTypes, Threads, Senders
<1>1. ASSUME NEW t \in Senders, Begin(t) PROVE IInv'
  BY <1>1, ReadStep DEF Begin
<1>2. ASSUME NEW t \in Callers, Build(t) PROVE IInv'
  BY <1>t, <1>2, WriteStep DEF Build
<1>3. CASE BuildConnect \/ BuildBadConnect
  BY <1>t, <1>3, WriteStep DEF BuildConnect, BuildBadConnect
<1>4. CASE NoAnswerToConnect
  BY <1>t, <1>4, ReadStep DEF NoAnswerToConnect
<1>5. ASSUME NEW t \in Callers, NEW kinds,
             SendMsgSync(t) \/ NoAnswer(t) \/ Answer(t, kinds)
      PROVE  IInv'
  BY <1>t, <1>5, OtherStep DEF SendMsgSync, NoAnswer, Answer, receiving
<1>6. ASSUME NEW kinds, AnswerConnect(kinds) PROVE IInv'
  BY <1>t, <1>6, OtherStep DEF AnswerConnect
<1>7. CASE PushMsg \/ PushEnds \/ ProcessNull \/ TakeMsg
  BY <1>t, <1>7, OtherStep DEF PushMsg, PushEnds, ProcessNull, TakeMsg, sending
<1>8. ASSUME NEW t \in Threads, Process(t) PROVE IInv'
  BY <1>t, <1>8, OtherStep DEF Process, FireIncoming, FireListeners, sending
<1>9. CASE (\E e \in Exts : ExtAdd(e) \/ ExtRemove(e)) \/ UNCHANGED vars
  BY <1>t, <1>9, OtherStep DEF ExtAdd, ExtRemove, sending, vars
<1> QED
  BY <1>t, <1>1, <1>2, <1>3, <1>4, <1>5, <1>6, <1>7, <1>8, <1>9
  DEF Next, CallerStep, LoopStep, ListenStep

(* Ids are unique unless two increments of the seed overlapped, and none   *)
(* is ever skipped, for any number of threads that send.                   *)
THEOREM IdsAreUnique == Spec => []IdsRepeatOnlyInARace
<1>1. IInv => IdsRepeatOnlyInARace
  BY DEF IInv, OneCounts, NoneSkipped, IdsRepeatOnlyInARace
<1> QED
  BY <1>1, InitInvariant, NextInvariant, PTL DEF Spec

(***************************************************************************)
(* The extensions *)

(* The walk of cometd_impl_ext_fire along the list: after n extensions the *)
(* marks are those of the ones among them that have the callback.          *)
LEMMA CalledShape ==
  ASSUME exts \in Marks, IsInjective(exts), NEW D
  PROVE  Called(<<>>, D) \in Marks /\ ShownTo(D, Called(<<>>, D))
<1> USE DEF Marks
<1> DEFINE N == Len(exts)
           step == [n \in 1..N |-> [m \in Seq(Exts) |->
                      IF exts[n] \in D THEN Append(m, exts[n]) ELSE m]]
<1>1. N \in Nat /\ \A n \in 1..N : exts[n] \in Exts
  OBVIOUS
<1>2. PICK f \in [0..N -> Seq(Exts)] :
        f[0] = <<>> /\ \A n \in 1..N : f[n] = step[n][f[n - 1]]
  <2>1. step \in [1..N -> [Seq(Exts) -> Seq(Exts)]]
    BY <1>1
  <2>2. <<>> \in Seq(Exts)
    OBVIOUS
  <2> DEFINE V == Seq(Exts)
             none == <<>>
  <2>3. N \in Nat /\ none \in V /\ step \in [1..N -> [V -> V]]
    BY <1>1, <2>1, <2>2
  <2> HIDE DEF step, N, V, none
  <2>4. \E f \in [0..N -> V] :
          f[0] = none /\ \A n \in 1..N : f[n] = step[n][f[n - 1]]
    BY <2>3, RecursiveFunction
  <2> QED
    BY <2>4 DEF V, none
<1>3. ASSUME NEW n \in 1..N
      PROVE  f[n] = IF exts[n] \in D THEN Append(f[n - 1], exts[n]) ELSE f[n - 1]
  <2>1. n - 1 \in 0..N
    BY <1>1
  <2>2. f[n - 1] \in Seq(Exts)
    BY <1>2, <2>1
  <2> QED
    BY <1>2, <2>1, <2>2
<1> HIDE DEF step
<1>4. f = [n \in 0..N |-> IF n = 0 THEN <<>>
                          ELSE IF exts[n] \in D THEN Append(f[n - 1], exts[n])
                          ELSE f[n - 1]]
  <2> DEFINE g == [n \in 0..N |-> IF n = 0 THEN <<>>
                          ELSE IF exts[n] \in D THEN Append(f[n - 1], exts[n])
                          ELSE f[n - 1]]
  <2>1. ASSUME NEW n \in 0..N PROVE f[n] = g[n]
    <3>1. CASE n = 0
      BY <1>2, <3>1
    <3>2. CASE n # 0
      <4>1. n \in 1..N
        BY <1>1, <3>2
      <4> QED
        BY <1>3, <3>2, <4>1
    <3> QED
      BY <3>1, <3>2
  <2> QED
    BY <2>1
<1> DEFINE after[n \in 0..N] ==
             IF n = 0 THEN <<>>
             ELSE IF exts[n] \in D THEN Append(after[n - 1], exts[n])
             ELSE after[n - 1]
<1>5. after = [n \in 0..N |-> IF n = 0 THEN <<>>
                              ELSE IF exts[n] \in D THEN Append(after[n - 1], exts[n])
                              ELSE after[n - 1]]
  BY <1>4
<1>6. Called(<<>>, D) = after[N]
  BY DEF Called
<1> HIDE DEF after
<1>7. after[0] = <<>>
  BY <1>1, <1>5
<1>8. ASSUME NEW n \in 1..N
      PROVE  after[n] = IF exts[n] \in D THEN Append(after[n - 1], exts[n]) ELSE after[n - 1]
  <2>1. n \in 0..N /\ n # 0
    BY <1>1
  <2> QED
    BY <1>5, <2>1
<1> DEFINE Comes(n, m) ==
             /\ m \in Seq(Exts) /\ IsInjective(m)
             /\ \A i \in 1..Len(m) : \E k \in 1..n : m[i] = exts[k] /\ exts[k] \in D
             /\ \A k \in 1..n : exts[k] \in D => \E i \in 1..Len(m) : m[i] = exts[k]
             /\ \A i, j \in 1..Len(m) : i < j =>
                  \E k, l \in 1..n : k < l /\ m[i] = exts[k] /\ m[j] = exts[l]
           T == {n \in Nat : n <= N => Comes(n, after[n])}
<1>9. 0 \in T
  BY <1>7 DEF IsInjective
<1>10. ASSUME NEW n \in Nat, n \in T, n + 1 <= N PROVE Comes(n + 1, after[n + 1])
  <2> DEFINE m == after[n]
             e == exts[n + 1]
  <2>a. n \in Int /\ (n + 1) - 1 = n /\ n + 1 \in 1..N /\ n <= N
    BY <1>1, <1>10
  <2>b. Comes(n, m)
    <3> HIDE DEF Comes
    <3> QED
      BY <1>10, <2>a
  <2>0. n + 1 \in 1..N /\ e \in Exts /\ Comes(n, m)
    BY <1>1, <2>a, <2>b
  <2>1. CASE e \notin D
    <3>1. after[n + 1] = m
      BY <1>8, <2>a, <2>1
    <3>2. \A k \in 1..(n + 1) : exts[k] \in D => k \in 1..n
      BY <2>a, <2>1
    <3>3. 1..n \subseteq 1..(n + 1)
      BY <2>a
    <3> HIDE DEF m, e
    <3>4. Comes(n + 1, m)
      <4>1. \A i \in 1..Len(m) : \E k \in 1..(n + 1) : m[i] = exts[k] /\ exts[k] \in D
        BY <2>a, <2>0, <3>3
      <4>2. \A k \in 1..(n + 1) : exts[k] \in D => \E i \in 1..Len(m) : m[i] = exts[k]
        BY <2>0, <3>2
      <4>3. \A i, j \in 1..Len(m) : i < j =>
              \E k, l \in 1..(n + 1) : k < l /\ m[i] = exts[k] /\ m[j] = exts[l]
        BY <2>a, <2>0, <3>3
      <4> QED
        BY <2>0, <4>1, <4>2, <4>3
    <3> QED
      BY <3>1, <3>4
  <2>2. CASE e \in D
    <3>1. after[n + 1] = Append(m, e)
      BY <1>8, <2>a, <2>2
    <3>2. ~Contains(m, e)
      <4> SUFFICES ASSUME NEW i \in 1..Len(m), m[i] = e PROVE FALSE
        BY DEF Contains
      <4>1. PICK k \in 1..n : exts[k] = exts[n + 1]
        BY <2>0
      <4>2. k \in DOMAIN exts /\ n + 1 \in DOMAIN exts /\ k # n + 1
        BY <1>1, <2>a, <2>0
      <4> QED
        BY <4>1, <4>2 DEF IsInjective
    <3>3. IsInjective(Append(m, e)) /\ Append(m, e) \in Seq(Exts)
      BY <2>0, <3>2, AppendOnce
    <3> DEFINE q == Append(m, e)
    <3>4. /\ Len(m) \in Nat /\ Len(q) = Len(m) + 1 /\ q[Len(m) + 1] = e
          /\ \A i \in 1..Len(m) : q[i] = m[i]
          /\ q \in Seq(Exts) /\ IsInjective(q)
      BY <2>0, <3>3, AppendProperties
    <3> HIDE DEF m, e, q
    <3>5. ASSUME NEW i \in 1..Len(q)
          PROVE  \E k \in 1..(n + 1) : q[i] = exts[k] /\ exts[k] \in D
      <4>1. CASE i \in 1..Len(m)
        <5>1. PICK k \in 1..n : m[i] = exts[k] /\ exts[k] \in D
          BY <2>0, <4>1
        <5>2. k \in 1..(n + 1)
          BY <2>a, <2>0
        <5> QED
          BY <3>4, <4>1, <5>1, <5>2
      <4>2. CASE i = Len(m) + 1
        BY <2>a, <2>2, <3>4, <4>2 DEF e
      <4> QED
        BY <3>4, <4>1, <4>2
    <3>6. ASSUME NEW k \in 1..(n + 1), exts[k] \in D
          PROVE  \E i \in 1..Len(q) : q[i] = exts[k]
      <4>1. CASE k \in 1..n
        <5>1. PICK i \in 1..Len(m) : m[i] = exts[k]
          BY <2>0, <3>6, <4>1
        <5>2. i \in 1..Len(q)
          BY <3>4
        <5> QED
          BY <3>4, <5>1, <5>2
      <4>2. CASE k = n + 1
        <5>1. Len(m) + 1 \in 1..Len(q)
          BY <3>4
        <5> QED
          BY <3>4, <4>2, <5>1 DEF e
      <4> QED
        BY <2>a, <4>1, <4>2
    <3>7. ASSUME NEW i \in 1..Len(q), NEW j \in 1..Len(q), i < j
          PROVE  \E k, l \in 1..(n + 1) : k < l /\ q[i] = exts[k] /\ q[j] = exts[l]
      <4>1. i \in 1..Len(m) /\ q[i] = m[i]
        BY <3>4, <3>7
      <4>2. CASE j \in 1..Len(m)
        <5>1. PICK k \in 1..n, l \in 1..n : k < l /\ m[i] = exts[k] /\ m[j] = exts[l]
          BY <2>0, <3>7, <4>1, <4>2
        <5>2. k \in 1..(n + 1) /\ l \in 1..(n + 1)
          BY <2>a, <2>0
        <5> QED
          BY <3>4, <4>1, <4>2, <5>1, <5>2
      <4>3. CASE j = Len(m) + 1
        <5>1. PICK k \in 1..n : m[i] = exts[k]
          BY <2>0, <4>1
        <5>2. k \in 1..(n + 1) /\ k < n + 1 /\ n + 1 \in 1..(n + 1)
          BY <2>a, <2>0
        <5> QED
          BY <3>4, <4>1, <4>3, <5>1, <5>2 DEF e
      <4> QED
        BY <3>4, <4>2, <4>3
    <3>8. Comes(n + 1, q)
      BY <3>4, <3>5, <3>6, <3>7
    <3> HIDE DEF Comes
    <3> QED
      BY <3>1, <3>8 DEF q
  <2> QED
    BY <2>1, <2>2
<1> HIDE DEF Comes
<1>11. N \in T
  <2>1. \A n \in Nat : n \in T => n + 1 \in T
    BY <1>1, <1>10
  <2> HIDE DEF T
  <2> QED
    BY <1>1, <1>9, <2>1, SetInduction
<1>12. Comes(N, after[N])
  BY <1>1, <1>11
<1> DEFINE m == after[N]
<1>13. /\ m \in Seq(Exts) /\ IsInjective(m)
       /\ \A i \in 1..Len(m) : \E k \in 1..N : m[i] = exts[k] /\ exts[k] \in D
       /\ \A k \in 1..N : exts[k] \in D => \E i \in 1..Len(m) : m[i] = exts[k]
       /\ \A i, j \in 1..Len(m) : i < j =>
            \E k, l \in 1..N : k < l /\ m[i] = exts[k] /\ m[j] = exts[l]
  BY <1>12 DEF Comes
<1> HIDE DEF m
<1>14. ToSet(m) = ToSet(exts) \cap D
  <2>1. DOMAIN m = 1..Len(m) /\ DOMAIN exts = 1..N
    BY <1>13
  <2>2. ASSUME NEW i \in DOMAIN m PROVE m[i] \in ToSet(exts) \cap D
    <3>1. PICK k \in 1..N : m[i] = exts[k] /\ exts[k] \in D
      BY <1>13, <2>1
    <3> QED
      BY <2>1, <3>1 DEF ToSet
  <2>3. ASSUME NEW k \in DOMAIN exts, exts[k] \in D PROVE exts[k] \in ToSet(m)
    <3>1. PICK i \in 1..Len(m) : m[i] = exts[k]
      BY <1>13, <2>1, <2>3
    <3> QED
      BY <2>1, <3>1 DEF ToSet
  <2> QED
    BY <2>2, <2>3 DEF ToSet
<1>15. ShownTo(D, m)
  BY <1>13, <1>14 DEF ShownTo
<1> QED
  BY <1>6, <1>13, <1>15 DEF m

-----------------------------------------------------------------------------
(* Sending.  What a caller has built has an id and no marks when it is     *)
(* shown to the extensions, and all of theirs when it is posted; what the  *)
(* receive thread posts has none.                                          *)

Ids == 0..Len(ids)
Given == 1..Len(ids)

Ready(t) ==
  {m \in [id : Given, marks : Marks] :
     IF t = Loop THEN m.marks = <<>> ELSE ShownTo(Outgoing, m.marks)}

PostedTypes ==
  DOMAIN posted = Senders /\ \A t \in Senders : posted[t] \in Seq(Ready(t))

SendTypes ==
  /\ exts \in Marks
  /\ seed \in Ids /\ ids \in Seq(Given) /\ raced \in BOOLEAN
  /\ requests \in 0..MaxRequests
  /\ seen \in [Senders -> Ids]
  /\ message \in [Senders -> [id : Ids, marks : Marks]]
  /\ outgoing \in [Senders -> [id : Ids, marks : Marks]]
  /\ PostedTypes

SendPhases ==
  /\ DOMAIN pc = Threads
  /\ \A t \in Senders :
       /\ pc[t] = "built" => message[t].id \in Given /\ message[t].marks = <<>>
       /\ pc[t] = "posting" => outgoing[t] \in Ready(t)
  /\ requests = 0 => \A t \in Senders : posted[t] = <<>>

SInv == SendTypes /\ SendPhases

(* At first nothing has been built.                                        *)
LEMMA SendInit == Init => SInv
<1> SUFFICES ASSUME Init PROVE SInv
  OBVIOUS
<1>1. ids = <<>> /\ Len(ids) = 0 /\ Senders \subseteq Threads
  BY DEF Init, Threads
<1>2. SendTypes
  <2>1. <<>> \in Marks /\ 0 \in Ids
    BY <1>1 DEF Marks, Ids
  <2>2. None \in [id : Ids, marks : Marks]
    BY <2>1 DEF None
  <2>3. /\ message \in [Senders -> [id : Ids, marks : Marks]]
        /\ outgoing \in [Senders -> [id : Ids, marks : Marks]]
    BY <2>2 DEF Init
  <2>4. <<>> \in Seq(Given) /\ \A t \in Senders : <<>> \in Seq(Ready(t))
    OBVIOUS
  <2>5. PostedTypes
    BY <2>4 DEF Init, PostedTypes
  <2>6. requests \in 0..MaxRequests /\ raced \in BOOLEAN
    <3>1. requests = 0 /\ raced = FALSE
      BY DEF Init
    <3>2. raced \in BOOLEAN
      BY <3>1
    <3>3. MaxRequests \in Nat
      BY MessagesAssumption
    <3> QED
      BY <3>1, <3>2, <3>3
  <2>7. seen \in [Senders -> Ids] /\ exts \in Marks /\ seed \in Ids /\ ids \in Seq(Given)
    BY <2>1, <2>4 DEF Init
  <2> QED
    BY <2>3, <2>5, <2>6, <2>7 DEF SendTypes
<1>3. SendPhases
  BY <1>1 DEF Init, SendPhases
<1> QED
  BY <1>2, <1>3 DEF SInv

(* Ids that were given stay given.                                         *)
LEMMA IdsGrow ==
  ASSUME ids \in Seq(Given), NEW id \in Given', ids' = Append(ids, id),
         Len(ids') = Len(ids) + 1
  PROVE  /\ Ids \subseteq Ids' /\ Given \subseteq Given'
         /\ ids' \in Seq(Given')
<1>1. Len(ids) \in Nat
  OBVIOUS
<1>2. Ids \subseteq Ids' /\ Given \subseteq Given'
  BY <1>1 DEF Ids, Given
<1>3. ids \in Seq(Given')
  BY <1>2, SeqMonotonic
<1> HIDE DEF Given
<1> QED
  BY <1>2, <1>3, AppendProperties

(* What is ready to be posted, and what was posted, stays so.              *)
LEMMA ReadyGrows ==
  ASSUME exts' = exts, Given \subseteq Given', NEW t
  PROVE  Ready(t) \subseteq Ready(t)'
<1>1. Marks' = Marks /\ \A marks : ShownTo(Outgoing, marks)' <=> ShownTo(Outgoing, marks)
  BY DEF Marks, ShownTo
<1> HIDE DEF Given
<1> QED
  BY <1>1 DEF Ready

LEMMA PostedStays ==
  ASSUME PostedTypes, UNCHANGED <<exts, posted>>, Given \subseteq Given'
  PROVE  PostedTypes'
<1>1. ASSUME NEW t \in Senders PROVE posted'[t] \in Seq(Ready(t)')
  <2>1. Seq(Ready(t)) \subseteq Seq(Ready(t)')
    BY ReadyGrows, SeqMonotonic
  <2> QED
    BY <2>1 DEF PostedTypes
<1> QED
  BY <1>1 DEF PostedTypes

(* A load of the seed                                                      *)
LEMMA ReadSends ==
  ASSUME SInv, NEW t \in Senders, ReadSeed(t), DOMAIN pc' = Threads,
         \A u \in Senders : pc'[u] \in {"built", "posting"} => pc'[u] = pc[u],
         requests' \in 0..MaxRequests, requests' # 0, PostedTypes',
         UNCHANGED <<exts, seed, ids, message, outgoing>>
  PROVE  SInv'
<1> USE DEF SInv
<1>1. Ids' = Ids /\ Given' = Given /\ \A u : Ready(u) \subseteq Ready(u)'
  BY ReadyGrows DEF Ids, Given
<1>2. SendTypes'
  BY <1>1 DEF SendTypes, ReadSeed
<1>3. SendPhases'
  BY <1>1 DEF SendPhases
<1> QED
  BY <1>2, <1>3

(* The store of the next one, and the message that gets it as its id       *)
LEMMA WriteSends ==
  ASSUME SInv, NEW t \in Senders, WriteSeed(t), DOMAIN pc' = Threads,
         \A u \in Senders \ {t} : pc'[u] \in {"built", "posting"} => pc'[u] = pc[u],
         \/ /\ message' = [message EXCEPT ![t] = [id |-> seen[t] + 1, marks |-> <<>>]]
            /\ \/ outgoing' = outgoing /\ pc'[t] = "built"
               \/ /\ t = Loop /\ pc'[t] = "posting"
                  /\ outgoing' = [outgoing EXCEPT ![t] = message'[t]]
         \/ UNCHANGED <<message, outgoing>> /\ pc'[t] \notin {"built", "posting"},
         UNCHANGED <<exts, raced, requests, seen, posted>>, requests # 0
  PROVE  SInv'
<1> USE DEF SInv
<1>1. /\ ids \in Seq(Given) /\ Len(ids) \in Nat /\ seen[t] + 1 \in 1..(Len(ids) + 1)
      /\ ids' = Append(ids, seen[t] + 1) /\ seed' = seen[t] + 1
  BY DEF SendTypes, WriteSeed, Ids, Given
<1>2. Len(ids') = Len(ids) + 1
  BY <1>1
<1>3. seen[t] + 1 \in Given' /\ seen[t] + 1 \in Ids'
  BY <1>1, <1>2 DEF Given, Ids
<1>4. Ids \subseteq Ids' /\ Given \subseteq Given' /\ ids' \in Seq(Given')
  BY <1>1, <1>2, <1>3, IdsGrow
<1>5. <<>> \in Marks
  BY DEF Marks
<1> DEFINE m == [id |-> seen[t] + 1, marks |-> <<>>]
<1>6. m \in [id : Ids', marks : Marks] /\ m.id \in Given' /\ m.marks = <<>>
  BY <1>3, <1>5
<1>7. [id : Ids, marks : Marks] \subseteq [id : Ids', marks : Marks]
  BY <1>4
<1>8. message \in [Senders -> [id : Ids', marks : Marks]]
      /\ outgoing \in [Senders -> [id : Ids', marks : Marks]]
  BY <1>7 DEF SendTypes
<1>9. PostedTypes' /\ \A u : Ready(u) \subseteq Ready(u)'
  BY <1>4, PostedStays, ReadyGrows DEF SendTypes
<1> HIDE DEF m
<1>10. message' \in [Senders -> [id : Ids', marks : Marks]]
       /\ outgoing' \in [Senders -> [id : Ids', marks : Marks]]
  <2>1. message' = message \/ message' = [message EXCEPT ![t] = m]
    BY DEF m
  <2>2. message' \in [Senders -> [id : Ids', marks : Marks]]
    BY <1>6, <1>8, <2>1
  <2>3. outgoing' = outgoing \/ outgoing' = [outgoing EXCEPT ![t] = message'[t]]
    OBVIOUS
  <2> QED
    BY <1>8, <2>2, <2>3
<1>11. Marks' = Marks
  BY DEF Marks
<1>12. SendTypes'
  BY <1>1, <1>3, <1>4, <1>9, <1>10, <1>11 DEF SendTypes
<1>13. SendPhases'
  <2>1. ASSUME NEW u \in Senders \ {t}
        PROVE  /\ pc'[u] = "built" => message'[u].id \in Given' /\ message'[u].marks = <<>>
               /\ pc'[u] = "posting" => outgoing'[u] \in Ready(u)'
    <3>1. message'[u] = message[u] /\ outgoing'[u] = outgoing[u]
      BY <1>8
    <3> QED
      BY <1>4, <1>9, <3>1 DEF SendPhases
  <2>2. /\ pc'[t] = "built" => message'[t] = m
        /\ pc'[t] = "posting" => t = Loop /\ outgoing'[t] = m
    BY <1>8 DEF m
  <2>3. t = Loop => m \in Ready(t)'
    <3> HIDE DEF Given
    <3> QED
      BY <1>6, <1>11 DEF Ready, m
  <2> QED
    BY <1>6, <2>1, <2>2, <2>3 DEF SendPhases
<1> QED
  BY <1>12, <1>13

(* The message is shown to the extensions, and posted with their marks.    *)
LEMMA ShowSends ==
  ASSUME SInv, IsInjective(exts), NEW t \in Callers, SendMsgSync(t), requests # 0
  PROVE  SInv'
<1> USE DEF SInv
<1>0. t \in Senders /\ t # Loop
  BY MessagesAssumption DEF Senders
<1>1. /\ message[t].id \in Given /\ message[t].marks = <<>>
      /\ message[t] \in [id : Ids, marks : Marks]
  BY <1>0 DEF SendMsgSync, Goes, SendPhases, SendTypes
<1>2. UNCHANGED <<exts, seed, ids, raced, requests, seen, posted>>
      /\ Ids' = Ids /\ Given' = Given /\ Marks' = Marks
  BY DEF SendMsgSync, Ids, Given, Marks
<1>r. \A u : Ready(u) \subseteq Ready(u)'
  BY <1>2, ReadyGrows
<1> DEFINE m == ExtFire(message[t], Outgoing)
<1>3. m \in [id : Ids, marks : Marks] /\ m \in Ready(t)
  <2> DEFINE o == message[t]
             c == Called(<<>>, Outgoing)
  <2>1. c \in Marks /\ ShownTo(Outgoing, c)
    BY CalledShape DEF SendTypes
  <2>2. m = [o EXCEPT !.marks = c]
    BY <1>1 DEF ExtFire
  <2>3. o \in [id : Ids, marks : Marks] /\ o.id \in Given
    BY <1>1
  <2> HIDE DEF m, o, c, Ids, Given
  <2>4. m \in [id : Ids, marks : Marks] /\ m.id = o.id /\ m.marks = c
    BY <2>1, <2>2, <2>3
  <2>5. m \in [id : Given, marks : Marks]
    BY <2>1, <2>2, <2>3
  <2> QED
    BY <1>0, <2>1, <2>4, <2>5 DEF Ready
<1>4. message' = [message EXCEPT ![t] = m] /\ outgoing' = [outgoing EXCEPT ![t] = message'[t]]
      /\ pc' = [pc EXCEPT ![t] = "posting"] /\ pc[t] = "built"
  BY DEF SendMsgSync, Goes
<1> HIDE DEF m
<1>5. message' \in [Senders -> [id : Ids, marks : Marks]] /\ message'[t] = m
      /\ outgoing' = [outgoing EXCEPT ![t] = m]
      /\ outgoing' \in [Senders -> [id : Ids, marks : Marks]]
  BY <1>0, <1>3, <1>4 DEF SendTypes
<1>6. SendTypes'
  <2>1. PostedTypes'
    BY <1>2, PostedStays DEF SendTypes
  <2> QED
    BY <1>2, <1>5, <2>1 DEF SendTypes
<1>7. ASSUME NEW u \in Senders
      PROVE  /\ pc'[u] = "built" => message'[u].id \in Given' /\ message'[u].marks = <<>>
             /\ pc'[u] = "posting" => outgoing'[u] \in Ready(u)'
  <2>1. CASE u = t
    BY <1>0, <1>3, <1>r, <1>4, <1>5, <2>1 DEF SendPhases, SendTypes, Threads
  <2>2. CASE u # t
    <3>1. pc'[u] = pc[u] /\ message'[u] = message[u] /\ outgoing'[u] = outgoing[u]
      BY <1>4, <1>5, <2>2 DEF SendPhases, SendTypes, Threads
    <3> QED
      BY <1>2, <1>r, <3>1 DEF SendPhases
  <2> QED
    BY <2>1, <2>2
<1>8. SendPhases'
  BY <1>2, <1>4, <1>7 DEF SendPhases
<1> QED
  BY <1>6, <1>8

(* What is posted was ready.                                               *)
LEMMA PostSends ==
  ASSUME SInv, NEW t \in Senders, pc[t] = "posting", Post(t), UNCHANGED <<exts, ids>>
  PROVE  PostedTypes'
<1>1. outgoing[t] \in Ready(t) /\ PostedTypes
  BY DEF SInv, SendTypes, SendPhases
<1>2. Append(posted[t], outgoing[t]) \in Seq(Ready(t))
  BY <1>1, AppendProperties DEF PostedTypes
<1>3. DOMAIN posted' = Senders /\ \A u \in Senders : posted'[u] \in Seq(Ready(u))
  BY <1>1, <1>2 DEF Post, PostedTypes
<1>4. ASSUME NEW u \in Senders PROVE posted'[u] \in Seq(Ready(u)')
  <2>1. Given' = Given
    BY DEF Given
  <2>2. Seq(Ready(u)) \subseteq Seq(Ready(u)')
    BY <2>1, ReadyGrows, SeqMonotonic
  <2> QED
    BY <1>3, <2>2
<1> QED
  BY <1>3, <1>4 DEF PostedTypes

(* Everything else sends nothing, or posts what was ready.                 *)
LEMMA OtherSends ==
  ASSUME SInv, DOMAIN pc' = Threads, exts' \in Marks', PostedTypes',
         \A u \in Senders : pc'[u] \in {"built", "posting"} => pc'[u] = pc[u],
         exts' = exts \/ \A u \in Senders : pc'[u] # "posting",
         posted' = posted \/ requests # 0,
         UNCHANGED <<seed, ids, raced, requests, seen, message, outgoing>>
  PROVE  SInv'
<1> USE DEF SInv
<1>1. Ids' = Ids /\ Given' = Given /\ Marks' = Marks
  BY DEF Ids, Given, Marks
<1>2. SendTypes'
  BY <1>1 DEF SendTypes
<1>3. exts' = exts => \A u : Ready(u) \subseteq Ready(u)'
  BY <1>1, ReadyGrows
<1>4. SendPhases'
  BY <1>1, <1>3 DEF SendPhases
<1> QED
  BY <1>2, <1>4

-----------------------------------------------------------------------------
(* Receiving.  A message has no marks until the thread that handles it has *)
(* shown it to the extensions, and then has all of them.                   *)

Fresh == {m \in Reception : m.marks = <<>>}
Shown == {m \in Reception : ShownTo(Incoming, m.marks)}

Handling == {"processing", "firing", "pushing"}
SendingPhases == {"idle", "building", "built", "posting", "rebuilding"}

ReceiveTypes ==
  /\ exts \in Marks /\ IsInjective(exts)
  /\ sent \in Nat
  /\ connect \in Seq(Fresh) /\ Len(connect) <= 1
  /\ inbox \in Seq(Fresh)
  /\ handled \in [Threads -> Seq(Shown)]
  /\ batch \in [Threads -> Seq(Reception)]
  /\ \A t \in Threads :
       IF pc[t] = "firing" THEN Head(batch[t]) \in Shown /\ Tail(batch[t]) \in Seq(Fresh)
       ELSE batch[t] \in Seq(Fresh)

(* Who sends has nothing to handle, and nothing has happened before the    *)
(* first request.                                                          *)
ReceivePhases ==
  /\ pc \in [Threads -> SendingPhases \cup Handling]
  /\ pc[Listener] \in {"idle", "processing", "firing"}
  /\ \A t \in Threads \ {Loop} : pc[t] \notin {"rebuilding", "pushing"}
  /\ \A t \in Threads :
       /\ pc[t] = "firing" => batch[t] # <<>>
       /\ pc[t] \in SendingPhases => batch[t] = <<>>
  /\ pc[Loop] # "pushing" => connect = <<>>
  /\ requests = 0 => sent = 0 /\ \A t \in Threads : pc[t] = "idle"

RInv == ReceiveTypes /\ ReceivePhases

(* The three kinds of thread                                               *)
LEMMA ThreadsDiffer ==
  /\ Callers \subseteq Senders /\ Senders \subseteq Threads
  /\ Loop \in Senders /\ Listener \in Threads /\ Loop # Listener
  /\ Loop \notin Callers /\ Listener \notin Callers /\ Listener \notin Senders
BY MessagesAssumption DEF Threads, Senders

(* At first nothing has been received.                                     *)
LEMMA ReceiveInit == Init => RInv
<1> SUFFICES ASSUME Init PROVE RInv
  OBVIOUS
<1>1. exts = <<>> /\ sent = 0 /\ connect = <<>> /\ inbox = <<>> /\ requests = 0
  BY DEF Init
<1>2. /\ pc = [t \in Threads |-> "idle"]
      /\ batch = [t \in Threads |-> <<>>] /\ handled = [t \in Threads |-> <<>>]
  BY DEF Init
<1>3. /\ <<>> \in Seq(Fresh) /\ <<>> \in Seq(Shown) /\ <<>> \in Seq(Reception)
      /\ <<>> \in Marks /\ IsInjective(<<>>) /\ Len(<<>>) = 0
  BY DEF Marks, IsInjective
<1>4. ReceiveTypes
  BY <1>1, <1>2, <1>3 DEF ReceiveTypes
<1>5. ReceivePhases
  BY <1>1, <1>2, ThreadsDiffer DEF ReceivePhases, SendingPhases, Handling
<1> QED
  BY <1>4, <1>5 DEF RInv

(* A message that was received stays one.                                  *)
LEMMA ReceptionGrows ==
  ASSUME sent \in Nat, sent' \in Nat, sent <= sent', exts' = exts
  PROVE  /\ Reception \subseteq Reception' /\ Fresh \subseteq Fresh' /\ Shown \subseteq Shown'
         /\ Seq(Reception) \subseteq Seq(Reception') /\ Seq(Fresh) \subseteq Seq(Fresh')
         /\ Seq(Shown) \subseteq Seq(Shown')
<1>1. 1..sent \subseteq 1..sent' /\ Marks' = Marks
  BY DEF Marks
<1>2. Reception \subseteq Reception'
  BY <1>1 DEF Reception
<1>3. Fresh \subseteq Fresh' /\ Shown \subseteq Shown'
  BY <1>2 DEF Fresh, Shown, ShownTo
<1> HIDE DEF Reception, Fresh, Shown
<1> QED
  BY <1>2, <1>3, SeqMonotonic

(* What has been read of a batch and what has not                          *)
LEMMA BatchTypes ==
  ASSUME RInv, NEW t \in Threads, batch[t] # <<>>
  PROVE  /\ batch[t] \in Seq(Reception) /\ Len(batch[t]) \in Nat \ {0}
         /\ Head(batch[t]) \in Reception /\ Head(batch[t]) = batch[t][1]
         /\ Tail(batch[t]) \in Seq(Fresh) /\ Len(Tail(batch[t])) = Len(batch[t]) - 1
         /\ pc[t] = "firing" => Head(batch[t]) \in Shown
         /\ pc[t] # "firing" => Head(batch[t]) \in Fresh
<1>1. batch[t] \in Seq(Reception)
  BY DEF RInv, ReceiveTypes
<1>2. /\ Head(batch[t]) \in Reception /\ Len(batch[t]) \in Nat \ {0}
      /\ Head(batch[t]) = batch[t][1] /\ Len(Tail(batch[t])) = Len(batch[t]) - 1
  BY <1>1, HeadTailProperties
<1>3. CASE pc[t] = "firing"
  BY <1>1, <1>2, <1>3 DEF RInv, ReceiveTypes
<1>4. CASE pc[t] # "firing"
  <2>1. batch[t] \in Seq(Fresh)
    BY <1>4 DEF RInv, ReceiveTypes
  <2> QED
    BY <1>1, <1>2, <1>4, <2>1, HeadTailProperties
<1> QED
  BY <1>3, <1>4

(* A step that only sends, or has nothing to handle                        *)
LEMMA QuietReceives ==
  ASSUME RInv, NEW t \in Senders, NEW from \in SendingPhases \cup {"processing"},
         from = "processing" => batch[t] = <<>>,
         NEW phase \in SendingPhases, Goes(t, from, phase),
         t # Loop => phase # "rebuilding",
         requests' # 0, UNCHANGED <<exts, receiving>>
  PROVE  RInv'
<1>0. /\ pc[t] \in SendingPhases \cup {"processing"} /\ pc' = [pc EXCEPT ![t] = phase]
      /\ batch[t] = <<>>
  BY ThreadsDiffer DEF Goes, RInv, ReceivePhases
<1>1. /\ Reception' = Reception /\ Fresh' = Fresh /\ Shown' = Shown /\ Marks' = Marks
      /\ UNCHANGED <<exts, sent, connect, inbox, handled, batch>>
  BY DEF Reception, Fresh, Shown, ShownTo, Marks, receiving
<1>2. /\ pc' \in [Threads -> SendingPhases \cup Handling] /\ pc'[t] = phase
      /\ \A u \in Threads \ {t} : pc'[u] = pc[u]
      /\ t \in Threads /\ pc[t] # "firing" /\ phase \notin Handling
  BY <1>0, ThreadsDiffer DEF RInv, ReceivePhases, SendingPhases, Handling
<1>3. ReceiveTypes'
  BY <1>1, <1>2 DEF RInv, ReceiveTypes, Handling
<1>4. ReceivePhases'
  BY <1>0, <1>1, <1>2, ThreadsDiffer DEF RInv, ReceivePhases, SendingPhases, Handling
<1> QED
  BY <1>3, <1>4 DEF RInv

(* The messages of an answer are fresh and numbered on.                    *)
LEMMA ReceivedShape ==
  ASSUME sent \in Nat, NEW kinds \in Seq(Kinds), sent' = sent + Len(kinds),
         UNCHANGED exts
  PROVE  /\ Received(kinds) \in Seq(Fresh') /\ Len(Received(kinds)) = Len(kinds)
         /\ \A i \in 1..Len(kinds) :
              /\ Received(kinds)[i].no = sent + i
              /\ Received(kinds)[i].kind = kinds[i]
              /\ Received(kinds)[i].payload = sent + 1
         /\ sent' \in Nat /\ sent <= sent'
<1> DEFINE n == Len(kinds)
           r == Received(kinds)
           m(i) == [no |-> sent + i, kind |-> kinds[i], payload |-> sent + 1, marks |-> <<>>]
<1>1. n \in Nat /\ \A i \in 1..n : kinds[i] \in Kinds
  OBVIOUS
<1>2. r = [i \in 1..n |-> m(i)]
  BY DEF Received
<1>3. ASSUME NEW i \in 1..n PROVE m(i) \in Fresh'
  <2>1. sent + i \in 1..sent' /\ sent + 1 \in 1..sent'
    BY <1>1
  <2>2. kinds[i] \in Kinds /\ <<>> \in Marks'
    BY <1>1 DEF Marks
  <2> QED
    BY <2>1, <2>2 DEF Fresh, Reception
<1> HIDE DEF r
<1>4. r \in Seq(Fresh') /\ Len(r) = n /\ \A i \in 1..n : r[i] = m(i)
  <2> HIDE DEF m
  <2> QED
    BY <1>1, <1>2, <1>3
<1>5. sent' \in Nat /\ sent <= sent'
  BY <1>1
<1>6. ASSUME NEW i \in 1..n
      PROVE  r[i].no = sent + i /\ r[i].kind = kinds[i] /\ r[i].payload = sent + 1
  <2>1. m(i).no = sent + i /\ m(i).kind = kinds[i] /\ m(i).payload = sent + 1
    OBVIOUS
  <2>2. r[i] = m(i)
    BY <1>4
  <2> HIDE DEF m
  <2> QED
    BY <2>1, <2>2
<1>7. r \in Seq(Fresh') /\ Len(r) = n
  BY <1>4
<1> HIDE DEF n, m
<1> QED
  BY <1>5, <1>6, <1>7 DEF r, n

(* cometd_msg_extract_connect                                              *)
LEMMA ExtractShape ==
  ASSUME NEW S, NEW msgs \in Seq(S), ExtractConnect(msgs), Loop \in DOMAIN batch
  PROVE  \/ /\ Connects(msgs) = {} /\ batch' = [batch EXCEPT ![Loop] = msgs]
            /\ connect' = <<>>
         \/ \E k \in Connects(msgs) :
              /\ k \in 1..Len(msgs) /\ \A i \in Connects(msgs) : i <= k
              /\ RemoveAt(msgs, k) \in Seq(S)
              /\ batch' = [batch EXCEPT ![Loop] = RemoveAt(msgs, k)]
              /\ connect' = <<msgs[k]>> /\ msgs[k] \in S
<1>1. CASE Connects(msgs) = {}
  BY <1>1 DEF ExtractConnect
<1>2. CASE Connects(msgs) # {}
  <2>1. Len(msgs) \in Nat /\ Connects(msgs) \in SUBSET (1..Len(msgs))
    BY DEF Connects
  <2> DEFINE k == Max(Connects(msgs))
  <2>2. k \in Connects(msgs) /\ \A i \in Connects(msgs) : i <= k
    BY <1>2, <2>1, MaxOfPositions
  <2>3. /\ batch' = [batch EXCEPT ![Loop] = RemoveAt(msgs, k)]
        /\ connect' = <<msgs[k]>>
    BY <1>2 DEF ExtractConnect
  <2> HIDE DEF k
  <2>4. k \in 1..Len(msgs) /\ msgs[k] \in S
    BY <2>1, <2>2
  <2>5. RemoveAt(msgs, k) \in Seq(S)
    BY <2>4, RemoveAtShape
  <2> QED
    BY <2>2, <2>3, <2>4, <2>5
<1> QED
  BY <1>1, <1>2

(* What is shared by the steps that change a batch: the other threads'     *)
(* batches stay what they are.                                             *)
LEMMA BatchStep ==
  ASSUME RInv, NEW t \in Threads, NEW phase \in SendingPhases \cup Handling,
         pc' = [pc EXCEPT ![t] = phase], pc[t] # "idle" \/ requests' # 0,
         requests' = requests,
         exts' = exts, sent' \in Nat, sent <= sent',
         sent' # sent => pc[t] # "idle",
         NEW b \in Seq(Reception'), batch' = [batch EXCEPT ![t] = b],
         IF phase = "firing" THEN Head(b) \in Shown' /\ Tail(b) \in Seq(Fresh')
         ELSE b \in Seq(Fresh'),
         phase = "firing" => b # <<>>,
         phase \in SendingPhases => b = <<>>,
         t # Loop => phase \notin {"rebuilding", "pushing"},
         t = Listener => phase \in {"idle", "processing", "firing"},
         handled' \in [Threads -> Seq(Shown')], inbox' \in Seq(Fresh'),
         connect' \in Seq(Fresh'), Len(connect') <= 1,
         pc'[Loop] # "pushing" => connect' = <<>>
  PROVE  RInv'
<1>1. /\ pc \in [Threads -> SendingPhases \cup Handling]
      /\ batch \in [Threads -> Seq(Reception)]
  BY DEF RInv, ReceiveTypes, ReceivePhases
<1>2. /\ pc' \in [Threads -> SendingPhases \cup Handling] /\ pc'[t] = phase
      /\ \A u \in Threads \ {t} : pc'[u] = pc[u]
      /\ batch'[t] = b /\ \A u \in Threads \ {t} : batch'[u] = batch[u]
  BY <1>1
<1>3. /\ Seq(Reception) \subseteq Seq(Reception') /\ Seq(Fresh) \subseteq Seq(Fresh')
      /\ Shown \subseteq Shown' /\ Marks' = Marks
  BY ReceptionGrows DEF RInv, ReceiveTypes, Marks
<1>4. batch' \in [Threads -> Seq(Reception')]
  BY <1>1, <1>3
<1>5. ASSUME NEW u \in Threads
      PROVE  IF pc'[u] = "firing" THEN Head(batch'[u]) \in Shown' /\ Tail(batch'[u]) \in Seq(Fresh')
             ELSE batch'[u] \in Seq(Fresh')
  <2>1. CASE u = t
    BY <1>2, <2>1
  <2>2. CASE u # t
    BY <1>2, <1>3, <2>2 DEF RInv, ReceiveTypes
  <2> QED
    BY <2>1, <2>2
<1>6. ReceiveTypes'
  BY <1>3, <1>4, <1>5 DEF RInv, ReceiveTypes
<1>7. ASSUME NEW u \in Threads
      PROVE  /\ pc'[u] = "firing" => batch'[u] # <<>>
             /\ pc'[u] \in SendingPhases => batch'[u] = <<>>
             /\ u # Loop => pc'[u] \notin {"rebuilding", "pushing"}
  BY <1>2 DEF RInv, ReceivePhases
<1>8. pc'[Listener] \in {"idle", "processing", "firing"}
  BY <1>2, ThreadsDiffer DEF RInv, ReceivePhases
<1>9. requests' # 0
  BY DEF RInv, ReceivePhases
<1> QED
  BY <1>2, <1>6, <1>7, <1>8, <1>9 DEF RInv, ReceivePhases

(* A caller gets its answer.                                               *)
LEMMA AnswerReceives ==
  ASSUME RInv, NEW t \in Callers, NEW kinds \in Seq(Kinds), Answer(t, kinds)
  PROVE  RInv'
<1>1. /\ t \in Threads /\ t # Loop /\ t # Listener /\ pc[t] = "posting"
      /\ UNCHANGED <<exts, requests, connect, inbox, handled>>
      /\ sent' = sent + Len(kinds) /\ batch' = [batch EXCEPT ![t] = Received(kinds)]
      /\ pc' = [pc EXCEPT ![t] = IF kinds = <<>> THEN "idle" ELSE "processing"]
      /\ sent \in Nat
  BY ThreadsDiffer DEF Answer, Goes, RInv, ReceiveTypes
<1>2. /\ Received(kinds) \in Seq(Fresh') /\ Len(Received(kinds)) = Len(kinds)
      /\ sent' \in Nat /\ sent <= sent'
  BY <1>1, ReceivedShape
<1>3. Received(kinds) = <<>> <=> kinds = <<>>
  BY <1>2
<1>4. Seq(Fresh') \subseteq Seq(Reception')
  BY SeqMonotonic DEF Fresh
<1>5. Seq(Fresh) \subseteq Seq(Fresh') /\ Seq(Shown) \subseteq Seq(Shown')
  BY <1>1, <1>2, ReceptionGrows
<1>6. /\ handled' \in [Threads -> Seq(Shown')] /\ inbox' \in Seq(Fresh')
      /\ connect' \in Seq(Fresh') /\ Len(connect') <= 1
      /\ pc'[Loop] # "pushing" => connect' = <<>>
  BY <1>1, <1>5 DEF RInv, ReceiveTypes, ReceivePhases
<1> DEFINE phase == IF kinds = <<>> THEN "idle" ELSE "processing"
<1>7. /\ phase \in SendingPhases \cup Handling /\ phase \notin {"firing", "rebuilding", "pushing"}
      /\ phase \in {"processing", "firing"} => kinds # <<>>
      /\ phase \in SendingPhases => kinds = <<>>
  BY DEF SendingPhases, Handling
<1> HIDE DEF phase
<1> QED
  BY <1>1, <1>2, <1>3, <1>4, <1>6, <1>7, BatchStep DEF phase

(* The receive thread gets a payload, or makes one up.                     *)
LEMMA PayloadReceives ==
  ASSUME RInv, NEW kinds \in Seq(Kinds), pc[Loop] \in {"posting", "rebuilding"},
         pc' = [pc EXCEPT ![Loop] = "pushing"], sent' = sent + Len(kinds),
         ExtractConnect(Received(kinds)), UNCHANGED <<exts, requests, inbox, handled>>
  PROVE  RInv'
<1>1. Loop \in Threads /\ Loop # Listener /\ sent \in Nat /\ DOMAIN batch = Threads
  BY ThreadsDiffer DEF RInv, ReceiveTypes
<1>2. /\ Received(kinds) \in Seq(Fresh') /\ sent' \in Nat /\ sent <= sent'
  BY <1>1, ReceivedShape
<1>3. PICK b \in Seq(Fresh'), c \in Seq(Fresh') :
        batch' = [batch EXCEPT ![Loop] = b] /\ connect' = c /\ Len(c) <= 1
  <2> DEFINE msgs == Received(kinds)
             S == Fresh'
  <2> HIDE DEF msgs, S
  <2>1. \/ /\ Connects(msgs) = {} /\ batch' = [batch EXCEPT ![Loop] = msgs]
           /\ connect' = <<>>
        \/ \E k \in Connects(msgs) :
             /\ RemoveAt(msgs, k) \in Seq(S)
             /\ batch' = [batch EXCEPT ![Loop] = RemoveAt(msgs, k)]
             /\ connect' = <<msgs[k]>> /\ msgs[k] \in S
    BY <1>1, <1>2, ExtractShape DEF msgs, S
  <2>2. msgs \in Seq(S)
    BY <1>2 DEF msgs, S
  <2>3. \E b \in Seq(S), c \in Seq(S) :
        batch' = [batch EXCEPT ![Loop] = b] /\ connect' = c /\ Len(c) <= 1
    <3>1. CASE batch' = [batch EXCEPT ![Loop] = msgs] /\ connect' = <<>>
      <4>1. <<>> \in Seq(S) /\ Len(<<>>) <= 1
        OBVIOUS
      <4> QED
        BY <2>2, <3>1, <4>1
    <3>2. ASSUME NEW k \in Connects(msgs), RemoveAt(msgs, k) \in Seq(S),
                 batch' = [batch EXCEPT ![Loop] = RemoveAt(msgs, k)],
                 connect' = <<msgs[k]>>, msgs[k] \in S
          PROVE  \E b \in Seq(S), c \in Seq(S) :
                   batch' = [batch EXCEPT ![Loop] = b] /\ connect' = c /\ Len(c) <= 1
      <4>1. <<msgs[k]>> \in Seq(S) /\ Len(<<msgs[k]>>) <= 1
        BY <3>2
      <4> QED
        BY <3>2, <4>1
    <3> QED
      BY <2>1, <3>1, <3>2
  <2> QED
    BY <2>3 DEF S
<1>4. Seq(Fresh') \subseteq Seq(Reception')
  BY SeqMonotonic DEF Fresh
<1>5. Seq(Fresh) \subseteq Seq(Fresh') /\ Seq(Shown) \subseteq Seq(Shown')
  BY <1>1, <1>2, ReceptionGrows
<1>6. /\ handled' \in [Threads -> Seq(Shown')] /\ inbox' \in Seq(Fresh')
      /\ connect' \in Seq(Fresh') /\ Len(connect') <= 1
      /\ pc'[Loop] = "pushing"
  BY <1>1, <1>3, <1>5 DEF RInv, ReceiveTypes, ReceivePhases
<1>7. /\ "pushing" \in SendingPhases \cup Handling /\ "pushing" \notin SendingPhases
  BY DEF SendingPhases, Handling
<1> QED
  BY <1>1, <1>2, <1>3, <1>4, <1>6, <1>7, BatchStep

(* The receive thread pushes to the inbox, and turns to its connect message. *)
LEMMA PushReceives ==
  ASSUME RInv, PushMsg \/ PushEnds
  PROVE  RInv'
<1>1. /\ Loop \in Threads /\ Loop # Listener /\ sent \in Nat /\ pc[Loop] = "pushing"
      /\ UNCHANGED <<exts, requests, sent, handled>> /\ sent <= sent'
      /\ pc \in [Threads -> SendingPhases \cup Handling]
  BY ThreadsDiffer DEF PushMsg, PushEnds, Goes, sending, RInv, ReceiveTypes, ReceivePhases
<1>2. /\ Reception' = Reception /\ Fresh' = Fresh /\ Shown' = Shown
  BY <1>1 DEF Reception, Fresh, Shown, ShownTo, Marks
<1>3. Seq(Fresh) \subseteq Seq(Reception)
  BY SeqMonotonic DEF Fresh
<1>4. /\ handled' \in [Threads -> Seq(Shown')] /\ inbox \in Seq(Fresh)
      /\ connect \in Seq(Fresh) /\ Len(connect) <= 1 /\ batch[Loop] \in Seq(Fresh)
      /\ batch \in [Threads -> Seq(Reception)]
  BY <1>1, <1>2 DEF RInv, ReceiveTypes
<1>5. /\ "pushing" \in SendingPhases \cup Handling /\ "pushing" \notin SendingPhases
      /\ "processing" \in SendingPhases \cup Handling /\ "processing" \notin SendingPhases
      /\ "idle" \in SendingPhases \cup Handling /\ <<>> \in Seq(Fresh) /\ Len(<<>>) <= 1
  BY DEF SendingPhases, Handling
<1>6. CASE PushMsg
  <2>1. batch[Loop] # <<>> /\ pc' = pc /\ connect' = connect
        /\ inbox' = Append(inbox, Head(batch[Loop]))
        /\ batch' = [batch EXCEPT ![Loop] = Tail(batch[Loop])]
    BY <1>6 DEF PushMsg
  <2>2. Head(batch[Loop]) \in Fresh /\ Tail(batch[Loop]) \in Seq(Fresh)
    BY <1>4, <2>1, HeadTailProperties
  <2>3. inbox' \in Seq(Fresh)
    BY <1>4, <2>1, <2>2, AppendProperties
  <2>4. pc' = [pc EXCEPT ![Loop] = "pushing"] /\ pc'[Loop] = "pushing"
    BY <1>1, <2>1
  <2> DEFINE b == Tail(batch[Loop])
  <2>5. b \in Seq(Reception') /\ b \in Seq(Fresh') /\ batch' = [batch EXCEPT ![Loop] = b]
    BY <1>2, <1>3, <2>1, <2>2
  <2>6. connect' \in Seq(Fresh') /\ Len(connect') <= 1 /\ inbox' \in Seq(Fresh')
    BY <1>2, <1>4, <2>1, <2>3
  <2> HIDE DEF b
  <2> QED
    BY <1>1, <1>4, <1>5, <2>4, <2>5, <2>6, BatchStep
<1>7. CASE PushEnds
  <2>1. inbox' = inbox /\ connect' = <<>>
        /\ batch' = [batch EXCEPT ![Loop] = connect]
        /\ pc' = [pc EXCEPT ![Loop] = "processing"]
    BY <1>7 DEF PushEnds, Goes
  <2>2. connect \in Seq(Reception') /\ connect \in Seq(Fresh') /\ inbox' \in Seq(Fresh')
        /\ connect' \in Seq(Fresh') /\ Len(connect') <= 1
    BY <1>2, <1>3, <1>4, <1>5, <2>1
  <2> QED
    BY <1>1, <1>4, <1>5, <2>1, <2>2, BatchStep
<1> QED
  BY <1>6, <1>7

(* An inbox that is not empty: something was received.                     *)
LEMMA SomethingReceived ==
  ASSUME RInv, inbox # <<>> PROVE requests # 0
<1>1. inbox \in Seq(Fresh) /\ Len(inbox) > 0
  BY DEF RInv, ReceiveTypes
<1>2. inbox[1] \in Reception
  BY <1>1 DEF Fresh
<1>3. inbox[1].no \in 1..sent
  BY <1>2 DEF Reception
<1>4. sent # 0
  BY <1>3
<1> QED
  BY <1>4 DEF RInv, ReceivePhases

(* The listening thread takes a message from the inbox.                    *)
LEMMA TakeReceives ==
  ASSUME RInv, TakeMsg
  PROVE  RInv'
<1>1. /\ Listener \in Threads /\ Loop # Listener /\ sent \in Nat
      /\ UNCHANGED <<exts, requests, sent, handled, connect>> /\ sent <= sent'
      /\ pc' = [pc EXCEPT ![Listener] = "processing"] /\ pc[Listener] = "idle"
      /\ inbox # <<>> /\ inbox' = Tail(inbox)
      /\ batch' = [batch EXCEPT ![Listener] = <<Head(inbox)>>]
      /\ pc \in [Threads -> SendingPhases \cup Handling]
  BY ThreadsDiffer DEF TakeMsg, Goes, sending, RInv, ReceiveTypes, ReceivePhases
<1>2. /\ Reception' = Reception /\ Fresh' = Fresh /\ Shown' = Shown
  BY <1>1 DEF Reception, Fresh, Shown, ShownTo, Marks
<1>3. Seq(Fresh) \subseteq Seq(Reception)
  BY SeqMonotonic DEF Fresh
<1>4. /\ handled' \in [Threads -> Seq(Shown')]
      /\ connect' \in Seq(Fresh') /\ Len(connect') <= 1
      /\ pc'[Loop] # "pushing" => connect' = <<>>
  BY <1>1, <1>2, ThreadsDiffer DEF RInv, ReceiveTypes, ReceivePhases
<1>5. /\ "processing" \in SendingPhases \cup Handling /\ "processing" \notin SendingPhases
  BY DEF SendingPhases, Handling
<1>6. Head(inbox) \in Fresh /\ inbox' \in Seq(Fresh')
  BY <1>1, <1>2, HeadTailProperties DEF RInv, ReceiveTypes
<1> DEFINE b == <<Head(inbox)>>
<1>7. b \in Seq(Fresh) /\ b # <<>>
  BY <1>6
<1>8. b \in Seq(Reception') /\ b \in Seq(Fresh') /\ batch' = [batch EXCEPT ![Listener] = b]
  BY <1>1, <1>2, <1>3, <1>7
<1>9. requests' # 0
  BY <1>1, SomethingReceived
<1> HIDE DEF b
<1> QED
  BY <1>1, <1>4, <1>5, <1>6, <1>7, <1>8, <1>9, BatchStep

(* The extensions are called, then the listeners.                          *)
LEMMA FireReceives ==
  ASSUME RInv, NEW t \in Threads, Process(t)
  PROVE  RInv'
<1>1. /\ sent \in Nat /\ pc[t] \in {"processing", "firing"}
      /\ UNCHANGED <<exts, requests, sent, inbox, connect>> /\ sent <= sent'
      /\ pc \in [Threads -> SendingPhases \cup Handling] /\ batch[t] # <<>>
      /\ t = Loop => connect = <<>>
  BY ThreadsDiffer
  DEF Process, FireIncoming, FireListeners, Goes, sending, RInv, ReceiveTypes, ReceivePhases
<1>2. /\ Reception' = Reception /\ Fresh' = Fresh /\ Shown' = Shown
  BY <1>1 DEF Reception, Fresh, Shown, ShownTo, Marks
<1>3. /\ batch[t] \in Seq(Reception) /\ Len(batch[t]) \in Nat \ {0}
      /\ Head(batch[t]) \in Reception
      /\ Tail(batch[t]) \in Seq(Fresh) /\ Len(Tail(batch[t])) = Len(batch[t]) - 1
      /\ pc[t] = "firing" => Head(batch[t]) \in Shown
      /\ pc[t] # "firing" => Head(batch[t]) \in Fresh
  BY <1>1, BatchTypes
<1>4. /\ Seq(Fresh) \subseteq Seq(Reception) /\ Seq(Shown) \subseteq Seq(Reception)
      /\ Shown \subseteq Reception /\ Fresh \subseteq Reception
  BY SeqMonotonic DEF Fresh, Shown
<1>5. /\ inbox' \in Seq(Fresh') /\ connect' \in Seq(Fresh') /\ Len(connect') <= 1
  BY <1>1, <1>2 DEF RInv, ReceiveTypes
<1>6. /\ "processing" \in SendingPhases \cup Handling /\ "processing" \notin SendingPhases
      /\ "firing" \in SendingPhases \cup Handling /\ "firing" \notin SendingPhases
      /\ "idle" \in SendingPhases \cup Handling
  BY DEF SendingPhases, Handling
<1>7. CASE FireIncoming(t)
  <2> DEFINE m == Head(batch[t])
             c == Called(<<>>, Incoming)
             h == ExtFire(m, Incoming)
             b == <<h>> \o Tail(batch[t])
  <2>1. /\ pc[t] = "processing" /\ pc' = [pc EXCEPT ![t] = "firing"]
        /\ handled' = handled
        /\ batch' = [batch EXCEPT ![t] = b]
    BY <1>7 DEF FireIncoming, Goes
  <2>2. m \in Reception /\ m.marks = <<>>
    BY <1>3, <2>1 DEF Fresh
  <2>3. c \in Marks /\ ShownTo(Incoming, c)
    BY CalledShape DEF RInv, ReceiveTypes
  <2>4. h = [m EXCEPT !.marks = c]
    BY <2>2 DEF ExtFire
  <2>5. h \in Shown
    <3> HIDE DEF m, c, h
    <3>1. h \in Reception
      BY <2>2, <2>3, <2>4 DEF Reception
    <3>2. h.marks = c
      BY <2>2, <2>4 DEF Reception
    <3> QED
      BY <2>3, <3>1, <3>2 DEF Shown
  <2> HIDE DEF m, c, h
  <2>6. b \in Seq(Reception) /\ b # <<>> /\ Head(b) = h /\ Tail(b) = Tail(batch[t])
    <3> DEFINE r == Tail(batch[t])
    <3>1. r \in Seq(Reception) /\ h \in Reception
      BY <1>3, <1>4, <2>5
    <3> HIDE DEF r
    <3>2. <<h>> \o r \in Seq(Reception) /\ <<h>> \o r # <<>>
          /\ Head(<<h>> \o r) = h /\ Tail(<<h>> \o r) = r
      BY <3>1
    <3> QED
      BY <3>2 DEF r
  <2>7. Head(b) \in Shown' /\ Tail(b) \in Seq(Fresh') /\ b \in Seq(Reception')
    BY <1>2, <1>3, <2>5, <2>6
  <2>8. handled' \in [Threads -> Seq(Shown')]
    BY <1>2, <2>1 DEF RInv, ReceiveTypes
  <2>9. pc'[Loop] # "pushing" => connect' = <<>>
    BY <1>1, <2>1, ThreadsDiffer DEF RInv, ReceivePhases
  <2> HIDE DEF b
  <2> QED
    BY <1>1, <1>5, <1>6, <2>1, <2>6, <2>7, <2>8, <2>9, BatchStep
<1>8. CASE FireListeners(t)
  <2> DEFINE phase == IF Len(batch[t]) = 1 THEN "idle" ELSE "processing"
             b == Tail(batch[t])
  <2>1. /\ pc[t] = "firing" /\ pc' = [pc EXCEPT ![t] = phase]
        /\ handled' = [handled EXCEPT ![t] = Append(handled[t], Head(batch[t]))]
        /\ batch' = [batch EXCEPT ![t] = b]
    BY <1>8 DEF FireListeners, Goes
  <2>2. b \in Seq(Reception') /\ b \in Seq(Fresh')
    BY <1>2, <1>3, <1>4
  <2>3. b = <<>> <=> Len(batch[t]) = 1
    <3> DEFINE n == Len(batch[t])
    <3>1. b \in Seq(Fresh) /\ Len(b) = n - 1 /\ n \in Nat
      BY <1>3
    <3> HIDE DEF b, n
    <3>2. b = <<>> <=> Len(b) = 0
      BY <3>1
    <3>3. b = <<>> <=> n = 1
      BY <3>1, <3>2
    <3> QED
      BY <3>3 DEF n
  <2>4. handled' \in [Threads -> Seq(Shown')]
    <3>1. handled \in [Threads -> Seq(Shown)] /\ Head(batch[t]) \in Shown
      BY <1>3, <2>1 DEF RInv, ReceiveTypes
    <3>2. Append(handled[t], Head(batch[t])) \in Seq(Shown)
      BY <3>1, AppendProperties
    <3> QED
      BY <1>2, <2>1, <3>1, <3>2
  <2>5. /\ phase \in SendingPhases \cup Handling /\ phase \in {"idle", "processing"}
        /\ phase \in {"processing", "firing"} => b # <<>>
        /\ phase \in SendingPhases => b = <<>>
    BY <1>6, <2>3
  <2>6. pc'[Loop] # "pushing" => connect' = <<>>
    BY <1>1, <2>1, <2>5, ThreadsDiffer DEF RInv, ReceivePhases
  <2> HIDE DEF b, phase
  <2> QED
    BY <1>1, <1>5, <2>1, <2>2, <2>4, <2>5, <2>6, BatchStep
<1> QED
  BY <1>7, <1>8 DEF Process

(* Extensions change only while there is nothing for them to see.          *)
LEMMA ExtReceives ==
  ASSUME RInv, NEW e \in Exts, ExtAdd(e) \/ ExtRemove(e)
  PROVE  RInv'
<1>1. requests = 0 /\ UNCHANGED <<requests, pc, sent, batch, connect, inbox, handled>>
  BY DEF ExtAdd, ExtRemove, sending, receiving
<1>2. exts' \in Marks /\ IsInjective(exts')
  <2>1. CASE ExtAdd(e)
    BY <2>1, AppendOnce DEF ExtAdd, RInv, ReceiveTypes, Marks
  <2>2. CASE ExtRemove(e)
    BY <2>2, RemoveOnce DEF ExtRemove, RInv, ReceiveTypes, Marks
  <2> QED
    BY <2>1, <2>2
<1>3. sent = 0 /\ \A t \in Threads : pc[t] = "idle" /\ batch[t] = <<>>
  BY <1>1 DEF RInv, ReceivePhases, SendingPhases
<1>4. Reception = {} /\ Fresh = {} /\ Shown = {}
  <2>1. 1..sent = {}
    BY <1>3
  <2>2. Reception = {}
    BY <2>1 DEF Reception
  <2> QED
    BY <2>2 DEF Fresh, Shown
<1>5. inbox = <<>> /\ connect = <<>> /\ \A t \in Threads : handled[t] = <<>>
  BY <1>4 DEF RInv, ReceiveTypes
<1>6. <<>> \in Seq(Fresh') /\ <<>> \in Seq(Shown') /\ <<>> \in Seq(Reception') /\ Len(<<>>) <= 1
  OBVIOUS
<1>7. /\ handled' \in [Threads -> Seq(Shown')] /\ batch' \in [Threads -> Seq(Reception')]
  BY <1>1, <1>3, <1>5, <1>6 DEF RInv, ReceiveTypes
<1>8. ReceiveTypes'
  BY <1>1, <1>2, <1>3, <1>5, <1>6, <1>7 DEF ReceiveTypes, RInv, Marks
<1>9. ReceivePhases'
  BY <1>1 DEF RInv, ReceivePhases
<1> QED
  BY <1>8, <1>9 DEF RInv

(* A thread that goes from one phase to another, after the first request   *)
LEMMA GoesOn ==
  ASSUME RInv, NEW t \in Threads, NEW from, NEW to, Goes(t, from, to)
  PROVE  /\ pc[t] = from /\ pc'[t] = to /\ DOMAIN pc' = Threads
         /\ \A u \in Threads \ {t} : pc'[u] = pc[u]
         /\ pc' = [pc EXCEPT ![t] = to]
         /\ from # "idle" => requests # 0
<1>1. /\ pc \in [Threads -> SendingPhases \cup Handling]
      /\ requests = 0 => \A u \in Threads : pc[u] = "idle"
  BY DEF RInv, ReceivePhases
<1> QED
  BY <1>1 DEF Goes

(* The steps that only send                                                *)
LEMMA SendStep ==
  ASSUME SInv, RInv, NEW t \in Senders,
         \/ Begin(t) \/ (t \in Callers /\ (Build(t) \/ SendMsgSync(t) \/ NoAnswer(t)))
         \/ (t = Loop /\ (BuildConnect \/ NoAnswerToConnect))
  PROVE  SInv' /\ RInv'
<1>t. t \in Threads /\ Loop \in Threads /\ Loop \in Senders /\ Loop \notin Callers
  BY ThreadsDiffer
<1>a. /\ requests \in 0..MaxRequests /\ MaxRequests \in Nat /\ exts \in Marks
      /\ Marks' = Seq(Exts)
  BY MessagesAssumption DEF SInv, SendTypes, Marks
<1>e. /\ "idle" \in SendingPhases /\ "building" \in SendingPhases
      /\ "built" \in SendingPhases /\ "posting" \in SendingPhases
      /\ "rebuilding" \in SendingPhases
  BY DEF SendingPhases
<1>1. ASSUME Begin(t) PROVE SInv' /\ RInv'
  <2>1. /\ Goes(t, "idle", "building") /\ requests' \in 0..MaxRequests /\ requests' # 0
        /\ ReadSeed(t) /\ UNCHANGED <<exts, seed, ids, message, outgoing, posted, receiving>>
    BY <1>1, <1>a DEF Begin
  <2>2. RInv'
    BY <1>e, <2>1, QuietReceives
  <2>3. DOMAIN pc' = Threads /\ \A u \in Senders : pc'[u] \in {"built", "posting"} => pc'[u] = pc[u]
    BY <1>t, <2>1, GoesOn, ThreadsDiffer
  <2>4. PostedTypes'
    <3>1. Given' = Given
      BY <2>1 DEF Given
    <3> QED
      BY <2>1, <3>1, PostedStays DEF SInv, SendTypes
  <2>5. SInv'
    BY <2>1, <2>3, <2>4, ReadSends
  <2> QED
    BY <2>2, <2>5
<1>2. ASSUME t \in Callers, Build(t) PROVE SInv' /\ RInv'
  <2>1. /\ Goes(t, "building", "built") /\ WriteSeed(t)
        /\ message' = [message EXCEPT ![t] = [id |-> seen[t] + 1, marks |-> <<>>]]
        /\ UNCHANGED <<exts, raced, requests, seen, outgoing, posted, receiving>>
    BY <1>2 DEF Build
  <2>2. /\ DOMAIN pc' = Threads /\ pc'[t] = "built" /\ requests' # 0
        /\ \A u \in Senders \ {t} : pc'[u] = pc[u]
    BY <1>t, <2>1, GoesOn, ThreadsDiffer
  <2>3. RInv'
    BY <1>e, <2>1, <2>2, QuietReceives
  <2>4. SInv'
    BY <2>1, <2>2, WriteSends
  <2> QED
    BY <2>3, <2>4
<1>3. ASSUME t = Loop, BuildConnect PROVE SInv' /\ RInv'
  <2>1. /\ Goes(t, "building", "posting") /\ WriteSeed(t)
        /\ message' = [message EXCEPT ![t] = [id |-> seen[t] + 1, marks |-> <<>>]]
        /\ outgoing' = [outgoing EXCEPT ![t] = message'[t]]
        /\ UNCHANGED <<exts, raced, requests, seen, posted, receiving>>
    BY <1>3 DEF BuildConnect
  <2>2. /\ DOMAIN pc' = Threads /\ pc'[t] = "posting" /\ requests' # 0
        /\ \A u \in Senders \ {t} : pc'[u] = pc[u]
    BY <1>t, <2>1, GoesOn, ThreadsDiffer
  <2>3. RInv'
    BY <1>e, <2>1, <2>2, QuietReceives
  <2>4. SInv'
    <3>1. /\ pc'[t] = "posting" /\ requests # 0
          /\ \A u \in Senders \ {t} : pc'[u] \in {"built", "posting"} => pc'[u] = pc[u]
      BY <2>1, <2>2
    <3> QED
      BY <1>3, <2>1, <2>2, <3>1, WriteSends
  <2> QED
    BY <2>3, <2>4
<1>4. ASSUME t \in Callers, SendMsgSync(t) PROVE SInv' /\ RInv'
  <2>1. Goes(t, "built", "posting") /\ UNCHANGED <<exts, requests, receiving>>
    BY <1>4 DEF SendMsgSync
  <2>2. requests' # 0
    BY <1>t, <2>1, GoesOn
  <2>3. RInv'
    BY <1>e, <2>1, <2>2, QuietReceives
  <2>4. SInv'
    BY <1>4, <2>1, <2>2, ShowSends DEF RInv, ReceiveTypes
  <2> QED
    BY <2>3, <2>4
<1>5. ASSUME t \in Callers, NoAnswer(t) PROVE SInv' /\ RInv'
  <2>1. /\ Goes(t, "posting", "idle") /\ Post(t)
        /\ UNCHANGED <<exts, seed, ids, raced, requests, seen, message, outgoing, receiving>>
    BY <1>5 DEF NoAnswer
  <2>2. /\ DOMAIN pc' = Threads /\ pc'[t] = "idle" /\ requests' # 0 /\ pc[t] = "posting"
        /\ \A u \in Senders \ {t} : pc'[u] = pc[u]
    BY <1>t, <2>1, GoesOn, ThreadsDiffer
  <2>3. RInv'
    BY <1>e, <2>1, <2>2, QuietReceives
  <2>4. PostedTypes'
    BY <2>1, <2>2, PostSends
  <2>5. SInv'
    <3>1. \A u \in Senders : pc'[u] \in {"built", "posting"} => pc'[u] = pc[u]
      BY <2>2
    <3>2. exts' \in Marks'
      BY <1>a, <2>1 DEF Marks
    <3> QED
      BY <2>1, <2>2, <2>4, <3>1, <3>2, OtherSends
  <2> QED
    BY <2>3, <2>5
<1>6. ASSUME t = Loop, NoAnswerToConnect PROVE SInv' /\ RInv'
  <2>1. /\ Goes(t, "posting", "rebuilding") /\ Post(t) /\ ReadSeed(t)
        /\ UNCHANGED <<exts, seed, ids, requests, message, outgoing, receiving>>
    BY <1>6 DEF NoAnswerToConnect
  <2>2. /\ DOMAIN pc' = Threads /\ pc'[t] = "rebuilding" /\ requests' # 0 /\ pc[t] = "posting"
        /\ \A u \in Senders \ {t} : pc'[u] = pc[u]
    BY <1>t, <2>1, GoesOn, ThreadsDiffer
  <2>3. RInv'
    BY <1>6, <1>e, <2>1, <2>2, QuietReceives
  <2>4. PostedTypes'
    BY <2>1, <2>2, PostSends
  <2>5. /\ \A u \in Senders : pc'[u] \in {"built", "posting"} => pc'[u] = pc[u]
        /\ requests' \in 0..MaxRequests
    BY <1>a, <2>1, <2>2
  <2>6. SInv'
    BY <2>1, <2>2, <2>4, <2>5, ReadSends
  <2> QED
    BY <2>3, <2>6
<1> QED
  BY <1>1, <1>2, <1>3, <1>4, <1>5, <1>6

(* The answers                                                             *)
LEMMA AnswerStep ==
  ASSUME SInv, RInv,
         \/ \E t \in Callers, kinds \in Payloads : Answer(t, kinds)
         \/ \E kinds \in Payloads : AnswerConnect(kinds)
         \/ BuildBadConnect
  PROVE  SInv' /\ RInv'
<1>t. Loop \in Threads /\ Loop \in Senders /\ Loop \notin Callers
  BY ThreadsDiffer
<1>a. exts \in Marks /\ Marks' = Marks
  BY DEF SInv, SendTypes, Marks
<1>p. Payloads \subseteq Seq(Kinds)
  BY MessagesAssumption DEF Payloads, SeqOf
<1>1. ASSUME NEW t \in Callers, NEW kinds \in Payloads, Answer(t, kinds)
      PROVE  SInv' /\ RInv'
  <2> DEFINE to == IF kinds = <<>> THEN "idle" ELSE "processing"
  <2>1. /\ Goes(t, "posting", to) /\ Post(t) /\ to \notin {"built", "posting"}
        /\ UNCHANGED <<exts, seed, ids, raced, requests, seen, message, outgoing>>
    BY <1>1 DEF Answer
  <2> HIDE DEF to
  <2>2. RInv'
    BY <1>1, <1>p, AnswerReceives
  <2>3. t \in Threads /\ t \in Senders
    BY ThreadsDiffer
  <2>4. /\ DOMAIN pc' = Threads /\ pc'[t] = to /\ pc[t] = "posting"
        /\ \A u \in Senders \ {t} : pc'[u] = pc[u]
    BY <2>1, <2>3, GoesOn, ThreadsDiffer
  <2>5. PostedTypes'
    BY <2>1, <2>3, <2>4, PostSends
  <2>6. /\ \A u \in Senders : pc'[u] \in {"built", "posting"} => pc'[u] = pc[u]
        /\ requests # 0 /\ exts' = exts /\ exts' \in Marks'
    BY <1>a, <2>1, <2>3, <2>4, GoesOn
  <2>7. SInv'
    BY <2>1, <2>4, <2>5, <2>6, OtherSends
  <2> QED
    BY <2>2, <2>7
<1>2. ASSUME NEW kinds \in Payloads, AnswerConnect(kinds)
      PROVE  SInv' /\ RInv'
  <2>1. /\ Goes(Loop, "posting", "pushing") /\ Post(Loop)
        /\ sent' = sent + Len(kinds) /\ ExtractConnect(Received(kinds))
        /\ UNCHANGED <<exts, seed, ids, raced, requests, seen, message, outgoing,
                       inbox, handled>>
    BY <1>2 DEF AnswerConnect
  <2>2. /\ DOMAIN pc' = Threads /\ pc'[Loop] = "pushing" /\ pc[Loop] = "posting"
        /\ \A u \in Senders \ {Loop} : pc'[u] = pc[u]
        /\ pc' = [pc EXCEPT ![Loop] = "pushing"]
    BY <1>t, <2>1, GoesOn, ThreadsDiffer
  <2>3. RInv'
    BY <1>p, <2>1, <2>2, PayloadReceives
  <2>4. PostedTypes'
    BY <1>t, <2>1, <2>2, PostSends
  <2>5. /\ \A u \in Senders : pc'[u] \in {"built", "posting"} => pc'[u] = pc[u]
        /\ requests # 0 /\ exts' = exts /\ exts' \in Marks'
    BY <1>t, <1>a, <2>1, <2>2, GoesOn
  <2>6. SInv'
    BY <2>1, <2>2, <2>4, <2>5, OtherSends
  <2> QED
    BY <2>3, <2>6
<1>3. ASSUME BuildBadConnect PROVE SInv' /\ RInv'
  <2> DEFINE bad == <<"connect">>
  <2>1. /\ Goes(Loop, "rebuilding", "pushing") /\ WriteSeed(Loop)
        /\ sent' = sent + 1 /\ ExtractConnect(Received(bad))
        /\ UNCHANGED <<exts, raced, requests, seen, message, outgoing, posted, inbox, handled>>
    BY <1>3 DEF BuildBadConnect
  <2>2. bad \in Seq(Kinds) /\ Len(bad) = 1
    BY DEF Kinds
  <2> HIDE DEF bad
  <2>3. /\ DOMAIN pc' = Threads /\ pc'[Loop] = "pushing" /\ pc[Loop] = "rebuilding"
        /\ \A u \in Senders \ {Loop} : pc'[u] = pc[u]
        /\ pc' = [pc EXCEPT ![Loop] = "pushing"]
    BY <1>t, <2>1, GoesOn, ThreadsDiffer
  <2>4. RInv'
    BY <2>1, <2>2, <2>3, PayloadReceives
  <2>5. requests # 0
    BY <1>t, <2>1, GoesOn
  <2>6. SInv'
    BY <1>t, <2>1, <2>3, <2>5, WriteSends
  <2> QED
    BY <2>4, <2>6
<1> QED
  BY <1>1, <1>2, <1>3

(* Handling, and the extensions' coming and going                          *)
LEMMA HandleStep ==
  ASSUME SInv, RInv,
         \/ PushMsg \/ PushEnds \/ ProcessNull \/ TakeMsg \/ (\E t \in Threads : Process(t))
         \/ \E e \in Exts : ExtAdd(e) \/ ExtRemove(e)
  PROVE  SInv' /\ RInv'
<1>b. /\ DOMAIN pc = Threads /\ Senders \subseteq Threads /\ Loop \in Threads
      /\ Loop \in Senders /\ Listener \in Threads
  BY ThreadsDiffer DEF RInv, ReceivePhases
<1>1. RInv'
  <2>1. CASE PushMsg \/ PushEnds
    BY <2>1, PushReceives
  <2>2. CASE TakeMsg
    BY <2>2, TakeReceives
  <2>3. CASE \E t \in Threads : Process(t)
    BY <2>3, FireReceives
  <2>4. CASE \E e \in Exts : ExtAdd(e) \/ ExtRemove(e)
    BY <2>4, ExtReceives
  <2>5. CASE ProcessNull
    <3>1. /\ Goes(Loop, "processing", "idle") /\ batch[Loop] = <<>>
          /\ UNCHANGED <<exts, requests, receiving>>
      BY <2>5 DEF ProcessNull, sending
    <3>2. requests' # 0
      BY <1>b, <3>1, GoesOn
    <3>3. "idle" \in SendingPhases
      BY DEF SendingPhases
    <3> QED
      BY <1>b, <3>1, <3>2, <3>3, QuietReceives
  <2> QED
    BY <2>1, <2>2, <2>3, <2>4, <2>5
<1>2. exts' \in Marks'
  BY <1>1 DEF RInv, ReceiveTypes
<1>3. UNCHANGED <<seed, ids, raced, requests, seen, message, outgoing, posted>>
  BY DEF PushMsg, PushEnds, ProcessNull, TakeMsg, Process, FireIncoming, FireListeners,
         ExtAdd, ExtRemove, sending
<1>4. /\ DOMAIN pc' = Threads
      /\ \A u \in Senders : pc'[u] \in {"built", "posting"} => pc'[u] = pc[u]
  <2>1. ASSUME NEW t \in Threads, NEW to, to \notin {"built", "posting"},
               pc' = [pc EXCEPT ![t] = to]
        PROVE  /\ DOMAIN pc' = Threads
               /\ \A u \in Senders : pc'[u] \in {"built", "posting"} => pc'[u] = pc[u]
    BY <1>b, <2>1
  <2>2. \/ pc' = pc
        \/ \E t \in Threads, to \in {"idle", "processing", "firing"} : pc' = [pc EXCEPT ![t] = to]
    BY <1>b DEF PushMsg, PushEnds, ProcessNull, TakeMsg, Process, FireIncoming, FireListeners,
                ExtAdd, ExtRemove, Goes
  <2> QED
    BY <1>b, <2>1, <2>2
<1>5. exts' = exts \/ (requests = 0 /\ \A u \in Senders : pc'[u] # "posting")
  <2>1. CASE \E e \in Exts : ExtAdd(e) \/ ExtRemove(e)
    <3>1. requests = 0 /\ pc' = pc
      BY <2>1 DEF ExtAdd, ExtRemove
    <3> QED
      BY <1>b, <3>1 DEF RInv, ReceivePhases
  <2>2. CASE PushMsg \/ PushEnds \/ ProcessNull \/ TakeMsg \/ (\E t \in Threads : Process(t))
    BY <2>2 DEF PushMsg, PushEnds, ProcessNull, TakeMsg, Process, FireIncoming, FireListeners
  <2> QED
    BY <2>1, <2>2
<1>6. PostedTypes'
  <2>1. PostedTypes /\ Given' = Given
    BY <1>3 DEF SInv, SendTypes, Given
  <2>2. CASE exts' = exts
    BY <1>3, <2>1, <2>2, PostedStays
  <2>3. CASE requests = 0
    <3>1. DOMAIN posted' = Senders /\ \A t \in Senders : posted'[t] = <<>>
      BY <1>3, <2>1, <2>3 DEF SInv, SendPhases, PostedTypes
    <3>2. ASSUME NEW t \in Senders PROVE posted'[t] \in Seq(Ready(t)')
      <4>1. <<>> \in Seq(Ready(t)')
        OBVIOUS
      <4> QED
        BY <3>1, <4>1
    <3> QED
      BY <3>1, <3>2 DEF PostedTypes
  <2> QED
    BY <1>5, <2>2, <2>3
<1> QED
  BY <1>1, <1>2, <1>3, <1>4, <1>5, <1>6, OtherSends

(* Every step of Next                                                      *)
LEMMA FlowStep == SInv /\ RInv /\ [Next]_vars => SInv' /\ RInv'
<1> SUFFICES ASSUME SInv, RInv, [Next]_vars PROVE SInv' /\ RInv'
  OBVIOUS
<1>1. CASE UNCHANGED vars
  <2>1. UNCHANGED <<exts, seed, ids, raced, requests, pc, seen, message, outgoing, posted,
                    sent, batch, connect, inbox, handled>>
    BY <1>1 DEF vars, sending, receiving
  <2>2. Reception' = Reception /\ Fresh' = Fresh /\ Shown' = Shown /\ Marks' = Marks
        /\ Ids' = Ids /\ Given' = Given /\ \A t : Ready(t) \subseteq Ready(t)'
    BY <2>1, ReadyGrows DEF Reception, Fresh, Shown, ShownTo, Marks, Ids, Given
  <2>3. SInv'
    <3>1. SendTypes /\ PostedTypes'
      BY <2>1, <2>2, PostedStays DEF SInv, SendTypes
    <3>2. SendTypes'
      BY <2>1, <2>2, <3>1 DEF SendTypes
    <3>3. SendPhases'
      BY <2>1, <2>2 DEF SInv, SendPhases
    <3> QED
      BY <3>2, <3>3 DEF SInv
  <2>4. ReceiveTypes'
    BY <2>1, <2>2 DEF RInv, ReceiveTypes
  <2>5. ReceivePhases'
    BY <2>1 DEF RInv, ReceivePhases
  <2> QED
    BY <2>3, <2>4, <2>5 DEF RInv
<1>2. CASE Next
  <2>1. CASE \/ \E t \in Senders : Begin(t)
             \/ \E t \in Callers : Build(t) \/ SendMsgSync(t) \/ NoAnswer(t)
             \/ BuildConnect \/ NoAnswerToConnect
    BY <2>1, SendStep, ThreadsDiffer
  <2>2. CASE \/ \E t \in Callers, kinds \in Payloads : Answer(t, kinds)
             \/ \E kinds \in Payloads : AnswerConnect(kinds)
             \/ BuildBadConnect
    BY <2>2, AnswerStep
  <2>3. CASE \/ PushMsg \/ PushEnds \/ ProcessNull \/ TakeMsg
             \/ \E t \in Threads : Process(t)
             \/ \E e \in Exts : ExtAdd(e) \/ ExtRemove(e)
    BY <2>3, HandleStep
  <2> QED
    BY <1>2, <2>1, <2>2, <2>3, ThreadsDiffer DEF Next, CallerStep, LoopStep, ListenStep
<1> QED
  BY <1>1, <1>2

-----------------------------------------------------------------------------
(* Where messages go.  Each thread has a stream: what it has handled, then *)
(* all that is on its way to it.                                           *)

Stream(t) ==
  IF t = Listener THEN ToListener
  ELSE IF t = Loop THEN ToLoop
  ELSE handled[t] \o batch[t]

Has(msgs, n) == \E i \in 1..Len(msgs) : msgs[i].no = n

Increasing(msgs) ==
  \A i, j \in 1..Len(msgs) : i < j => msgs[i].no < msgs[j].no

(* The streams S hold each of the numbers first..last once, ordered; only  *)
(* connect messages go to the receive thread, and no connect message goes  *)
(* to the listening thread unless a later one of the same payload went to  *)
(* the receive thread.                                                     *)
Flow(S, first, last) ==
  /\ \A t \in Threads :
       Increasing(S[t]) /\ \A i \in 1..Len(S[t]) : S[t][i].no \in first..last
  /\ \A n \in first..last : \E t \in Threads : Has(S[t], n)
  /\ \A t, u \in Threads, n \in first..last : Has(S[t], n) /\ Has(S[u], n) => t = u
  /\ \A i \in 1..Len(S[Loop]) : S[Loop][i].kind = "connect"
  /\ \A i \in 1..Len(S[Listener]) : S[Listener][i].kind = "connect" =>
       \E j \in 1..Len(S[Loop]) :
         S[Loop][j].payload = S[Listener][i].payload /\ S[Loop][j].no > S[Listener][i].no

Streams == [t \in Threads |-> Stream(t)]
FlowInv == Flow(Streams, 1, sent)

(* Messages are alike if only their marks differ.                          *)
Alike(s, r) ==
  /\ Len(s) = Len(r)
  /\ \A i \in 1..Len(s) :
       s[i].no = r[i].no /\ s[i].kind = r[i].kind /\ s[i].payload = r[i].payload

(* What is in two lists put together                                       *)
LEMMA HasInConcat ==
  ASSUME NEW R, NEW s \in Seq(R), NEW r \in Seq(R), NEW n
  PROVE  Has(s \o r, n) <=> Has(s, n) \/ Has(r, n)
<1>1. /\ Len(s) \in Nat /\ Len(r) \in Nat /\ Len(s \o r) = Len(s) + Len(r)
      /\ \A i \in 1..Len(s) : (s \o r)[i] = s[i]
      /\ \A i \in 1..Len(r) : (s \o r)[Len(s) + i] = r[i]
  OBVIOUS
<1>2. \A i \in 1..Len(s \o r) : i \in 1..Len(s) \/ \E j \in 1..Len(r) : i = Len(s) + j
  <2> SUFFICES ASSUME NEW i \in 1..Len(s \o r), i \notin 1..Len(s)
               PROVE  \E j \in 1..Len(r) : i = Len(s) + j
    OBVIOUS
  <2>1. i - Len(s) \in 1..Len(r) /\ i = Len(s) + (i - Len(s))
    BY <1>1
  <2> QED
    BY <2>1
<1>3. ASSUME Has(s \o r, n) PROVE Has(s, n) \/ Has(r, n)
  <2>1. PICK i \in 1..Len(s \o r) : (s \o r)[i].no = n
    BY <1>3 DEF Has
  <2>2. CASE i \in 1..Len(s)
    BY <1>1, <2>1, <2>2 DEF Has
  <2>3. ASSUME NEW j \in 1..Len(r), i = Len(s) + j PROVE Has(r, n)
    BY <1>1, <2>1, <2>3 DEF Has
  <2> QED
    BY <1>2, <2>2, <2>3
<1>4. ASSUME Has(s, n) PROVE Has(s \o r, n)
  <2>1. PICK i \in 1..Len(s) : s[i].no = n
    BY <1>4 DEF Has
  <2>2. i \in 1..Len(s \o r) /\ (s \o r)[i].no = n
    BY <1>1, <2>1
  <2> QED
    BY <2>2 DEF Has
<1>5. ASSUME Has(r, n) PROVE Has(s \o r, n)
  <2>1. PICK i \in 1..Len(r) : r[i].no = n
    BY <1>5 DEF Has
  <2>2. Len(s) + i \in 1..Len(s \o r) /\ (s \o r)[Len(s) + i].no = n
    BY <1>1, <2>1
  <2> QED
    BY <2>2 DEF Has
<1> QED
  BY <1>3, <1>4, <1>5

(* Numbers that go on where others ended                                   *)
LEMMA IncreasingConcat ==
  ASSUME NEW R, NEW s \in Seq(R), NEW r \in Seq(R), NEW a \in Int, NEW b \in Int, NEW c \in Int,
         Increasing(s), \A i \in 1..Len(s) : s[i].no \in a..b,
         Increasing(r), \A i \in 1..Len(r) : r[i].no \in (b + 1)..c,
         b <= c, a <= b + 1
  PROVE  Increasing(s \o r) /\ \A i \in 1..Len(s \o r) : (s \o r)[i].no \in a..c
<1> DEFINE m == Len(s)
           n == Len(r)
           q == s \o r
<1>1. /\ m \in Nat /\ n \in Nat /\ Len(q) = m + n
      /\ \A i \in 1..(m + n) : q[i] = IF i <= m THEN s[i] ELSE r[i - m]
  OBVIOUS
<1> HIDE DEF q
<1>2. ASSUME NEW i \in 1..(m + n)
      PROVE  /\ i <= m => i \in 1..m /\ q[i] = s[i] /\ q[i].no \in a..b
             /\ i > m => i - m \in 1..n /\ q[i] = r[i - m] /\ q[i].no \in (b + 1)..c
  BY <1>1
<1>3. ASSUME NEW i \in 1..(m + n) PROVE q[i].no \in a..c
  <2>1. a..b \subseteq a..c /\ (b + 1)..c \subseteq a..c
    OBVIOUS
  <2>2. q[i].no \in a..b \/ q[i].no \in (b + 1)..c
    BY <1>1, <1>2
  <2> QED
    BY <2>1, <2>2
<1>4. ASSUME NEW i \in 1..(m + n), NEW j \in 1..(m + n), i < j PROVE q[i].no < q[j].no
  <2>1. CASE j <= m
    <3>1. i \in 1..m /\ j \in 1..m /\ q[i] = s[i] /\ q[j] = s[j]
      BY <1>1, <1>2, <1>4, <2>1
    <3> QED
      BY <1>4, <3>1 DEF Increasing
  <2>2. CASE i <= m /\ j > m
    <3>1. q[i].no \in a..b /\ q[j].no \in (b + 1)..c
      BY <1>2, <2>2
    <3>2. \A x \in a..b, y \in (b + 1)..c : x < y
      OBVIOUS
    <3> QED
      BY <3>1, <3>2
  <2>3. CASE i > m
    <3>1. i - m \in 1..n /\ j - m \in 1..n /\ q[i] = r[i - m] /\ q[j] = r[j - m] /\ i - m < j - m
      BY <1>1, <1>2, <1>4, <2>3
    <3> QED
      BY <3>1 DEF Increasing
  <2> QED
    BY <1>1, <2>1, <2>2, <2>3
<1> QED
  BY <1>1, <1>3, <1>4 DEF Increasing, q

(* What is received is added at the end of the streams.                    *)
LEMMA FlowGrows ==
  ASSUME NEW R, NEW S \in [Threads -> Seq(R)], NEW A \in [Threads -> Seq(R)],
         NEW T \in [Threads -> Seq(R)], \A t \in Threads : T[t] = S[t] \o A[t],
         NEW n \in Nat, NEW m \in Nat, n <= m,
         Flow(S, 1, n), Flow(A, n + 1, m)
  PROVE  Flow(T, 1, m)
<1>l. Loop \in Threads /\ Listener \in Threads
  BY ThreadsDiffer
<1>h. ASSUME NEW t \in Threads, NEW k PROVE Has(T[t], k) <=> Has(S[t], k) \/ Has(A[t], k)
  <2>1. S[t] \in Seq(R) /\ A[t] \in Seq(R) /\ T[t] = S[t] \o A[t]
    OBVIOUS
  <2> QED
    BY <2>1, HasInConcat
<1>1. ASSUME NEW t \in Threads
      PROVE  Increasing(T[t]) /\ \A i \in 1..Len(T[t]) : T[t][i].no \in 1..m
  <2> DEFINE s == S[t]
             r == A[t]
  <2>1. /\ s \in Seq(R) /\ r \in Seq(R) /\ Increasing(s) /\ Increasing(r)
        /\ \A i \in 1..Len(s) : s[i].no \in 1..n
        /\ \A i \in 1..Len(r) : r[i].no \in (n + 1)..m
    BY DEF Flow
  <2>2. T[t] = s \o r
    OBVIOUS
  <2> HIDE DEF s, r
  <2>3. 1 \in Int /\ n \in Int /\ m \in Int /\ n <= m /\ 1 <= n + 1
    OBVIOUS
  <2>4. Increasing(s \o r) /\ \A i \in 1..Len(s \o r) : (s \o r)[i].no \in 1..m
    BY <2>1, <2>3, IncreasingConcat
  <2> QED
    BY <2>2, <2>4
<1>2. ASSUME NEW k \in 1..m PROVE \E t \in Threads : Has(T[t], k)
  <2>1. k \in 1..n \/ k \in (n + 1)..m
    OBVIOUS
  <2>2. \E t \in Threads : Has(S[t], k) \/ Has(A[t], k)
    BY <2>1 DEF Flow
  <2> QED
    BY <1>h, <2>2
<1>3. ASSUME NEW t \in Threads, NEW k, Has(S[t], k) PROVE k \in 1..n
  BY <1>3 DEF Flow, Has
<1>4. ASSUME NEW t \in Threads, NEW k, Has(A[t], k) PROVE k \in (n + 1)..m
  BY <1>4 DEF Flow, Has
<1>5. ASSUME NEW t \in Threads, NEW u \in Threads, NEW k \in 1..m, Has(T[t], k), Has(T[u], k)
      PROVE  t = u
  <2>1. CASE k \in 1..n
    <3>1. Has(S[t], k) /\ Has(S[u], k)
      BY <1>h, <1>4, <1>5, <2>1
    <3> QED
      BY <2>1, <3>1 DEF Flow
  <2>2. CASE k \in (n + 1)..m
    <3>1. Has(A[t], k) /\ Has(A[u], k)
      BY <1>h, <1>3, <1>5, <2>2
    <3> QED
      BY <2>2, <3>1 DEF Flow
  <2> QED
    BY <2>1, <2>2
<1>6. /\ Len(T[Loop]) = Len(S[Loop]) + Len(A[Loop])
      /\ Len(T[Listener]) = Len(S[Listener]) + Len(A[Listener])
      /\ Len(S[Loop]) \in Nat /\ Len(A[Loop]) \in Nat
      /\ Len(S[Listener]) \in Nat /\ Len(A[Listener]) \in Nat
      /\ \A i \in 1..Len(S[Loop]) : T[Loop][i] = S[Loop][i]
      /\ \A i \in 1..Len(A[Loop]) : T[Loop][Len(S[Loop]) + i] = A[Loop][i]
      /\ \A i \in 1..Len(S[Listener]) : T[Listener][i] = S[Listener][i]
      /\ \A i \in 1..Len(A[Listener]) : T[Listener][Len(S[Listener]) + i] = A[Listener][i]
  <2>1. ASSUME NEW t \in Threads
        PROVE  /\ Len(T[t]) = Len(S[t]) + Len(A[t]) /\ Len(S[t]) \in Nat /\ Len(A[t]) \in Nat
               /\ \A i \in 1..Len(S[t]) : T[t][i] = S[t][i]
               /\ \A i \in 1..Len(A[t]) : T[t][Len(S[t]) + i] = A[t][i]
    OBVIOUS
  <2> QED
    BY <1>l, <2>1
<1> DEFINE a == Len(S[Loop])
           b == Len(A[Loop])
           c == Len(S[Listener])
           d == Len(A[Listener])
<1>7. \A i \in 1..Len(T[Loop]) : T[Loop][i].kind = "connect"
  <2> SUFFICES ASSUME NEW i \in 1..Len(T[Loop]) PROVE T[Loop][i].kind = "connect"
    OBVIOUS
  <2>1. CASE i <= a
    <3>1. i \in 1..a /\ T[Loop][i] = S[Loop][i]
      BY <1>6, <2>1
    <3> QED
      BY <3>1 DEF Flow
  <2>2. CASE i > a
    <3>1. i - a \in 1..b /\ i = a + (i - a)
      <4> DEFINE len == Len(T[Loop])
      <4>1. len = a + b /\ a \in Nat /\ b \in Nat /\ i \in 1..len
        BY <1>6
      <4> HIDE DEF a, b, len
      <4> QED
        BY <2>2, <4>1
    <3>2. T[Loop][i] = A[Loop][i - a]
      BY <1>6, <3>1
    <3> QED
      BY <3>1, <3>2 DEF Flow
  <2> QED
    BY <1>6, <2>1, <2>2
<1>8. ASSUME NEW i \in 1..Len(T[Listener]), T[Listener][i].kind = "connect"
      PROVE  \E j \in 1..Len(T[Loop]) :
               T[Loop][j].payload = T[Listener][i].payload /\ T[Loop][j].no > T[Listener][i].no
  <2>1. CASE i <= c
    <3>1. i \in 1..c /\ T[Listener][i] = S[Listener][i]
      BY <1>6, <2>1
    <3>2. PICK j \in 1..a :
            S[Loop][j].payload = T[Listener][i].payload /\ S[Loop][j].no > T[Listener][i].no
      BY <1>8, <3>1 DEF Flow
    <3>3. j \in 1..Len(T[Loop]) /\ T[Loop][j] = S[Loop][j]
      BY <1>6, <3>2
    <3> QED
      BY <3>2, <3>3
  <2>2. CASE i > c
    <3>1. i - c \in 1..d /\ i = c + (i - c)
      BY <1>6, <2>2
    <3>2. T[Listener][i] = A[Listener][i - c]
      BY <1>6, <3>1
    <3>3. PICK j \in 1..b :
            A[Loop][j].payload = T[Listener][i].payload /\ A[Loop][j].no > T[Listener][i].no
      BY <1>8, <3>1, <3>2 DEF Flow
    <3>4. a + j \in 1..Len(T[Loop]) /\ T[Loop][a + j] = A[Loop][j]
      BY <1>6, <3>3
    <3> QED
      BY <3>3, <3>4
  <2> QED
    BY <1>6, <2>1, <2>2
<1> QED
  BY <1>1, <1>2, <1>5, <1>7, <1>8 DEF Flow

(* Marks make no difference to the streams.                                *)
LEMMA FlowAlike ==
  ASSUME NEW R, NEW S \in [Threads -> Seq(R)], NEW T \in [Threads -> Seq(R)],
         \A t \in Threads : Alike(S[t], T[t]), NEW n \in Nat, Flow(S, 1, n)
  PROVE  Flow(T, 1, n)
<1>l. Loop \in Threads /\ Listener \in Threads
  BY ThreadsDiffer
<1>1. ASSUME NEW t \in Threads
      PROVE  Increasing(T[t]) /\ \A i \in 1..Len(T[t]) : T[t][i].no \in 1..n
  BY DEF Flow, Alike, Increasing
<1>2. ASSUME NEW t \in Threads, NEW k PROVE Has(T[t], k) <=> Has(S[t], k)
  BY DEF Alike, Has
<1>3. /\ \A k \in 1..n : \E t \in Threads : Has(T[t], k)
      /\ \A t, u \in Threads, k \in 1..n : Has(T[t], k) /\ Has(T[u], k) => t = u
  BY <1>2 DEF Flow
<1>4. /\ Len(S[Loop]) = Len(T[Loop]) /\ Len(S[Listener]) = Len(T[Listener])
      /\ \A i \in 1..Len(T[Loop]) :
           /\ T[Loop][i].no = S[Loop][i].no /\ T[Loop][i].kind = S[Loop][i].kind
           /\ T[Loop][i].payload = S[Loop][i].payload
      /\ \A i \in 1..Len(T[Listener]) :
           /\ T[Listener][i].no = S[Listener][i].no /\ T[Listener][i].kind = S[Listener][i].kind
           /\ T[Listener][i].payload = S[Listener][i].payload
  BY <1>l DEF Alike
<1>5. /\ \A i \in 1..Len(T[Loop]) : T[Loop][i].kind = "connect"
      /\ \A i \in 1..Len(T[Listener]) : T[Listener][i].kind = "connect" =>
           \E j \in 1..Len(T[Loop]) :
             T[Loop][j].payload = T[Listener][i].payload /\ T[Loop][j].no > T[Listener][i].no
  BY <1>4 DEF Flow
<1> QED
  BY <1>1, <1>3, <1>5 DEF Flow

(* Messages, whatever has been received so far                             *)
Msg == [no : Nat, kind : Kinds, payload : Nat, marks : Marks]

FlowTypes ==
  /\ handled \in [Threads -> Seq(Msg)] /\ batch \in [Threads -> Seq(Msg)]
  /\ inbox \in Seq(Msg) /\ connect \in Seq(Msg)
  /\ Streams \in [Threads -> Seq(Msg)]

(* The streams are sequences of them.                                      *)
LEMMA Typed == RInv => FlowTypes
<1> SUFFICES ASSUME RInv PROVE FlowTypes
  OBVIOUS
<1>1. Reception \subseteq Msg
  <2>1. 1..sent \subseteq Nat
    BY DEF RInv, ReceiveTypes
  <2> QED
    BY <2>1 DEF Reception, Msg
<1>2. Fresh \subseteq Msg /\ Shown \subseteq Msg
  BY <1>1 DEF Fresh, Shown
<1> HIDE DEF Msg
<1>3. /\ Seq(Reception) \subseteq Seq(Msg) /\ Seq(Fresh) \subseteq Seq(Msg)
      /\ Seq(Shown) \subseteq Seq(Msg)
  BY <1>1, <1>2, SeqMonotonic
<1>4. /\ handled \in [Threads -> Seq(Msg)] /\ batch \in [Threads -> Seq(Msg)]
      /\ inbox \in Seq(Msg) /\ connect \in Seq(Msg)
  BY <1>3 DEF RInv, ReceiveTypes
<1>5. Loop \in Threads /\ Listener \in Threads
  BY ThreadsDiffer
<1>6. ASSUME NEW t \in Threads PROVE Stream(t) \in Seq(Msg)
  <2>1. handled[t] \o batch[t] \in Seq(Msg)
    BY <1>4
  <2>2. ToLoop \in Seq(Msg)
    BY <1>4, <1>5 DEF ToLoop
  <2>3. ToListener \in Seq(Msg)
    <3>1. handled[Listener] \o batch[Listener] \in Seq(Msg)
      BY <1>4, <1>5
    <3>2. handled[Listener] \o batch[Listener] \o inbox \in Seq(Msg)
      BY <1>4, <3>1, ConcatProperties
    <3>3. (IF pc[Loop] = "pushing" THEN batch[Loop] ELSE <<>>) \in Seq(Msg)
      BY <1>4, <1>5
    <3> QED
      BY <3>2, <3>3, ConcatProperties DEF ToListener
  <2> QED
    BY <2>1, <2>2, <2>3 DEF Stream
<1> QED
  BY <1>4, <1>6 DEF Streams, FlowTypes

(* The streams one by one                                                  *)
LEMMA StreamValues ==
  /\ \A t \in Threads : Streams[t] = Stream(t)
  /\ Streams[Loop] = ToLoop /\ Streams[Listener] = ToListener
  /\ \A t \in Callers : Streams[t] = handled[t] \o batch[t]
BY ThreadsDiffer DEF Streams, Stream

(* An element at the end of the second of two lists                        *)
LEMMA AppendInside ==
  ASSUME NEW S, NEW p \in Seq(S), NEW q \in Seq(S), NEW e \in S
  PROVE  p \o Append(q, e) = Append(p \o q, e)
<1>1. <<e>> \in Seq(S) /\ p \o q \in Seq(S)
  OBVIOUS
<1>2. Append(q, e) = q \o <<e>>
  BY AppendIsConcat
<1>3. Append(p \o q, e) = (p \o q) \o <<e>>
  BY <1>1, AppendIsConcat
<1>4. (p \o q) \o <<e>> = p \o (q \o <<e>>)
  BY <1>1, ConcatAssociative
<1> QED
  BY <1>2, <1>3, <1>4

(* Lists that are alike, put together                                      *)
LEMMA AlikeConcat ==
  ASSUME NEW S, NEW p \in Seq(S), NEW q \in Seq(S), NEW r \in Seq(S), NEW s \in Seq(S),
         Alike(p, q), Alike(r, s)
  PROVE  Alike(p \o r, q \o s)
<1> DEFINE m == Len(p)
           n == Len(r)
<1>1. /\ m \in Nat /\ n \in Nat /\ m = Len(q) /\ n = Len(s)
      /\ Len(p \o r) = m + n /\ Len(q \o s) = m + n
      /\ \A i \in 1..(m + n) : (p \o r)[i] = IF i <= m THEN p[i] ELSE r[i - m]
      /\ \A i \in 1..(m + n) : (q \o s)[i] = IF i <= m THEN q[i] ELSE s[i - m]
  <2>1. m \in Nat /\ n \in Nat /\ m = Len(q) /\ n = Len(s)
    BY DEF Alike
  <2>2. /\ Len(p \o r) = Len(p) + Len(r)
        /\ \A i \in 1..(Len(p) + Len(r)) :
             (p \o r)[i] = IF i <= Len(p) THEN p[i] ELSE r[i - Len(p)]
    BY ConcatProperties
  <2>3. /\ Len(q \o s) = Len(q) + Len(s)
        /\ \A i \in 1..(Len(q) + Len(s)) :
             (q \o s)[i] = IF i <= Len(q) THEN q[i] ELSE s[i - Len(q)]
    BY ConcatProperties
  <2> QED
    BY <2>1, <2>2, <2>3
<1>2. ASSUME NEW i \in 1..(m + n)
      PROVE  /\ (p \o r)[i].no = (q \o s)[i].no
             /\ (p \o r)[i].kind = (q \o s)[i].kind
             /\ (p \o r)[i].payload = (q \o s)[i].payload
  <2>1. CASE i <= m
    <3>1. i \in 1..Len(p) /\ (p \o r)[i] = p[i] /\ (q \o s)[i] = q[i]
      BY <1>1, <2>1
    <3> QED
      BY <3>1 DEF Alike
  <2>2. CASE i > m
    <3>1. i - m \in 1..Len(r) /\ (p \o r)[i] = r[i - m] /\ (q \o s)[i] = s[i - m]
      BY <1>1, <2>2
    <3> QED
      BY <3>1 DEF Alike
  <2> QED
    BY <1>1, <2>1, <2>2
<1> QED
  BY <1>1, <1>2 DEF Alike

(* A list is like itself.                                                  *)
LEMMA AlikeItself == \A s : Alike(s, s)
BY DEF Alike

(* Steps within the streams                                                *)
LEMMA StreamsStay ==
  ASSUME RInv, RInv', FlowInv, sent' = sent,
         \A t \in Threads : Alike(Stream(t), Stream(t)')
  PROVE  FlowInv'
<1> DEFINE S == Streams
           T == Streams'
           n == sent
<1>1. S \in [Threads -> Seq(Msg)] /\ Msg' = Msg
  BY Typed DEF Msg, Marks, FlowTypes
<1>2. T \in [Threads -> Seq(Msg)]
  <2>1. RInv' => FlowTypes'
    BY Typed, PTL
  <2> QED
    BY <1>1, <2>1 DEF FlowTypes
<1>3. \A t \in Threads : Alike(S[t], T[t])
  BY DEF Streams
<1>4. n \in Nat /\ Flow(S, 1, n)
  BY DEF RInv, ReceiveTypes, FlowInv
<1> HIDE DEF S, T, n
<1>5. Flow(T, 1, n)
  BY <1>1, <1>2, <1>3, <1>4, FlowAlike
<1> QED
  BY <1>5 DEF T, n, FlowInv

(* Nothing is received, pushed, taken or handled.                          *)
LEMMA FlowIdles ==
  ASSUME RInv, RInv', FlowInv, UNCHANGED receiving,
         pc'[Loop] = "pushing" <=> pc[Loop] = "pushing"
  PROVE  FlowInv'
<1>1. UNCHANGED <<sent, batch, connect, inbox, handled>>
  BY DEF receiving
<1>2. ToListener' = ToListener /\ ToLoop' = ToLoop
  BY <1>1 DEF ToListener, ToLoop
<1>3. \A t \in Threads : Stream(t)' = Stream(t)
  BY <1>1, <1>2 DEF Stream
<1>4. \A t \in Threads : Alike(Stream(t), Stream(t)')
  BY <1>3, AlikeItself
<1> QED
  BY <1>1, <1>4, StreamsStay

(* A message moves from the payload to the inbox.                          *)
LEMMA FlowOfPush ==
  ASSUME RInv, RInv', FlowInv, PushMsg \/ PushEnds
  PROVE  FlowInv'
<1>t. Loop \in Threads /\ Listener \in Threads /\ Loop # Listener /\ pc[Loop] = "pushing"
      /\ UNCHANGED <<sent, handled>> /\ DOMAIN pc = Threads /\ DOMAIN batch = Threads
  BY ThreadsDiffer DEF PushMsg, PushEnds, Goes, RInv, ReceivePhases, ReceiveTypes
<1>m. /\ handled \in [Threads -> Seq(Msg)] /\ batch \in [Threads -> Seq(Msg)]
      /\ inbox \in Seq(Msg) /\ connect \in Seq(Msg)
  BY Typed DEF FlowTypes
<1>1. \A t \in Threads \ {Loop} : batch'[t] = batch[t]
  BY <1>t DEF PushMsg, PushEnds
<1>2. ToListener' = ToListener /\ ToLoop' = ToLoop
  <2>1. CASE PushMsg
    <3> DEFINE p == handled[Listener] \o batch[Listener]
               r == batch[Loop]
    <3>1. p \in Seq(Msg) /\ r \in Seq(Msg) /\ r # <<>> /\ inbox \in Seq(Msg)
      BY <1>t, <1>m, <2>1 DEF PushMsg
    <3>2. /\ inbox' = Append(inbox, Head(r)) /\ batch'[Loop] = Tail(r) /\ pc' = pc
          /\ batch'[Listener] = batch[Listener] /\ connect' = connect
      BY <1>t, <1>m, <2>1 DEF PushMsg
    <3>3. ToListener = p \o inbox \o r
      BY <1>t DEF ToListener
    <3>4. ToListener' = p \o Append(inbox, Head(r)) \o Tail(r)
      BY <1>t, <3>2 DEF ToListener
    <3>5. ToLoop' = ToLoop
      BY <1>t, <3>2 DEF ToLoop
    <3> DEFINE q == p \o inbox
    <3> HIDE DEF p, r
    <3>6. Head(r) \in Msg /\ q \in Seq(Msg)
      BY <3>1
    <3>7. p \o Append(inbox, Head(r)) = Append(q, Head(r))
      BY <3>1, <3>6, AppendInside
    <3> HIDE DEF q
    <3>8. Append(q, Head(r)) \o Tail(r) = q \o r
      BY <3>1, <3>6, HandOver
    <3> QED
      BY <3>3, <3>4, <3>5, <3>7, <3>8 DEF q
  <2>2. CASE PushEnds
    <3>1. /\ batch[Loop] = <<>> /\ batch'[Loop] = connect /\ pc'[Loop] # "pushing"
          /\ inbox' = inbox /\ batch'[Listener] = batch[Listener]
      BY <1>t, <2>2 DEF PushEnds, Goes
    <3> QED
      BY <1>t, <3>1 DEF ToListener, ToLoop
  <2> QED
    BY <2>1, <2>2
<1>3. \A t \in Threads : Stream(t)' = Stream(t)
  BY <1>t, <1>1, <1>2 DEF Stream
<1>4. \A t \in Threads : Alike(Stream(t), Stream(t)')
  BY <1>3, AlikeItself
<1> QED
  BY <1>t, <1>4, StreamsStay

(* A message moves from the inbox to the listening thread.                 *)
LEMMA FlowOfTake ==
  ASSUME RInv, RInv', FlowInv, TakeMsg
  PROVE  FlowInv'
<1>t. Loop \in Threads /\ Listener \in Threads /\ Loop # Listener /\ pc[Listener] = "idle"
      /\ UNCHANGED <<sent, handled, connect>> /\ DOMAIN pc = Threads /\ DOMAIN batch = Threads
      /\ pc'[Loop] = pc[Loop] /\ inbox # <<>> /\ inbox' = Tail(inbox)
      /\ batch'[Listener] = <<Head(inbox)>>
      /\ \A t \in Threads \ {Listener} : batch'[t] = batch[t]
  BY ThreadsDiffer DEF TakeMsg, Goes, RInv, ReceivePhases, ReceiveTypes
<1>m. handled[Listener] \in Seq(Msg) /\ inbox \in Seq(Msg) /\ batch[Listener] = <<>>
  BY <1>t, Typed DEF FlowTypes, RInv, ReceivePhases, SendingPhases
<1>1. ToLoop' = ToLoop
  BY <1>t DEF ToLoop
<1>2. ToListener' = ToListener
  <2> DEFINE h == handled[Listener]
             r == IF pc[Loop] = "pushing" THEN batch[Loop] ELSE <<>>
  <2>1. /\ ToListener = h \o <<>> \o inbox \o r
        /\ ToListener' = h \o <<Head(inbox)>> \o Tail(inbox) \o r
    BY <1>t, <1>m DEF ToListener
  <2>2. h \in Seq(Msg)
    BY <1>m
  <2> HIDE DEF h, r
  <2>3. h \o <<>> = h
    BY <2>2
  <2>4. /\ <<Head(inbox)>> \in Seq(Msg) /\ Tail(inbox) \in Seq(Msg)
        /\ <<Head(inbox)>> \o Tail(inbox) = inbox
    BY <1>t, <1>m
  <2>5. h \o <<Head(inbox)>> \o Tail(inbox) = h \o (<<Head(inbox)>> \o Tail(inbox))
    BY <2>2, <2>4, ConcatAssociative
  <2> QED
    BY <2>1, <2>3, <2>4, <2>5
<1>3. \A t \in Threads : Stream(t)' = Stream(t)
  BY <1>t, <1>1, <1>2 DEF Stream
<1>4. \A t \in Threads : Alike(Stream(t), Stream(t)')
  BY <1>3, AlikeItself
<1> QED
  BY <1>t, <1>4, StreamsStay

(* A thread's own part of its stream: what it has handled and what it has  *)
(* at hand.                                                                *)
LEMMA FlowOfOwn ==
  ASSUME RInv, RInv', FlowInv, UNCHANGED <<sent, inbox, connect>>, NEW t \in Threads,
         pc[Loop] = "pushing" => t # Loop, pc'[Loop] = "pushing" <=> pc[Loop] = "pushing",
         \A u \in Threads \ {t} : batch'[u] = batch[u] /\ handled'[u] = handled[u],
         Alike(handled[t] \o batch[t], (handled[t] \o batch[t])')
  PROVE  FlowInv'
<1>t. Loop \in Threads /\ Listener \in Threads /\ Loop # Listener
  BY ThreadsDiffer
<1>m. /\ handled \in [Threads -> Seq(Msg)] /\ batch \in [Threads -> Seq(Msg)]
      /\ inbox \in Seq(Msg)
  BY Typed DEF FlowTypes
<1>n. /\ handled' \in [Threads -> Seq(Msg)] /\ batch' \in [Threads -> Seq(Msg)]
      /\ inbox' \in Seq(Msg)
  <2>1. FlowTypes'
    BY Typed, PTL
  <2>2. Msg' = Msg
    BY DEF Msg, Marks
  <2> QED
    BY <2>1, <2>2 DEF FlowTypes
<1>1. \A u \in Threads : Alike(handled[u] \o batch[u], (handled[u] \o batch[u])')
  BY AlikeItself
<1>2. Alike(ToLoop, ToLoop')
  <2>1. CASE pc[Loop] = "pushing"
    <3>1. ToLoop' = ToLoop
      BY <1>t, <2>1 DEF ToLoop
    <3> QED
      BY <3>1, AlikeItself
  <2>2. CASE pc[Loop] # "pushing"
    BY <1>t, <1>1, <2>2 DEF ToLoop
  <2> QED
    BY <2>1, <2>2
<1>3. Alike(ToListener, ToListener')
  <2> DEFINE p == handled[Listener] \o batch[Listener]
             q == (handled[Listener] \o batch[Listener])'
             r == IF pc[Loop] = "pushing" THEN batch[Loop] ELSE <<>>
  <2>1. ToListener = p \o inbox \o r
    BY DEF ToListener
  <2>2. ToListener' = q \o inbox \o r
    <3>1. pc[Loop] = "pushing" => batch'[Loop] = batch[Loop]
      BY <1>t
    <3> QED
      BY <3>1 DEF ToListener
  <2>3. p \in Seq(Msg) /\ q \in Seq(Msg) /\ r \in Seq(Msg) /\ Alike(p, q)
    BY <1>t, <1>m, <1>n, <1>1
  <2> HIDE DEF p, q, r
  <2>4. Alike(inbox, inbox) /\ Alike(r, r)
    BY AlikeItself
  <2>5. Alike(p \o inbox, q \o inbox)
    BY <1>m, <2>3, <2>4, AlikeConcat
  <2>6. p \o inbox \in Seq(Msg) /\ q \o inbox \in Seq(Msg)
    BY <1>m, <2>3
  <2>7. Alike(p \o inbox \o r, q \o inbox \o r)
    BY <2>3, <2>4, <2>5, <2>6, AlikeConcat
  <2> QED
    BY <2>1, <2>2, <2>7
<1>4. \A u \in Threads : Alike(Stream(u), Stream(u)')
  BY <1>1, <1>2, <1>3 DEF Stream
<1> QED
  BY <1>4, StreamsStay

(* A message is marked, or moves on to what has been handled.              *)
LEMMA FlowOfProcess ==
  ASSUME RInv, RInv', FlowInv, NEW t \in Threads, Process(t)
  PROVE  FlowInv'
<1>1. /\ UNCHANGED <<sent, inbox, connect, exts>> /\ batch[t] # <<>>
      /\ pc[t] \in {"processing", "firing"} /\ pc'[t] \in {"idle", "processing", "firing"}
      /\ \A u \in Threads \ {t} : pc'[u] = pc[u] /\ batch'[u] = batch[u] /\ handled'[u] = handled[u]
  BY DEF Process, FireIncoming, FireListeners, Goes, RInv, ReceivePhases, ReceiveTypes
<1>2. Loop \in Threads
  BY ThreadsDiffer
<1>m. handled[t] \in Seq(Msg) /\ batch[t] \in Seq(Msg)
  BY Typed DEF FlowTypes
<1>n. /\ handled' \in [Threads -> Seq(Msg)] /\ batch' \in [Threads -> Seq(Msg)]
  <2>1. FlowTypes'
    BY Typed, PTL
  <2>2. Msg' = Msg
    BY DEF Msg, Marks
  <2> QED
    BY <2>1, <2>2 DEF FlowTypes
<1>3. Alike(handled[t] \o batch[t], (handled[t] \o batch[t])')
  <2>1. CASE FireIncoming(t)
    <3> DEFINE b == batch[t]
               m == Head(b)
               c == Called(m.marks, Incoming)
               x == [m EXCEPT !.marks = c]
               d == <<x>> \o Tail(b)
    <3>1. handled' = handled /\ batch'[t] = d
      BY <1>m, <2>1 DEF FireIncoming, ExtFire, RInv, ReceiveTypes
    <3>2. b \in Seq(Msg) /\ b # <<>>
      BY <1>1, <1>m
    <3>3. /\ m \in Msg /\ Tail(b) \in Seq(Msg) /\ b[1] = m
          /\ Len(Tail(b)) = Len(b) - 1 /\ Len(b) \in Nat \ {0}
          /\ \A i \in 1..Len(Tail(b)) : Tail(b)[i] = b[i + 1]
      BY <3>2, HeadTailProperties
    <3>4. x.no = m.no /\ x.kind = m.kind /\ x.payload = m.payload
      <4> HIDE DEF m, c
      <4> QED
        BY <3>3 DEF Msg
    <3> HIDE DEF b, m, x
    <3>5. Len(d) = Len(b) /\ d[1] = x /\ \A i \in 2..Len(b) : d[i] = b[i]
      <4> DEFINE r == Tail(b)
      <4>1. /\ r \in Seq(Msg) /\ Len(r) = Len(b) - 1 /\ Len(b) \in Nat \ {0}
            /\ \A i \in 1..Len(r) : r[i] = b[i + 1]
        BY <3>3
      <4> HIDE DEF r
      <4>2. Len(<<x>> \o r) = 1 + Len(r) /\ (<<x>> \o r)[1] = x
            /\ \A i \in 2..(1 + Len(r)) : (<<x>> \o r)[i] = r[i - 1]
        BY <4>1
      <4>3. ASSUME NEW i \in 2..Len(b) PROVE (<<x>> \o r)[i] = b[i]
        <5>1. i - 1 \in 1..Len(r) /\ (i - 1) + 1 = i /\ i \in 2..(1 + Len(r))
          BY <4>1
        <5>2. r[i - 1] = b[(i - 1) + 1]
          BY <4>1, <5>1
        <5> QED
          BY <4>2, <5>1, <5>2
      <4>4. Len(<<x>> \o r) = Len(b)
        BY <4>1, <4>2
      <4> QED
        BY <4>2, <4>3, <4>4 DEF r
    <3>6. Alike(b, d)
      <4> HIDE DEF d
      <4> QED
        BY <3>3, <3>4, <3>5 DEF Alike
    <3>7. d \in Seq(Msg)
      BY <1>n, <3>1
    <3> HIDE DEF d
    <3> DEFINE h == handled[t]
    <3>8. h \in Seq(Msg) /\ Alike(h, h)
      BY <1>m, AlikeItself
    <3>9. handled'[t] = h /\ batch'[t] = d /\ batch[t] = b
      BY <3>1 DEF b
    <3> HIDE DEF h
    <3>10. Alike(h \o b, h \o d)
      BY <3>2, <3>6, <3>7, <3>8, AlikeConcat
    <3>11. handled[t] = h
      BY DEF h
    <3> QED
      BY <3>9, <3>10, <3>11
  <2>2. CASE FireListeners(t)
    <3>1. handled'[t] = Append(handled[t], Head(batch[t])) /\ batch'[t] = Tail(batch[t])
      BY <2>2 DEF FireListeners, RInv, ReceiveTypes
    <3>2. Append(handled[t], Head(batch[t])) \o Tail(batch[t]) = handled[t] \o batch[t]
      BY <1>1, <1>m, HandOver
    <3> QED
      BY <3>1, <3>2, AlikeItself
  <2> QED
    BY <2>1, <2>2 DEF Process
<1>4. /\ pc[Loop] = "pushing" => t # Loop
      /\ pc'[Loop] = "pushing" <=> pc[Loop] = "pushing"
  BY <1>1, <1>2
<1> QED
  BY <1>1, <1>3, <1>4, FlowOfOwn

(* Steps that add to the streams                                           *)
LEMMA StreamsGrow ==
  ASSUME RInv, RInv', FlowInv, NEW A \in [Threads -> Seq(Msg)],
         \A t \in Threads : Stream(t)' = Stream(t) \o A[t],
         sent <= sent', Flow(A, sent + 1, sent')
  PROVE  FlowInv'
<1> DEFINE S == Streams
           T == Streams'
           n == sent
           m == sent'
<1>1. S \in [Threads -> Seq(Msg)] /\ Msg' = Msg
  BY Typed DEF Msg, Marks, FlowTypes
<1>2. T \in [Threads -> Seq(Msg)]
  <2>1. RInv' => FlowTypes'
    BY Typed, PTL
  <2> QED
    BY <1>1, <2>1 DEF FlowTypes
<1>3. \A t \in Threads : T[t] = S[t] \o A[t]
  BY DEF Streams
<1>4. n \in Nat /\ m \in Nat /\ n <= m /\ Flow(S, 1, n) /\ Flow(A, n + 1, m)
  BY DEF RInv, ReceiveTypes, FlowInv
<1> HIDE DEF S, T, n, m
<1>5. Flow(T, 1, m)
  BY <1>1, <1>2, <1>3, <1>4, FlowGrows
<1> QED
  BY <1>5 DEF T, m, FlowInv

(* The messages of an answer, in the stream of the thread that asked       *)
LEMMA AnswerFlow ==
  ASSUME NEW n \in Nat, NEW k \in Nat, NEW c \in Callers, NEW A,
         Len(A[c]) = k, \A i \in 1..k : A[c][i].no = n + i,
         \A t \in Threads \ {c} : A[t] = <<>>
  PROVE  Flow(A, n + 1, n + k)
<1>1. c \in Threads /\ Loop \in Threads \ {c} /\ Listener \in Threads \ {c}
  BY ThreadsDiffer
<1>2. \A t \in Threads \ {c} : Len(A[t]) = 0
  OBVIOUS
<1>3. ASSUME NEW t \in Threads
      PROVE  Increasing(A[t]) /\ \A i \in 1..Len(A[t]) : A[t][i].no \in (n + 1)..(n + k)
  <2>1. CASE t = c
    BY <2>1 DEF Increasing
  <2>2. CASE t # c
    BY <1>2, <2>2 DEF Increasing
  <2> QED
    BY <2>1, <2>2
<1>4. ASSUME NEW t \in Threads, NEW x, Has(A[t], x) PROVE t = c
  BY <1>2, <1>4 DEF Has
<1>5. ASSUME NEW x \in (n + 1)..(n + k) PROVE Has(A[c], x)
  <2>1. x - n \in 1..k /\ n + (x - n) = x
    OBVIOUS
  <2>2. A[c][x - n].no = x
    BY <2>1
  <2> QED
    BY <2>1, <2>2 DEF Has
<1>6. Len(A[Loop]) = 0 /\ Len(A[Listener]) = 0
  BY <1>1, <1>2
<1>7. \A x \in (n + 1)..(n + k) : \E t \in Threads : Has(A[t], x)
  BY <1>1, <1>5
<1>8. \A t, u \in Threads, x \in (n + 1)..(n + k) : Has(A[t], x) /\ Has(A[u], x) => t = u
  BY <1>4
<1>9. \A i \in 1..Len(A[Loop]) : A[Loop][i].kind = "connect"
  BY <1>6
<1>10. \A i \in 1..Len(A[Listener]) : A[Listener][i].kind # "connect"
  BY <1>6
<1> QED
  BY <1>3, <1>7, <1>8, <1>9, <1>10 DEF Flow

(* A payload without a connect message goes to the listening thread, ...   *)
LEMMA PayloadFlow ==
  ASSUME NEW n \in Nat, NEW k \in Nat, NEW A,
         Len(A[Listener]) = k,
         \A i \in 1..k : A[Listener][i].no = n + i /\ A[Listener][i].kind # "connect",
         \A t \in Threads \ {Listener} : A[t] = <<>>
  PROVE  Flow(A, n + 1, n + k)
<1> DEFINE c == Listener
<1>1. c \in Threads /\ Loop \in Threads \ {c}
  BY ThreadsDiffer
<1>2. \A t \in Threads \ {c} : Len(A[t]) = 0
  OBVIOUS
<1>3. ASSUME NEW t \in Threads
      PROVE  Increasing(A[t]) /\ \A i \in 1..Len(A[t]) : A[t][i].no \in (n + 1)..(n + k)
  <2>1. CASE t = c
    BY <2>1 DEF Increasing
  <2>2. CASE t # c
    BY <1>2, <2>2 DEF Increasing
  <2> QED
    BY <2>1, <2>2
<1>4. ASSUME NEW t \in Threads, NEW x, Has(A[t], x) PROVE t = c
  BY <1>2, <1>4 DEF Has
<1>5. ASSUME NEW x \in (n + 1)..(n + k) PROVE Has(A[c], x)
  <2>1. x - n \in 1..k /\ n + (x - n) = x
    OBVIOUS
  <2>2. A[c][x - n].no = x
    BY <2>1
  <2> QED
    BY <2>1, <2>2 DEF Has
<1>6. Len(A[Loop]) = 0
  BY <1>1, <1>2
<1>7. \A x \in (n + 1)..(n + k) : \E t \in Threads : Has(A[t], x)
  BY <1>1, <1>5
<1>8. \A t, u \in Threads, x \in (n + 1)..(n + k) : Has(A[t], x) /\ Has(A[u], x) => t = u
  BY <1>4
<1>9. \A i \in 1..Len(A[Loop]) : A[Loop][i].kind = "connect"
  BY <1>6
<1>10. \A i \in 1..Len(A[Listener]) : A[Listener][i].kind # "connect"
  OBVIOUS
<1> QED
  BY <1>3, <1>7, <1>8, <1>9, <1>10 DEF Flow

(* ... of one with connect messages the last of them goes to the receive   *)
(* thread.                                                                 *)
LEMMA ConnectFlow ==
  ASSUME NEW n \in Nat, NEW R, NEW msgs \in Seq(R), NEW k \in Connects(msgs), NEW A,
         \A i \in Connects(msgs) : i <= k,
         \A i \in 1..Len(msgs) : msgs[i].no = n + i /\ msgs[i].payload = n + 1,
         A[Loop] = <<msgs[k]>>, A[Listener] = RemoveAt(msgs, k),
         \A t \in Callers : A[t] = <<>>
  PROVE  Flow(A, n + 1, n + Len(msgs))
<1> DEFINE m == Len(msgs)
           r == RemoveAt(msgs, k)
<1>1. m \in Nat /\ k \in 1..m /\ msgs[k].kind = "connect"
  BY DEF Connects
<1>2. /\ Len(r) = m - 1
      /\ \A i \in 1..(m - 1) : r[i] = IF i < k THEN msgs[i] ELSE msgs[i + 1]
  BY <1>1, RemoveAtShape
<1>t. /\ Loop \in Threads /\ Listener \in Threads /\ Loop # Listener
      /\ \A t \in Threads : t = Loop \/ t = Listener \/ t \in Callers
  BY ThreadsDiffer DEF Threads, Senders
<1>3. ASSUME NEW i \in 1..(m - 1)
      PROVE  /\ r[i].no = IF i < k THEN n + i ELSE n + i + 1
             /\ r[i].payload = n + 1
             /\ r[i].kind = "connect" => i < k
  <2>1. CASE i < k
    <3>1. i \in 1..m /\ r[i] = msgs[i]
      BY <1>1, <1>2, <2>1
    <3> QED
      BY <2>1, <3>1
  <2>2. CASE ~(i < k)
    <3>1. i + 1 \in 1..m /\ r[i] = msgs[i + 1] /\ i + 1 > k
      BY <1>1, <1>2, <2>2
    <3>2. i + 1 \notin Connects(msgs)
      BY <1>1, <3>1 DEF Connects
    <3>3. r[i].kind # "connect"
      BY <3>1, <3>2 DEF Connects
    <3> QED
      BY <2>2, <3>1, <3>3
  <2> QED
    BY <2>1, <2>2
<1>4. /\ A[Listener] = r /\ Len(A[Listener]) = m - 1
      /\ Len(A[Loop]) = 1 /\ A[Loop][1] = msgs[k]
      /\ \A t \in Callers : Len(A[t]) = 0
  BY <1>2
<1>5. msgs[k].no = n + k /\ msgs[k].payload = n + 1
  BY <1>1
<1> HIDE DEF r
<1>6. ASSUME NEW t \in Threads
      PROVE  Increasing(A[t]) /\ \A i \in 1..Len(A[t]) : A[t][i].no \in (n + 1)..(n + m)
  <2>1. CASE t = Listener
    <3>1. \A i \in 1..(m - 1) : r[i].no \in (n + 1)..(n + m)
      BY <1>1, <1>3
    <3>2. ASSUME NEW i \in 1..(m - 1), NEW j \in 1..(m - 1), i < j PROVE r[i].no < r[j].no
      <4>1. CASE j < k
        BY <1>1, <1>3, <3>2, <4>1
      <4>2. CASE ~(j < k)
        <5>1. r[j].no = n + j + 1 /\ (r[i].no = n + i \/ r[i].no = n + i + 1)
          BY <1>1, <1>3, <4>2
        <5> QED
          BY <1>1, <3>2, <5>1
      <4> QED
        BY <4>1, <4>2
    <3> QED
      BY <1>4, <2>1, <3>1, <3>2 DEF Increasing
  <2>2. CASE t = Loop
    BY <1>1, <1>4, <1>5, <2>2 DEF Increasing
  <2>3. CASE t \in Callers
    BY <1>4, <2>3 DEF Increasing
  <2> QED
    BY <1>t, <2>1, <2>2, <2>3
<1>7. ASSUME NEW x
      PROVE  /\ Has(A[Loop], x) <=> x = n + k
             /\ Has(A[Listener], x) => x # n + k
             /\ \A t \in Callers : ~Has(A[t], x)
  <2>1. Has(A[Loop], x) <=> x = n + k
    BY <1>4, <1>5 DEF Has
  <2>2. Has(A[Listener], x) => x # n + k
    BY <1>1, <1>3, <1>4 DEF Has
  <2>3. \A t \in Callers : ~Has(A[t], x)
    BY <1>4 DEF Has
  <2> QED
    BY <2>1, <2>2, <2>3
<1>8. ASSUME NEW x \in (n + 1)..(n + m), x # n + k PROVE Has(A[Listener], x)
  <2>1. CASE x < n + k
    <3>1. x - n \in 1..(m - 1) /\ x - n < k /\ n + (x - n) = x
      BY <1>1, <2>1
    <3>2. r[x - n].no = x
      BY <1>3, <3>1
    <3> QED
      BY <1>4, <3>1, <3>2 DEF Has
  <2>2. CASE x > n + k
    <3>1. x - n - 1 \in 1..(m - 1) /\ ~(x - n - 1 < k) /\ n + (x - n - 1) + 1 = x
      BY <1>1, <2>2
    <3>2. r[x - n - 1].no = x
      BY <1>3, <3>1
    <3> QED
      BY <1>4, <3>1, <3>2 DEF Has
  <2> QED
    BY <1>1, <1>8, <2>1, <2>2
<1>9. \A x \in (n + 1)..(n + m) : \E t \in Threads : Has(A[t], x)
  BY <1>t, <1>7, <1>8
<1>10. \A t, u \in Threads, x \in (n + 1)..(n + m) : Has(A[t], x) /\ Has(A[u], x) => t = u
  BY <1>t, <1>7
<1>11. \A i \in 1..Len(A[Loop]) : A[Loop][i].kind = "connect"
  BY <1>1, <1>4
<1>12. ASSUME NEW i \in 1..Len(A[Listener]), A[Listener][i].kind = "connect"
       PROVE  \E j \in 1..Len(A[Loop]) :
         A[Loop][j].payload = A[Listener][i].payload /\ A[Loop][j].no > A[Listener][i].no
  <2>1. i \in 1..(m - 1) /\ i < k /\ A[Listener][i].no = n + i /\ A[Listener][i].payload = n + 1
    BY <1>3, <1>4, <1>12
  <2>2. 1 \in 1..Len(A[Loop]) /\ A[Loop][1].payload = n + 1 /\ A[Loop][1].no = n + k
    BY <1>4, <1>5
  <2>3. n + k > n + i
    BY <1>1, <2>1
  <2> QED
    BY <2>1, <2>2, <2>3
<1> QED
  BY <1>6, <1>9, <1>10, <1>11, <1>12 DEF Flow

(* What a caller gets is added to its stream.                              *)
LEMMA FlowOfAnswer ==
  ASSUME RInv, RInv', FlowInv, NEW c \in Callers, NEW kinds \in Seq(Kinds), Answer(c, kinds)
  PROVE  FlowInv'
<1> DEFINE msgs == Received(kinds)
           A == [t \in Threads |-> IF t = c THEN msgs ELSE <<>>]
<1>1. /\ c \in Threads /\ c # Loop /\ c # Listener /\ Loop \in Threads /\ Listener \in Threads
      /\ UNCHANGED <<exts, connect, inbox, handled>>
      /\ sent' = sent + Len(kinds) /\ sent \in Nat
      /\ batch'[c] = msgs /\ \A t \in Threads \ {c} : batch'[t] = batch[t]
      /\ batch[c] = <<>> /\ pc'[Loop] = pc[Loop]
  BY ThreadsDiffer DEF Answer, Goes, RInv, ReceiveTypes, ReceivePhases, SendingPhases
<1>2. /\ msgs \in Seq(Fresh') /\ Len(msgs) = Len(kinds) /\ Len(kinds) \in Nat
      /\ \A i \in 1..Len(kinds) : msgs[i].no = sent + i
      /\ sent <= sent'
  BY <1>1, ReceivedShape
<1>m. handled[c] \in Seq(Msg) /\ \A t \in Threads : Stream(t) \in Seq(Msg)
  BY <1>1, Typed DEF FlowTypes, Streams
<1>n. msgs \in Seq(Msg)
  <2>1. FlowTypes'
    BY Typed, PTL
  <2>2. batch' \in [Threads -> Seq(Msg)]
    BY <2>1 DEF FlowTypes, Msg, Marks
  <2> QED
    BY <1>1, <2>2
<1> HIDE DEF msgs
<1>3. A \in [Threads -> Seq(Msg)]
  <2>1. <<>> \in Seq(Msg)
    OBVIOUS
  <2> QED
    BY <1>n, <2>1
<1>4. A[c] = msgs /\ \A t \in Threads \ {c} : A[t] = <<>>
  BY <1>1
<1> HIDE DEF A
<1>5. \A t \in Threads : Stream(t)' = Stream(t) \o A[t]
  <2>1. ASSUME NEW t \in Threads \ {c} PROVE Stream(t)' = Stream(t)
    BY <1>1 DEF Stream, ToLoop, ToListener
  <2>2. \A t \in Threads \ {c} : Stream(t) \o <<>> = Stream(t)
    BY <1>m
  <2>3. Stream(c)' = Stream(c) \o A[c]
    <3>1. Stream(c) = handled[c] \o <<>> /\ Stream(c)' = handled[c] \o msgs
      BY <1>1 DEF Stream
    <3>2. handled[c] \o <<>> = handled[c]
      BY <1>m
    <3> QED
      BY <1>4, <3>1, <3>2
  <2>4. ASSUME NEW t \in Threads \ {c} PROVE Stream(t)' = Stream(t) \o A[t]
    BY <1>4, <2>1, <2>2
  <2> QED
    BY <2>3, <2>4
<1>6. Flow(A, sent + 1, sent')
  <2> DEFINE k == Len(kinds)
             n == sent
  <2>1. /\ n \in Nat /\ k \in Nat /\ Len(A[c]) = k
        /\ \A i \in 1..k : A[c][i].no = n + i
        /\ \A t \in Threads \ {c} : A[t] = <<>>
    BY <1>1, <1>2, <1>4
  <2> HIDE DEF k, n
  <2>2. Flow(A, n + 1, n + k)
    BY <2>1, AnswerFlow
  <2> QED
    BY <1>1, <2>2 DEF n, k
<1> QED
  BY <1>2, <1>3, <1>5, <1>6, StreamsGrow

(* What the receive thread gets is added to its stream and to that of the  *)
(* listening thread.                                                       *)
LEMMA FlowOfPayload ==
  ASSUME RInv, RInv', FlowInv, NEW kinds \in Seq(Kinds), pc[Loop] \in {"posting", "rebuilding"},
         pc'[Loop] = "pushing", sent' = sent + Len(kinds),
         ExtractConnect(Received(kinds)), UNCHANGED <<exts, inbox, handled>>
  PROVE  FlowInv'
<1> DEFINE msgs == Received(kinds)
           L == batch'[Loop]
           P == connect'
           A == [t \in Threads |-> IF t = Loop THEN P ELSE IF t = Listener THEN L ELSE <<>>]
<1>1. /\ Loop # Listener /\ Loop \in Threads /\ Listener \in Threads
      /\ Loop \notin Callers /\ Listener \notin Callers
      /\ sent \in Nat /\ batch[Loop] = <<>> /\ connect = <<>> /\ DOMAIN batch = Threads
  BY ThreadsDiffer DEF RInv, ReceiveTypes, ReceivePhases, SendingPhases
<1>2. /\ msgs \in Seq(Fresh') /\ Len(msgs) = Len(kinds) /\ Len(kinds) \in Nat
      /\ \A i \in 1..Len(kinds) : msgs[i].no = sent + i /\ msgs[i].payload = sent + 1
      /\ sent <= sent'
  BY <1>1, ReceivedShape
<1>m. /\ handled[Loop] \in Seq(Msg) /\ handled[Listener] \o batch[Listener] \o inbox \in Seq(Msg)
      /\ \A t \in Threads : Stream(t) \in Seq(Msg)
  <2>1. FlowTypes
    BY Typed
  <2>2. /\ handled[Loop] \in Seq(Msg) /\ handled[Listener] \in Seq(Msg)
        /\ batch[Listener] \in Seq(Msg) /\ inbox \in Seq(Msg)
    BY <1>1, <2>1 DEF FlowTypes
  <2>3. handled[Listener] \o batch[Listener] \in Seq(Msg)
    BY <2>2
  <2> QED
    BY <2>1, <2>2, <2>3, ConcatProperties DEF FlowTypes, Streams
<1>n. L \in Seq(Msg) /\ P \in Seq(Msg)
  <2>1. FlowTypes'
    BY Typed, PTL
  <2> QED
    BY <1>1, <2>1 DEF FlowTypes, Msg, Marks
<1>3. A \in [Threads -> Seq(Msg)]
  <2>1. <<>> \in Seq(Msg)
    OBVIOUS
  <2> HIDE DEF L, P
  <2> QED
    BY <1>n, <2>1
<1>4. A[Loop] = P /\ A[Listener] = L /\ \A t \in Threads \ {Loop, Listener} : A[t] = <<>>
  BY <1>1
<1>x. \/ Connects(msgs) = {} /\ L = msgs /\ P = <<>>
      \/ \E k \in Connects(msgs) :
           (\A i \in Connects(msgs) : i <= k) /\ L = RemoveAt(msgs, k) /\ P = <<msgs[k]>>
  <2> DEFINE S == Fresh'
  <2>1. msgs \in Seq(S) /\ Loop \in DOMAIN batch
    BY <1>1, <1>2
  <2> HIDE DEF msgs, S
  <2>2. \/ /\ Connects(msgs) = {} /\ batch' = [batch EXCEPT ![Loop] = msgs]
           /\ connect' = <<>>
        \/ \E k \in Connects(msgs) :
             /\ \A i \in Connects(msgs) : i <= k
             /\ batch' = [batch EXCEPT ![Loop] = RemoveAt(msgs, k)]
             /\ connect' = <<msgs[k]>>
    BY <2>1, ExtractShape DEF msgs
  <2> QED
    BY <1>1, <2>2
<1>5. \A t \in Threads \ {Loop} : batch'[t] = batch[t]
  BY <1>1 DEF ExtractConnect
<1> HIDE DEF msgs, A
<1>6. \A t \in Threads : Stream(t)' = Stream(t) \o A[t]
  <2>1. ASSUME NEW t \in Threads \ {Loop, Listener} PROVE Stream(t)' = Stream(t)
    BY <1>1, <1>5 DEF Stream
  <2>2. \A t \in Threads \ {Loop, Listener} : Stream(t) \o <<>> = Stream(t)
    BY <1>m
  <2>3. Stream(Loop)' = Stream(Loop) \o A[Loop]
    <3>1. Stream(Loop) = handled[Loop] \o <<>> /\ Stream(Loop)' = handled[Loop] \o P
      BY <1>1 DEF Stream, ToLoop
    <3>2. handled[Loop] \o <<>> = handled[Loop]
      BY <1>m
    <3> QED
      BY <1>4, <3>1, <3>2
  <2>4. Stream(Listener)' = Stream(Listener) \o A[Listener]
    <3> DEFINE q == handled[Listener] \o batch[Listener] \o inbox
    <3>1. Stream(Listener) = q \o <<>> /\ Stream(Listener)' = q \o L
      BY <1>1, <1>5 DEF Stream, ToListener
    <3>2. q \in Seq(Msg)
      BY <1>m
    <3> HIDE DEF q
    <3>3. q \o <<>> = q
      BY <3>2
    <3> QED
      BY <1>4, <3>1, <3>3
  <2> QED
    BY <1>4, <2>1, <2>2, <2>3, <2>4
<1>7. Flow(A, sent + 1, sent')
  <2> DEFINE n == sent
             m == Len(msgs)
  <2>1. /\ n \in Nat /\ m \in Nat /\ \A t \in Callers : A[t] = <<>>
        /\ \A i \in 1..m : msgs[i].no = n + i /\ msgs[i].payload = n + 1
    BY <1>1, <1>2, <1>4, ThreadsDiffer
  <2>2. CASE Connects(msgs) = {} /\ L = msgs /\ P = <<>>
    <3>1. \A i \in 1..m : msgs[i].kind # "connect"
      BY <2>2 DEF Connects
    <3>2. /\ Len(A[Listener]) = m
          /\ \A i \in 1..m : A[Listener][i].no = n + i /\ A[Listener][i].kind # "connect"
          /\ \A t \in Threads \ {Listener} : A[t] = <<>>
      BY <1>4, <2>1, <2>2, <3>1
    <3> HIDE DEF n, m
    <3>3. Flow(A, n + 1, n + m)
      BY <2>1, <3>2, PayloadFlow
    <3> QED
      BY <1>2, <3>3 DEF n, m
  <2>3. ASSUME NEW k \in Connects(msgs), \A i \in Connects(msgs) : i <= k,
               L = RemoveAt(msgs, k), P = <<msgs[k]>>
        PROVE  Flow(A, sent + 1, sent')
    <3> DEFINE R == Fresh'
    <3>1. msgs \in Seq(R) /\ A[Loop] = <<msgs[k]>> /\ A[Listener] = RemoveAt(msgs, k)
      BY <1>2, <1>4, <2>3
    <3> HIDE DEF R, n
    <3>2. Flow(A, n + 1, n + Len(msgs))
      BY <2>1, <2>3, <3>1, ConnectFlow
    <3> QED
      BY <1>2, <3>2 DEF n
  <2> QED
    BY <1>x, <2>2, <2>3
<1> QED
  BY <1>2, <1>3, <1>6, <1>7, StreamsGrow

(* At first the streams are empty.                                         *)
LEMMA FlowInit == Init => FlowInv
<1> SUFFICES ASSUME Init PROVE FlowInv
  OBVIOUS
<1>1. /\ handled = [t \in Threads |-> <<>>] /\ batch = [t \in Threads |-> <<>>]
      /\ inbox = <<>> /\ connect = <<>> /\ sent = 0
      /\ Loop \in Threads /\ Listener \in Threads
  BY ThreadsDiffer DEF Init
<1>2. <<>> \o <<>> = <<>>
  OBVIOUS
<1>3. \A t \in Threads : Streams[t] = <<>>
  BY <1>1, <1>2 DEF Streams, Stream, ToLoop, ToListener
<1>4. \A t \in Threads : Len(Streams[t]) = 0
  BY <1>3
<1>5. \A t \in Threads : Increasing(Streams[t])
  BY <1>4 DEF Increasing
<1>6. 1..sent = {}
  BY <1>1
<1> QED
  BY <1>1, <1>4, <1>5, <1>6 DEF FlowInv, Flow

(* Every step of Next                                                      *)
LEMMA FlowNext ==
  ASSUME SInv, RInv, FlowInv, [Next]_vars, RInv'
  PROVE  FlowInv'
<1>t. /\ Loop \in Threads /\ DOMAIN pc = Threads /\ \A t \in Callers : t # Loop /\ t \in Threads
      /\ Listener # Loop /\ Senders \subseteq Threads
  BY ThreadsDiffer DEF RInv, ReceivePhases
<1>p. Payloads \subseteq Seq(Kinds)
  BY MessagesAssumption DEF Payloads, SeqOf
<1>1. CASE \/ \E e \in Exts : ExtAdd(e) \/ ExtRemove(e)
           \/ \E t \in Senders : Begin(t)
           \/ \E t \in Callers : Build(t) \/ SendMsgSync(t) \/ NoAnswer(t)
           \/ BuildConnect \/ NoAnswerToConnect \/ ProcessNull \/ UNCHANGED vars
  <2>1. UNCHANGED receiving /\ (pc'[Loop] = "pushing" <=> pc[Loop] = "pushing")
    BY <1>t, <1>1 DEF ExtAdd, ExtRemove, Begin, Build, SendMsgSync, NoAnswer, BuildConnect,
                      NoAnswerToConnect, ProcessNull, vars, Goes
  <2> QED
    BY <2>1, FlowIdles
<1>2. CASE \E t \in Callers, kinds \in Payloads : Answer(t, kinds)
  BY <1>p, <1>2, FlowOfAnswer
<1>3. ASSUME NEW kinds \in Payloads, AnswerConnect(kinds) PROVE FlowInv'
  <2>1. /\ kinds \in Seq(Kinds) /\ pc[Loop] \in {"posting", "rebuilding"}
        /\ pc'[Loop] = "pushing" /\ sent' = sent + Len(kinds)
        /\ ExtractConnect(Received(kinds)) /\ UNCHANGED <<exts, inbox, handled>>
    BY <1>t, <1>p, <1>3 DEF AnswerConnect, Goes
  <2> QED
    BY <2>1, FlowOfPayload
<1>4. CASE BuildBadConnect
  <2> DEFINE bad == <<"connect">>
  <2>1. /\ bad \in Seq(Kinds) /\ pc[Loop] \in {"posting", "rebuilding"}
        /\ pc'[Loop] = "pushing" /\ sent' = sent + Len(bad)
        /\ ExtractConnect(Received(bad)) /\ UNCHANGED <<exts, inbox, handled>>
    BY <1>t, <1>4 DEF BuildBadConnect, Goes, Kinds
  <2> HIDE DEF bad
  <2> QED
    BY <2>1, FlowOfPayload
<1>5. CASE PushMsg \/ PushEnds
  BY <1>5, FlowOfPush
<1>6. CASE TakeMsg
  BY <1>6, FlowOfTake
<1>7. CASE \E t \in Threads : Process(t)
  BY <1>7, FlowOfProcess
<1> QED
  BY <1>1, <1>2, <1>3, <1>4, <1>5, <1>6, <1>7, ThreadsDiffer
  DEF Next, CallerStep, LoopStep, ListenStep

(* No number comes twice.                                                  *)
Once(msgs) == \A i, j \in 1..Len(msgs) : msgs[i].no = msgs[j].no => i = j

(* A number that a list has once, or not at all, counts for one or nothing. *)
LEMMA CountOnce ==
  ASSUME NEW R, NEW msgs \in Seq(R), Once(msgs), NEW n
  PROVE  Count(msgs, n) = IF Has(msgs, n) THEN 1 ELSE 0
<1> DEFINE P == {i \in 1..Len(msgs) : msgs[i].no = n}
<1>1. CASE Has(msgs, n)
  <2>1. PICK i \in 1..Len(msgs) : msgs[i].no = n
    BY <1>1 DEF Has
  <2>2. P = {i}
    BY <2>1 DEF Once
  <2>3. Cardinality({i}) = 1
    BY FS_Singleton
  <2> QED
    BY <1>1, <2>2, <2>3 DEF Count
<1>2. CASE ~Has(msgs, n)
  <2>1. P = {}
    BY <1>2 DEF Has
  <2>2. Cardinality({}) = 0
    BY FS_EmptySet
  <2> QED
    BY <1>2, <2>1, <2>2 DEF Count
<1> QED
  BY <1>1, <1>2

(* Lists without a number in common, put together                          *)
LEMMA OnceConcat ==
  ASSUME NEW R, NEW s \in Seq(R), NEW r \in Seq(R)
  PROVE  Once(s \o r) <=> /\ Once(s) /\ Once(r)
                          /\ \A n : ~(Has(s, n) /\ Has(r, n))
<1> DEFINE q == s \o r
<1>1. /\ Len(s) \in Nat /\ Len(r) \in Nat /\ Len(q) = Len(s) + Len(r)
      /\ \A i \in 1..Len(s) : q[i] = s[i]
      /\ \A i \in 1..Len(r) : q[Len(s) + i] = r[i]
  OBVIOUS
<1> DEFINE a == Len(s)
           b == Len(r)
<1>2. ASSUME Once(q)
      PROVE  Once(s) /\ Once(r) /\ \A n : ~(Has(s, n) /\ Has(r, n))
  <2>1. Once(s)
    BY <1>1, <1>2 DEF Once
  <2>2. Once(r)
    <3> SUFFICES ASSUME NEW i \in 1..b, NEW j \in 1..b, r[i].no = r[j].no PROVE i = j
      BY DEF Once
    <3>1. a + i \in 1..Len(q) /\ a + j \in 1..Len(q) /\ q[a + i].no = q[a + j].no
      BY <1>1
    <3>2. a + i = a + j
      BY <1>2, <3>1 DEF Once
    <3> QED
      BY <1>1, <3>2
  <2>3. ASSUME NEW n, Has(s, n), Has(r, n) PROVE FALSE
    <3>1. PICK i \in 1..a : s[i].no = n
      BY <2>3 DEF Has
    <3>2. PICK j \in 1..b : r[j].no = n
      BY <2>3 DEF Has
    <3>3. i \in 1..Len(q) /\ a + j \in 1..Len(q) /\ q[i].no = q[a + j].no /\ i # a + j
      BY <1>1, <3>1, <3>2
    <3> QED
      BY <1>2, <3>3 DEF Once
  <2> QED
    BY <2>1, <2>2, <2>3
<1>3. ASSUME Once(s), Once(r), \A n : ~(Has(s, n) /\ Has(r, n))
      PROVE  Once(q)
  <2> SUFFICES ASSUME NEW i \in 1..Len(q), NEW j \in 1..Len(q), q[i].no = q[j].no PROVE i = j
    BY DEF Once
  <2>1. ASSUME NEW k \in 1..Len(q), k > a PROVE k - a \in 1..b /\ q[k] = r[k - a]
    <3>1. k - a \in 1..b /\ k = a + (k - a)
      BY <1>1, <2>1
    <3> QED
      BY <1>1, <3>1
  <2>2. CASE i <= a /\ j <= a
    BY <1>1, <1>3, <2>2 DEF Once
  <2>3. CASE i > a /\ j > a
    <3>1. i - a = j - a
      BY <1>3, <2>1, <2>3 DEF Once
    <3> QED
      BY <1>1, <3>1
  <2>4. CASE i <= a /\ j > a
    <3>1. Has(s, q[i].no) /\ Has(r, q[i].no)
      BY <1>1, <2>1, <2>4 DEF Has
    <3> QED
      BY <1>3, <3>1
  <2>5. CASE i > a /\ j <= a
    <3>1. Has(s, q[i].no) /\ Has(r, q[i].no)
      BY <1>1, <2>1, <2>5 DEF Has
    <3> QED
      BY <1>3, <3>1
  <2> QED
    BY <1>1, <2>2, <2>3, <2>4, <2>5
<1> QED
  BY <1>2, <1>3

(* Increasing numbers do not repeat.                                       *)
LEMMA IncreasingOnce ==
  ASSUME NEW R, NEW s \in Seq(R), Increasing(s), \A i \in 1..Len(s) : s[i].no \in Int
  PROVE  Once(s)
<1> SUFFICES ASSUME NEW i \in 1..Len(s), NEW j \in 1..Len(s), s[i].no = s[j].no, i # j
             PROVE  FALSE
  BY DEF Once
<1>1. i < j \/ j < i
  OBVIOUS
<1>2. s[i].no < s[j].no \/ s[j].no < s[i].no
  BY <1>1 DEF Increasing
<1> QED
  BY <1>2

(* The streams, cut into the places where a message can be                 *)
Own(t) == handled[t] \o batch[t]
Common == inbox \o connect

(* No message is in two streams, or twice in one.                          *)
LEMMA Apart ==
  ASSUME RInv, FlowInv
  PROVE  /\ \A t \in Threads : Once(Stream(t)) /\ Stream(t) \in Seq(Msg)
         /\ \A t, u \in Threads : \A n : Has(Stream(t), n) /\ Has(Stream(u), n) => t = u
         /\ \A n \in 1..sent : \E t \in Threads : Has(Stream(t), n)
<1>1. \A t \in Threads : Streams[t] = Stream(t) /\ Stream(t) \in Seq(Msg)
  BY Typed, StreamValues DEF FlowTypes
<1>2. \A t \in Threads :
        Increasing(Stream(t)) /\ \A i \in 1..Len(Stream(t)) : Stream(t)[i].no \in 1..sent
  BY <1>1 DEF FlowInv, Flow
<1>3. ASSUME NEW t \in Threads PROVE Once(Stream(t))
  <2> DEFINE s == Stream(t)
  <2>1. s \in Seq(Msg) /\ Increasing(s) /\ \A i \in 1..Len(s) : s[i].no \in Int
    BY <1>1, <1>2 DEF RInv, ReceiveTypes
  <2> HIDE DEF s
  <2>2. Once(s)
    BY <2>1, IncreasingOnce
  <2> QED
    BY <2>2 DEF s
<1>4. ASSUME NEW t \in Threads, NEW u \in Threads, NEW n, Has(Stream(t), n), Has(Stream(u), n)
      PROVE  t = u
  <2>1. n \in 1..sent
    BY <1>2, <1>4 DEF Has
  <2> QED
    BY <1>1, <1>4, <2>1 DEF FlowInv, Flow
<1>5. \A n \in 1..sent : \E t \in Threads : Has(Stream(t), n)
  BY <1>1 DEF FlowInv, Flow
<1> QED
  BY <1>1, <1>3, <1>4, <1>5

(* So it is in one of the places that EveryMessageHasOnePlace counts.      *)
LEMMA Places ==
  ASSUME RInv, FlowInv
  PROVE  /\ \A t \in Threads : Own(t) \in Seq(Msg) /\ Once(Own(t))
         /\ Common \in Seq(Msg) /\ Once(Common)
         /\ \A n \in 1..sent :
              \/ Has(Common, n) /\ \A t \in Threads : ~Has(Own(t), n)
              \/ /\ ~Has(Common, n)
                 /\ \E t \in Threads : Has(Own(t), n) /\ \A u \in Threads \ {t} : ~Has(Own(u), n)
<1> DEFINE h == handled[Loop]
           b == batch[Loop]
           o == Own(Listener)
           pushed == IF pc[Loop] = "pushing" THEN b ELSE <<>>
           kept == IF pc[Loop] = "pushing" THEN connect ELSE b
<1>t. /\ Loop \in Threads /\ Listener \in Threads /\ Loop # Listener
      /\ \A t \in Callers : t \in Threads /\ t # Loop /\ t # Listener
      /\ \A t \in Threads : t = Loop \/ t = Listener \/ t \in Callers
  BY ThreadsDiffer DEF Threads, Senders
<1>m. /\ h \in Seq(Msg) /\ b \in Seq(Msg) /\ inbox \in Seq(Msg) /\ connect \in Seq(Msg)
      /\ \A t \in Threads : Own(t) \in Seq(Msg)
  <2>1. FlowTypes
    BY Typed
  <2>2. \A t \in Threads : handled[t] \in Seq(Msg) /\ batch[t] \in Seq(Msg)
    BY <2>1 DEF FlowTypes
  <2> QED
    BY <1>t, <2>1, <2>2, ConcatProperties DEF FlowTypes, Own
<1>1. Stream(Listener) = o \o inbox \o pushed /\ Stream(Loop) = h \o kept /\ Own(Loop) = h \o b
  BY <1>t DEF Stream, ToListener, ToLoop, Own
<1>2. \A t \in Callers : Stream(t) = Own(t)
  BY <1>t DEF Stream, Own
<1>3. /\ o \in Seq(Msg) /\ o \o inbox \in Seq(Msg) /\ pushed \in Seq(Msg) /\ kept \in Seq(Msg)
      /\ Common \in Seq(Msg)
  <2>1. <<>> \in Seq(Msg)
    OBVIOUS
  <2>2. o \in Seq(Msg) /\ pushed \in Seq(Msg) /\ kept \in Seq(Msg)
    BY <1>t, <1>m, <2>1
  <2> QED
    BY <1>m, <2>2, ConcatProperties DEF Common
<1>4. IF pc[Loop] = "pushing" THEN pushed = b /\ kept = connect
      ELSE pushed = <<>> /\ kept = b /\ connect = <<>>
  BY DEF RInv, ReceivePhases
<1> HIDE DEF h, b, o, pushed, kept
<1>5. \A n : ~Has(<<>>, n)
  BY DEF Has
(* Who has what *)
<1>6. ASSUME NEW n
      PROVE  /\ Has(Stream(Listener), n) <=> Has(o, n) \/ Has(inbox, n) \/ Has(pushed, n)
             /\ Has(Stream(Loop), n) <=> Has(h, n) \/ Has(kept, n)
             /\ Has(Own(Loop), n) <=> Has(h, n) \/ Has(b, n)
             /\ Has(Common, n) <=> Has(inbox, n) \/ Has(connect, n)
  <2>1. Has(o \o inbox \o pushed, n) <=> Has(o \o inbox, n) \/ Has(pushed, n)
    BY <1>3, HasInConcat
  <2>2. Has(o \o inbox, n) <=> Has(o, n) \/ Has(inbox, n)
    BY <1>m, <1>3, HasInConcat
  <2>3. Has(h \o kept, n) <=> Has(h, n) \/ Has(kept, n)
    BY <1>m, <1>3, HasInConcat
  <2>4. Has(h \o b, n) <=> Has(h, n) \/ Has(b, n)
    BY <1>m, HasInConcat
  <2>5. Has(inbox \o connect, n) <=> Has(inbox, n) \/ Has(connect, n)
    BY <1>m, HasInConcat
  <2> QED
    BY <1>1, <2>1, <2>2, <2>3, <2>4, <2>5 DEF Common
<1>7. /\ \A t \in Threads : Once(Stream(t))
      /\ \A t, u \in Threads : \A n : Has(Stream(t), n) /\ Has(Stream(u), n) => t = u
      /\ \A n \in 1..sent : \E t \in Threads : Has(Stream(t), n)
  BY Apart
<1>8. /\ Once(o) /\ Once(inbox) /\ Once(pushed) /\ Once(h) /\ Once(kept)
      /\ \A n : ~(Has(o, n) /\ Has(inbox, n))
      /\ \A n : ~((Has(o, n) \/ Has(inbox, n)) /\ Has(pushed, n))
      /\ \A n : ~(Has(h, n) /\ Has(kept, n))
  <2>1. Once(o \o inbox \o pushed) /\ Once(h \o kept)
    BY <1>t, <1>1, <1>7
  <2>2. Once(o \o inbox) /\ Once(pushed) /\ \A n : ~(Has(o \o inbox, n) /\ Has(pushed, n))
    BY <1>3, <2>1, OnceConcat
  <2>3. Once(o) /\ Once(inbox) /\ \A n : ~(Has(o, n) /\ Has(inbox, n))
    BY <1>m, <1>3, <2>2, OnceConcat
  <2>4. Once(h) /\ Once(kept) /\ \A n : ~(Has(h, n) /\ Has(kept, n))
    BY <1>m, <1>3, <2>1, OnceConcat
  <2>5. \A n : Has(o \o inbox, n) <=> Has(o, n) \/ Has(inbox, n)
    BY <1>m, <1>3, HasInConcat
  <2> QED
    BY <2>2, <2>3, <2>4, <2>5
<1>9. \A n : ~((Has(o, n) \/ Has(inbox, n) \/ Has(pushed, n)) /\ (Has(h, n) \/ Has(kept, n)))
  BY <1>t, <1>6, <1>7
<1>10. Once(Own(Loop)) /\ Once(Common)
  <2>1. CASE pc[Loop] = "pushing"
    <3>1. pushed = b /\ kept = connect
      BY <1>4, <2>1
    <3>2. Once(h \o b)
      BY <1>m, <1>8, <1>9, <3>1, OnceConcat
    <3>3. Once(inbox \o connect)
      BY <1>m, <1>8, <1>9, <3>1, OnceConcat
    <3> QED
      BY <1>1, <3>2, <3>3 DEF Common
  <2>2. CASE pc[Loop] # "pushing"
    <3>1. kept = b /\ connect = <<>>
      BY <1>4, <2>2
    <3>2. Once(h \o b)
      BY <1>m, <1>8, <3>1, OnceConcat
    <3>3. Once(connect)
      BY <3>1 DEF Once
    <3>4. Once(inbox \o connect)
      BY <1>m, <1>5, <1>8, <3>1, <3>3, OnceConcat
    <3> QED
      BY <1>1, <3>2, <3>4 DEF Common
  <2> QED
    BY <2>1, <2>2
<1>11. Own(Listener) = o /\ \A t \in Threads : Once(Own(t))
  <2>1. Own(Listener) = o
    BY DEF o
  <2> QED
    BY <1>t, <1>2, <1>7, <1>8, <1>10, <2>1
<1>12. ASSUME NEW n \in 1..sent
       PROVE  \/ Has(Common, n) /\ \A t \in Threads : ~Has(Own(t), n)
              \/ /\ ~Has(Common, n)
                 /\ \E t \in Threads : Has(Own(t), n) /\ \A u \in Threads \ {t} : ~Has(Own(u), n)
  <2>1. PICK t \in Threads : Has(Stream(t), n)
    BY <1>7
  <2>2. \A u \in Threads \ {t} : ~Has(Stream(u), n)
    BY <1>7, <2>1
  <2>3. Has(pushed, n) <=> pc[Loop] = "pushing" /\ Has(b, n)
    BY <1>4, <1>5
  <2>4. IF pc[Loop] = "pushing" THEN Has(kept, n) <=> Has(connect, n)
        ELSE (Has(kept, n) <=> Has(b, n)) /\ ~Has(connect, n)
    BY <1>4, <1>5
  <2>5. \A u \in Callers : Has(Own(u), n) <=> Has(Stream(u), n)
    BY <1>2
  <2>6. /\ Has(Stream(Listener), n) <=> Has(o, n) \/ Has(inbox, n) \/ Has(pushed, n)
        /\ Has(Stream(Loop), n) <=> Has(h, n) \/ Has(kept, n)
        /\ Has(Own(Loop), n) <=> Has(h, n) \/ Has(b, n)
        /\ Has(Common, n) <=> Has(inbox, n) \/ Has(connect, n)
    BY <1>6
  <2>7. Has(Own(Listener), n) <=> Has(o, n)
    BY <1>11
  <2>8. CASE t \in Callers
    <3>1. ~Has(Stream(Listener), n) /\ ~Has(Stream(Loop), n)
      BY <1>t, <2>2, <2>8
    <3>2. ~Has(Own(Listener), n) /\ ~Has(Own(Loop), n) /\ ~Has(Common, n)
      BY <2>3, <2>4, <2>6, <2>7, <3>1
    <3>3. Has(Own(t), n) /\ \A u \in Threads \ {t} : ~Has(Own(u), n)
      BY <1>t, <2>1, <2>2, <2>5, <2>8, <3>2
    <3> QED
      BY <3>2, <3>3
  <2>9. CASE t = Listener
    <3>1. ~Has(Stream(Loop), n) /\ \A u \in Callers : ~Has(Own(u), n)
      BY <1>t, <2>2, <2>5, <2>9
    <3>2. /\ ~(Has(o, n) /\ Has(inbox, n))
          /\ ~((Has(o, n) \/ Has(inbox, n)) /\ Has(pushed, n))
      BY <1>8
    <3>3. CASE Has(o, n)
      BY <1>t, <2>3, <2>4, <2>6, <2>7, <3>1, <3>2, <3>3
    <3>4. CASE Has(inbox, n)
      BY <1>t, <2>3, <2>4, <2>6, <2>7, <3>1, <3>2, <3>4
    <3>5. CASE Has(pushed, n)
      BY <1>t, <2>3, <2>4, <2>6, <2>7, <3>1, <3>2, <3>5
    <3> QED
      BY <2>1, <2>6, <2>9, <3>3, <3>4, <3>5
  <2>10. CASE t = Loop
    <3>1. ~Has(Stream(Listener), n) /\ \A u \in Callers : ~Has(Own(u), n)
      BY <1>t, <2>2, <2>5, <2>10
    <3>2. ~(Has(h, n) /\ Has(kept, n))
      BY <1>8
    <3>3. CASE Has(h, n)
      BY <1>t, <2>3, <2>4, <2>6, <2>7, <3>1, <3>2, <3>3
    <3>4. CASE Has(kept, n)
      BY <1>t, <2>3, <2>4, <2>6, <2>7, <3>1, <3>2, <3>4
    <3> QED
      BY <2>1, <2>6, <2>10, <3>3, <3>4
  <2> QED
    BY <1>t, <2>8, <2>9, <2>10
<1> QED
  BY <1>m, <1>3, <1>10, <1>11, <1>12

(* The inductive invariant of all this                                     *)
FlowsInv == SInv /\ RInv /\ FlowInv

(* It holds throughout.                                                    *)
LEMMA FlowsInvariant == Spec => []FlowsInv
<1>1. Init => FlowsInv
  BY SendInit, ReceiveInit, FlowInit DEF FlowsInv
<1>2. FlowsInv /\ [Next]_vars => FlowsInv'
  BY FlowStep, FlowNext DEF FlowsInv
<1> QED
  BY <1>1, <1>2, PTL DEF Spec

(* Every variable keeps its type, whatever the extensions, callers and     *)
(* payloads.                                                               *)
THEOREM TypeCorrect == Spec => []TypeOK
<1>1. FlowsInv => TypeOK
  <2> SUFFICES ASSUME FlowsInv PROVE TypeOK
    OBVIOUS
  <2>1. SInv /\ RInv
    BY DEF FlowsInv
  <2>2. /\ exts \in Marks
        /\ seed \in 0..Len(ids) /\ ids \in Seq(1..Len(ids)) /\ raced \in BOOLEAN
        /\ requests \in 0..MaxRequests
        /\ seen \in [Senders -> 0..Len(ids)]
        /\ message \in [Senders -> [id : 0..Len(ids), marks : Marks]]
        /\ outgoing \in [Senders -> [id : 0..Len(ids), marks : Marks]]
    BY <2>1 DEF SInv, SendTypes, Ids, Given
  <2>3. ASSUME NEW t \in Senders, NEW i \in 1..Len(posted[t])
        PROVE  posted[t][i].id \in 1..Len(ids)
    <3>1. posted[t] \in Seq(Ready(t))
      BY <2>1 DEF SInv, SendTypes, PostedTypes
    <3>2. posted[t][i] \in Ready(t)
      BY <3>1, ElementOfSeq
    <3> QED
      BY <3>2 DEF Ready, Given
  <2>4. pc \in [Threads -> {"idle", "building", "built", "posting", "rebuilding",
                            "pushing", "processing", "firing"}]
    <3>1. SendingPhases \cup Handling = {"idle", "building", "built", "posting", "rebuilding",
                                         "pushing", "processing", "firing"}
      BY DEF SendingPhases, Handling
    <3> QED
      BY <2>1, <3>1 DEF RInv, ReceivePhases
  <2>5. Seq(Fresh) \subseteq Seq(Reception) /\ Seq(Shown) \subseteq Seq(Reception)
    BY SeqMonotonic DEF Fresh, Shown
  <2>6. /\ batch \in [Threads -> Seq(Reception)]
        /\ connect \in Seq(Reception) /\ Len(connect) <= 1
        /\ inbox \in Seq(Reception)
        /\ handled \in [Threads -> Seq(Reception)]
    BY <2>1, <2>5 DEF RInv, ReceiveTypes
  <2> QED
    BY <2>2, <2>3, <2>4, <2>6 DEF TypeOK
<1> QED
  BY <1>1, FlowsInvariant, PTL

(* No message is lost and none is handled twice, whatever the threads and  *)
(* the payloads.                                                           *)
THEOREM OnePlace == Spec => []EveryMessageHasOnePlace
<1>1. FlowsInv => EveryMessageHasOnePlace
  <2> SUFFICES ASSUME FlowsInv, NEW n \in 1..sent
               PROVE  \/ /\ Count(Common, n) = 1
                         /\ \A t \in Threads : Count(Own(t), n) = 0
                      \/ /\ Count(Common, n) = 0
                         /\ \E t \in Threads : /\ Count(Own(t), n) = 1
                                               /\ \A u \in Threads \ {t} : Count(Own(u), n) = 0
    BY DEF EveryMessageHasOnePlace, Own, Common
  <2>1. /\ \A t \in Threads : Own(t) \in Seq(Msg) /\ Once(Own(t))
        /\ Common \in Seq(Msg) /\ Once(Common)
        /\ \/ Has(Common, n) /\ \A t \in Threads : ~Has(Own(t), n)
           \/ /\ ~Has(Common, n)
              /\ \E t \in Threads : Has(Own(t), n) /\ \A u \in Threads \ {t} : ~Has(Own(u), n)
    BY Places DEF FlowsInv
  <2>2. Count(Common, n) = IF Has(Common, n) THEN 1 ELSE 0
    BY <2>1, CountOnce
  <2>3. \A t \in Threads : Count(Own(t), n) = IF Has(Own(t), n) THEN 1 ELSE 0
    BY <2>1, CountOnce
  <2> QED
    BY <2>1, <2>2, <2>3
<1> QED
  BY <1>1, FlowsInvariant, PTL

(* Each payload's last connect message goes to the receive thread, all the *)
(* rest to the listening thread in the order received.                     *)
THEOREM Split == Spec => []PayloadsAreSplit
<1>1. FlowsInv => PayloadsAreSplit
  <2> SUFFICES ASSUME FlowsInv PROVE PayloadsAreSplit
    OBVIOUS
  <2>1. Flow(Streams, 1, sent) /\ Loop \in Threads /\ Listener \in Threads
    BY ThreadsDiffer DEF FlowsInv, FlowInv
  <2>2. Streams[Loop] = ToLoop /\ Streams[Listener] = ToListener
    BY StreamValues
  <2>3. Increasing(ToListener)
    BY <2>1, <2>2 DEF Flow
  <2> QED
    BY <2>1, <2>2, <2>3 DEF Flow, Increasing, PayloadsAreSplit
<1> QED
  BY <1>1, FlowsInvariant, PTL

(* A message that reaches the listeners, and one that a caller posts, has  *)
(* been seen by every extension of its direction, once and in its turn.    *)
THEOREM ExtensionsShown == Spec => []ExtensionsSeeEachMessage
<1>1. FlowsInv => ExtensionsSeeEachMessage
  <2> SUFFICES ASSUME FlowsInv PROVE ExtensionsSeeEachMessage
    OBVIOUS
  <2>1. handled \in [Threads -> Seq(Shown)] /\ PostedTypes
    BY DEF FlowsInv, RInv, ReceiveTypes, SInv, SendTypes
  <2>2. ASSUME NEW t \in Threads, NEW i \in 1..Len(handled[t])
        PROVE  ShownTo(Incoming, handled[t][i].marks)
    <3>1. handled[t] \in Seq(Shown)
      BY <2>1
    <3>2. handled[t][i] \in Shown
      BY <3>1
    <3> QED
      BY <3>2 DEF Shown
  <2>3. ASSUME NEW t \in Senders, NEW i \in 1..Len(posted[t])
        PROVE  IF t = Loop THEN posted[t][i].marks = <<>>
               ELSE ShownTo(Outgoing, posted[t][i].marks)
    <3>1. posted[t] \in Seq(Ready(t))
      BY <2>1 DEF PostedTypes
    <3>2. posted[t][i] \in Ready(t)
      BY <3>1, ElementOfSeq
    <3> QED
      BY <3>2 DEF Ready
  <2> QED
    BY <2>2, <2>3, ThreadsDiffer DEF ExtensionsSeeEachMessage
<1> QED
  BY <1>1, FlowsInvariant, PTL

=============================================================================
