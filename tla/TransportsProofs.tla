-------------------------- MODULE TransportsProofs --------------------------
(***************************************************************************)
(* Proofs about the registry and the negotiation of Transports, for any    *)
(* addresses, names, numbers of transports and replies of the server: the  *)
(* order of the registry decides what a name finds, what every name of a   *)
(* reply finds decides the negotiation, and a count of the transports of a *)
(* name relates an offer to what is left of it.                            *)
(***************************************************************************)
EXTENDS Transports, SequenceLemmas

IInv == TypeOK /\ NewestFirst

(* cometd_new's list of one.                                               *)
LEMMA InitInvariant == Init => IInv
<1> SUFFICES ASSUME NEW a \in Addresses,
                    /\ registry = <<a>>
                    /\ nameOf = [b \in Addresses |-> IF b = a THEN Builtin ELSE NULL]
                    /\ registered = 1
                    /\ born = [b \in Addresses |-> IF b = a THEN 1 ELSE 0]
                    /\ current = NULL
                    /\ offer = NoOffer
                    /\ gone = NoneGone
             PROVE  IInv
  BY DEF Init
<1>1. registry \in Seq(Addresses) /\ Len(registry) = 1 /\ registry[1] = a
  OBVIOUS
<1>2. TypeOK
  BY <1>1, TransportsAssumption DEF TypeOK, NoneGone
<1>3. NewestFirst
  BY <1>1, TransportsAssumption DEF NewestFirst, NULL
<1> QED
  BY <1>2, <1>3 DEF IInv

(* A transport that is found is in the registry, at one place.             *)
LEMMA FoundOnce ==
  ASSUME IInv, NEW name \in Names, FindTransport(name) # NULL
  PROVE  \E k \in 1..Len(registry) :
           /\ registry[k] = FindTransport(name)
           /\ \A i \in 1..Len(registry) : registry[i] = registry[k] => i = k
<1>1. Len(registry) \in Nat /\ \A i \in 1..Len(registry) : registry[i] \in Addresses
  BY DEF IInv, TypeOK
<1>2. Named(name) \in SUBSET (1..Len(registry)) /\ Named(name) # {}
  BY DEF FindTransport, Named
<1>3. Min(Named(name)) \in 1..Len(registry)
  BY <1>1, <1>2, MinOfPositions
<1>4. ASSUME NEW k \in 1..Len(registry), NEW i \in 1..Len(registry),
             registry[i] = registry[k]
      PROVE  i = k
  BY <1>1, <1>4 DEF IInv, NewestFirst, TypeOK
<1> QED
  BY <1>2, <1>3, <1>4 DEF FindTransport

LEMMA RegisterStep ==
  ASSUME IInv, NEW a \in Addresses, NEW name \in Names, RegisterTransport(a, name)
  PROVE  IInv'
<1> DEFINE n == Len(registry)
<1>1. /\ registry' \in Seq(Addresses) /\ n \in Nat /\ Len(registry') = n + 1
      /\ registry'[1] = a
      /\ \A i \in 1..n : registry'[i + 1] = registry[i]
  BY PrependShape DEF RegisterTransport, IInv, TypeOK
<1>2. /\ registered' = registered + 1 /\ registered' \in 1..MaxRegistered
      /\ nameOf' = [nameOf EXCEPT ![a] = name]
      /\ born' = [born EXCEPT ![a] = registered + 1]
      /\ UNCHANGED <<current, offer, gone>> /\ nameOf[a] = NULL /\ name # NULL
  BY TransportsAssumption DEF RegisterTransport, IInv, TypeOK, NULL
<1>3. TypeOK'
  BY <1>1, <1>2, TransportsAssumption DEF IInv, TypeOK
<1>4. \A i \in 1..n : registry[i] \in Addresses /\ registry[i] # a
  BY <1>2 DEF IInv, TypeOK, NewestFirst
<1>5. ASSUME NEW j \in 1..(n + 1), j # 1
      PROVE  j - 1 \in 1..n /\ registry'[j] = registry[j - 1]
  <2>1. j - 1 \in 1..n /\ (j - 1) + 1 = j
    BY <1>1, <1>5
  <2> QED
    BY <1>1, <2>1
<1>6. ASSUME NEW b \in Addresses
      PROVE  nameOf'[b] # NULL <=> \E i \in 1..(n + 1) : registry'[i] = b
  <2>1. CASE b = a
    BY <1>1, <1>2, <2>1 DEF IInv, TypeOK
  <2>2. CASE b # a
    <3>1. nameOf'[b] = nameOf[b]
      BY <1>2, <2>2 DEF IInv, TypeOK
    <3>2. (\E i \in 1..(n + 1) : registry'[i] = b) <=> \E i \in 1..n : registry[i] = b
      <4>1. ASSUME NEW i \in 1..(n + 1), registry'[i] = b
            PROVE  \E m \in 1..n : registry[m] = b
        BY <1>1, <1>5, <2>2, <4>1
      <4>2. ASSUME NEW i \in 1..n, registry[i] = b
            PROVE  \E m \in 1..(n + 1) : registry'[m] = b
        <5>1. i + 1 \in 1..(n + 1)
          BY <1>1
        <5> QED
          BY <1>1, <4>2, <5>1
      <4> QED
        BY <4>1, <4>2
    <3> QED
      BY <3>1, <3>2 DEF IInv, NewestFirst
  <2> QED
    BY <2>1, <2>2
<1>7. ASSUME NEW i \in 1..(n + 1), NEW j \in 1..(n + 1), i < j
      PROVE  born'[registry'[i]] > born'[registry'[j]]
  <2>1. j # 1 /\ j - 1 \in 1..n /\ registry'[j] = registry[j - 1]
    BY <1>1, <1>5, <1>7
  <2>2. born'[registry'[j]] = born[registry[j - 1]] /\ born[registry[j - 1]] \in 0..registered
    BY <1>2, <1>4, <2>1 DEF IInv, TypeOK
  <2>3. CASE i = 1
    BY <1>1, <1>2, <2>2, <2>3 DEF IInv, TypeOK
  <2>4. CASE i # 1
    <3>1. i - 1 \in 1..n /\ registry'[i] = registry[i - 1] /\ i - 1 < j - 1
      BY <1>1, <1>5, <1>7, <2>4
    <3>2. born'[registry'[i]] = born[registry[i - 1]]
      BY <1>2, <1>4, <3>1 DEF IInv, TypeOK
    <3> QED
      BY <2>1, <2>2, <3>1, <3>2 DEF IInv, NewestFirst
  <2> QED
    BY <2>3, <2>4
<1> QED
  BY <1>1, <1>3, <1>6, <1>7 DEF IInv, NewestFirst

LEMMA UnregisterStep ==
  ASSUME IInv, NEW name \in Names, UnregisterTransport(name)
  PROVE  IInv'
<1> DEFINE n == Len(registry)
           t == FindTransport(name)
<1>1. PICK k \in 1..n : /\ registry[k] = t
                        /\ \A i \in 1..n : registry[i] = t => i = k
  BY FoundOnce DEF UnregisterTransport
<1>2. /\ registry' \in Seq(Addresses) /\ n \in Nat /\ Len(registry') = n - 1
      /\ \A i \in 1..(n - 1) : registry'[i] = IF i < k THEN registry[i] ELSE registry[i + 1]
  <2>1. registry \in Seq(Addresses) /\ n \in Nat /\ registry' = RemoveFirst(registry, t)
    BY DEF UnregisterTransport, IInv, TypeOK
  <2>2. \A i \in 1..n : registry[i] = t => i = k
    BY <1>1
  <2> HIDE DEF t
  <2> QED
    BY <1>1, <2>1, <2>2, RemoveShape
<1>3. /\ nameOf' = [nameOf EXCEPT ![t] = NULL]
      /\ gone' = IF offer = NoOffer THEN gone ELSE [gone EXCEPT ![name] = @ + 1]
      /\ UNCHANGED <<registered, born, current, offer>>
      /\ t \in Addresses
  BY <1>1 DEF UnregisterTransport, Counted, IInv, TypeOK
<1> HIDE DEF t
<1>4. TypeOK'
  BY <1>2, <1>3 DEF IInv, TypeOK
<1> DEFINE at(i) == IF i < k THEN i ELSE i + 1
<1>5. ASSUME NEW i \in 1..(n - 1)
      PROVE  at(i) \in 1..n /\ at(i) # k /\ registry'[i] = registry[at(i)]
  BY <1>1, <1>2
<1>6. ASSUME NEW b \in Addresses
      PROVE  nameOf'[b] # NULL <=> \E i \in 1..(n - 1) : registry'[i] = b
  <2>1. CASE b = t
    <3>1. nameOf'[b] = NULL
      BY <1>3, <2>1 DEF IInv, TypeOK
    <3>2. \A i \in 1..(n - 1) : registry'[i] # b
      BY <1>1, <1>5, <2>1
    <3> QED
      BY <3>1, <3>2
  <2>2. CASE b # t
    <3>1. nameOf'[b] = nameOf[b]
      BY <1>3, <2>2 DEF IInv, TypeOK
    <3>2. ASSUME NEW i \in 1..(n - 1), registry'[i] = b
          PROVE  \E m \in 1..n : registry[m] = b
      BY <1>5, <3>2
    <3>3. ASSUME NEW m \in 1..n, registry[m] = b
          PROVE  \E i \in 1..(n - 1) : registry'[i] = b
      <4>1. m # k
        BY <1>1, <2>2, <3>3
      <4> DEFINE i == IF m < k THEN m ELSE m - 1
      <4>2. i \in 1..(n - 1) /\ at(i) = m
        BY <1>1, <1>2, <4>1
      <4> HIDE DEF i
      <4> QED
        BY <1>5, <3>3, <4>2
    <3> QED
      BY <3>1, <3>2, <3>3 DEF IInv, NewestFirst
  <2> QED
    BY <2>1, <2>2
<1>7. ASSUME NEW i \in 1..(n - 1), NEW j \in 1..(n - 1), i < j
      PROVE  born'[registry'[i]] > born'[registry'[j]]
  <2>1. at(i) < at(j)
    BY <1>1, <1>2, <1>7
  <2> HIDE DEF at
  <2> QED
    BY <1>3, <1>5, <2>1 DEF IInv, NewestFirst
<1> QED
  BY <1>2, <1>4, <1>6, <1>7 DEF IInv, NewestFirst

(* The names on offer are those of transports that are not freed.          *)
LEMMA OfferStep == ASSUME IInv, OfferTransports PROVE IInv'
<1>1. Len(registry) \in Nat /\ \A i \in 1..Len(registry) : registry[i] \in Addresses
  BY DEF IInv, TypeOK
<1>2. \A i \in 1..Len(registry) : nameOf[registry[i]] \in Names
  BY <1>1 DEF IInv, TypeOK, NewestFirst
<1>3. offer' \in Seq(Names)
  BY <1>1, <1>2 DEF OfferTransports
<1> QED
  BY <1>3 DEF OfferTransports, IInv, TypeOK, NewestFirst, NoneGone

(***************************************************************************)
(* Negotiation                                                             *)
(***************************************************************************)

(* What the search of the registry finds: the newest transport of a name,  *)
(* if one has it.                                                          *)
LEMMA FindShape ==
  ASSUME IInv, NEW name, name # NULL
  PROVE  /\ FindTransport(name) = NULL <=> \A a \in Addresses : nameOf[a] # name
         /\ FindTransport(name) # NULL =>
              /\ FindTransport(name) \in Addresses
              /\ nameOf[FindTransport(name)] = name
              /\ \A a \in Addresses : nameOf[a] = name => born[a] <= born[FindTransport(name)]
<1>1. /\ Len(registry) \in Nat
      /\ \A i \in 1..Len(registry) : registry[i] \in Addresses
      /\ \A a \in Addresses : nameOf[a] = name => \E i \in 1..Len(registry) : registry[i] = a
      /\ \A i, j \in 1..Len(registry) : i < j => born[registry[i]] > born[registry[j]]
      /\ \A a \in Addresses : born[a] \in Int /\ a # NULL
  BY TransportsAssumption DEF IInv, TypeOK, NewestFirst, NULL
<1>2. CASE Named(name) = {}
  <2>1. \A a \in Addresses : nameOf[a] # name
    BY <1>1, <1>2 DEF Named
  <2> QED
    BY <1>2, <2>1 DEF FindTransport
<1>3. CASE Named(name) # {}
  <2> DEFINE k == Min(Named(name))
  <2>1. Named(name) \in SUBSET (1..Len(registry))
    BY DEF Named
  <2>2. k \in Named(name) /\ \A i \in Named(name) : k <= i
    BY <1>1, <1>3, <2>1, MinOfPositions
  <2>3. FindTransport(name) = registry[k]
    BY <1>3 DEF FindTransport
  <2> HIDE DEF k
  <2>4. k \in 1..Len(registry) /\ nameOf[registry[k]] = name
    BY <2>2 DEF Named
  <2>5. ASSUME NEW a \in Addresses, nameOf[a] = name PROVE born[a] <= born[registry[k]]
    <3>1. PICK i \in 1..Len(registry) : registry[i] = a
      BY <1>1, <2>5
    <3>2. k <= i
      BY <2>2, <2>5, <3>1 DEF Named
    <3>3. k = i \/ k < i
      BY <1>1, <2>4, <3>2
    <3> QED
      BY <1>1, <2>4, <3>1, <3>3
  <2> QED
    BY <1>1, <2>3, <2>4, <2>5
<1> QED
  BY <1>2, <1>3

(* The walk that keeps the latest value of a list that is not NULL.        *)
KeepsLatest(V, N, found) ==
  \E f \in [0..N -> V] :
    f[0] = NULL /\ \A n \in 1..N :
      f[n] = IF found[n] # NULL THEN found[n] ELSE f[n - 1]

LEMMA LatestOf ==
  ASSUME NEW V, NULL \in V, NEW N \in Nat, NEW found \in [1..N -> V]
  PROVE  KeepsLatest(V, N, found)
<1> DEFINE step == [n \in 1..N |-> [t \in V |-> IF found[n] # NULL THEN found[n] ELSE t]]
           base == NULL
<1>1. N \in Nat /\ base \in V /\ step \in Steps(V, N)
  BY DEF Steps
<1> HIDE DEF step, base
<1>2. PICK f \in [0..N -> V] : f[0] = base /\ \A n \in 1..N : f[n] = step[n][f[n - 1]]
  <2>1. Walked(V, base, N, step)
    BY <1>1, WalkExists
  <2> QED
    BY <2>1 DEF Walked
<1>3. ASSUME NEW n \in 1..N
      PROVE  f[n] = IF found[n] # NULL THEN found[n] ELSE f[n - 1]
  <2>1. n - 1 \in 0..N /\ f[n - 1] \in V
    OBVIOUS
  <2> QED
    BY <1>2, <2>1 DEF step
<1> QED
  BY <1>2, <1>3 DEF base, KeepsLatest

(* The last type of a list for which there is a transport, if there is     *)
(* one, decides.                                                           *)
Decided(types, n, t) ==
  /\ t = NULL <=> \A i \in 1..n : FindTransport(types[i]) = NULL
  /\ t # NULL => \E i \in 1..n : /\ t = FindTransport(types[i])
                                 /\ \A j \in 1..n : j > i => FindTransport(types[j]) = NULL

LEMMA NegotiateShape ==
  ASSUME IInv, NEW S, NULL \notin S, NEW types \in Seq(S)
  PROVE  Decided(types, Len(types), Negotiate(types))
<1> DEFINE N == Len(types)
           at(n) == FindTransport(types[n])
           V == Addresses \cup {NULL}
<1>1. N \in Nat /\ \A n \in 1..N : types[n] # NULL
  BY ElementOfSeq
<1>2. \A n \in 1..N : at(n) \in V
  BY <1>1, FindShape
<1>3. PICK f \in [0..N -> V] : f[0] = NULL /\ \A n \in 1..N :
           f[n] = IF at(n) # NULL THEN at(n) ELSE f[n - 1]
  <2> DEFINE found == [n \in 1..N |-> at(n)]
  <2>1. found \in [1..N -> V] /\ NULL \in V
    <3> HIDE DEF at
    <3> QED
      BY <1>2
  <2> HIDE DEF found, N, V
  <2>2. N \in Nat /\ NULL \in V /\ found \in [1..N -> V]
    BY <1>1, <2>1 DEF N
  <2>3. KeepsLatest(V, N, found)
    BY <2>2, LatestOf
  <2>4. \A n \in 1..N : found[n] = at(n)
    BY DEF found
  <2> HIDE DEF at
  <2> QED
    BY <2>3, <2>4 DEF KeepsLatest
<1> HIDE DEF V
<1>4. ASSUME NEW n \in 1..N PROVE f[n] = IF at(n) # NULL THEN at(n) ELSE f[n - 1]
  <2>1. n - 1 \in 0..N /\ f[n - 1] \in V
    BY <1>1
  <2> QED
    BY <1>3, <2>1
<1>5. f = [n \in 0..N |-> IF n = 0 THEN NULL
                          ELSE IF FindTransport(types[n]) # NULL THEN FindTransport(types[n])
                          ELSE f[n - 1]]
  <2> DEFINE g == [n \in 0..N |-> IF n = 0 THEN NULL
                          ELSE IF FindTransport(types[n]) # NULL THEN FindTransport(types[n])
                          ELSE f[n - 1]]
  <2>1. ASSUME NEW n \in 0..N PROVE f[n] = g[n]
    <3>1. CASE n = 0
      BY <1>3, <3>1
    <3>2. CASE n # 0
      <4>1. n \in 1..N
        BY <1>1, <3>2
      <4> QED
        BY <1>4, <3>2, <4>1
    <3> QED
      BY <3>1, <3>2
  <2> QED
    BY <2>1
<1> DEFINE found[n \in 0..N] ==
             IF n = 0 THEN NULL
             ELSE IF FindTransport(types[n]) # NULL THEN FindTransport(types[n])
             ELSE found[n - 1]
<1>6. found = [n \in 0..N |-> IF n = 0 THEN NULL
                          ELSE IF FindTransport(types[n]) # NULL THEN FindTransport(types[n])
                          ELSE found[n - 1]]
  BY <1>5
<1>7. Negotiate(types) = found[N]
  BY DEF Negotiate
<1> HIDE DEF found
<1>8. found[0] = NULL
  BY <1>1, <1>6
<1>9. ASSUME NEW n \in 1..N PROVE found[n] = IF at(n) # NULL THEN at(n) ELSE found[n - 1]
  <2>1. n \in 0..N /\ n # 0
    BY <1>1
  <2> QED
    BY <1>6, <2>1
<1> DEFINE T == {n \in Nat : n <= N => Decided(types, n, found[n])}
<1>10. 0 \in T
  BY <1>8 DEF Decided
<1>11. ASSUME NEW n \in Nat, n \in T, n + 1 <= N PROVE Decided(types, n + 1, found[n + 1])
  <2>1. n + 1 \in 1..N /\ (n + 1) - 1 = n /\ n <= N
    BY <1>1, <1>11
  <2>2. Decided(types, n, found[n])
    BY <1>11, <2>1
  <2>3. \A i \in 1..(n + 1) : i \in 1..n \/ i = n + 1
    OBVIOUS
  <2>4. 1..n \subseteq 1..(n + 1) /\ n + 1 \in 1..(n + 1)
    OBVIOUS
  <2>5. CASE at(n + 1) # NULL
    <3>1. found[n + 1] = at(n + 1)
      BY <1>9, <2>1, <2>5
    <3>2. \A j \in 1..(n + 1) : ~(j > n + 1)
      OBVIOUS
    <3> QED
      BY <2>4, <2>5, <3>1, <3>2 DEF Decided
  <2>6. CASE at(n + 1) = NULL
    <3>1. found[n + 1] = found[n]
      BY <1>9, <2>1, <2>6
    <3>2. found[n] = NULL <=> \A i \in 1..(n + 1) : FindTransport(types[i]) = NULL
      BY <2>2, <2>3, <2>4, <2>6 DEF Decided
    <3>3. ASSUME found[n] # NULL
          PROVE  \E i \in 1..(n + 1) :
                   /\ found[n] = FindTransport(types[i])
                   /\ \A j \in 1..(n + 1) : j > i => FindTransport(types[j]) = NULL
      <4>1. PICK i \in 1..n : /\ found[n] = FindTransport(types[i])
                              /\ \A j \in 1..n : j > i => FindTransport(types[j]) = NULL
        BY <2>2, <3>3 DEF Decided
      <4>2. \A j \in 1..(n + 1) : j > i => FindTransport(types[j]) = NULL
        BY <2>3, <2>6, <4>1
      <4> QED
        BY <2>4, <4>1, <4>2
    <3> QED
      BY <3>1, <3>2, <3>3 DEF Decided
  <2> QED
    BY <2>5, <2>6
<1>12. N \in T
  <2>1. \A n \in Nat : n \in T => n + 1 \in T
    BY <1>1, <1>11
  <2> HIDE DEF T
  <2> QED
    BY <1>1, <1>10, <2>1, SetInduction
<1> QED
  BY <1>1, <1>7, <1>12

(* What negotiation comes to                                               *)
LEMMA Negotiated ==
  ASSUME IInv, NEW S, NULL \notin S, NEW types \in Seq(S)
  PROVE  LET common == {i \in 1..Len(types) : \E a \in Addresses : nameOf[a] = types[i]}
             t == Negotiate(types)
         IN  /\ t = NULL <=> common = {}
             /\ common # {} =>
                  /\ t \in Addresses /\ nameOf[t] = types[Max(common)]
                  /\ \A a \in Addresses : nameOf[a] = nameOf[t] => born[a] <= born[t]
<1> DEFINE common == {i \in 1..Len(types) : \E a \in Addresses : nameOf[a] = types[i]}
           t == Negotiate(types)
           N == Len(types)
<1>1. N \in Nat /\ \A i \in 1..N : types[i] # NULL
  BY ElementOfSeq
<1>2. Decided(types, N, t)
  BY NegotiateShape
<1>3. \A i \in 1..N : i \in common <=> FindTransport(types[i]) # NULL
  BY <1>1, FindShape
<1>4. t = NULL <=> common = {}
  BY <1>2, <1>3 DEF Decided
<1>5. ASSUME common # {}
      PROVE  /\ t \in Addresses /\ nameOf[t] = types[Max(common)]
             /\ \A a \in Addresses : nameOf[a] = nameOf[t] => born[a] <= born[t]
  <2> HIDE DEF t
  <2>1. PICK i \in 1..N : /\ t = FindTransport(types[i])
                          /\ \A j \in 1..N : j > i => FindTransport(types[j]) = NULL
    BY <1>2, <1>4, <1>5 DEF Decided
  <2>2. i \in common /\ \A j \in common : ~(j > i)
    BY <1>3, <1>4, <1>5, <2>1
  <2>3. Max(common) \in common /\ \A j \in common : j <= Max(common)
    <3>1. common \in SUBSET (1..N)
      OBVIOUS
    <3> HIDE DEF common
    <3> QED
      BY <1>1, <1>5, <3>1, MaxOfPositions
  <2>4. Max(common) = i
    <3> DEFINE k == Max(common)
    <3>1. k \in 1..N /\ i <= k /\ ~(k > i)
      BY <2>2, <2>3
    <3> HIDE DEF k
    <3>2. k = i
      BY <1>1, <3>1
    <3> QED
      BY <3>2 DEF k
  <2>5. /\ t \in Addresses /\ nameOf[t] = types[i]
        /\ \A a \in Addresses : nameOf[a] = types[i] => born[a] <= born[t]
    BY <1>1, <1>4, <1>5, <2>1, FindShape
  <2> QED
    BY <2>4, <2>5
<1> QED
  BY <1>4, <1>5

LEMMA RepliesShape == /\ NULL \notin ServerTypes /\ NULL \notin Names
                      /\ \A types \in Replies : types \in Seq(ServerTypes)
BY TransportsAssumption DEF Replies, SeqOf, NULL

(* What a reply leads to is a transport, or nothing new.                   *)
LEMMA HandshakeStep ==
  ASSUME IInv, NEW types \in Replies, ProcessHandshake(types) PROVE IInv'
<1> DEFINE t == Negotiate(types)
<1>1. types \in Seq(ServerTypes) /\ NULL \notin ServerTypes
  BY RepliesShape
<1>2. t # NULL => t \in Addresses
  BY <1>1, Negotiated
<1> HIDE DEF t
<1>3. current' = IF t # NULL THEN t ELSE current
  BY DEF ProcessHandshake, t
<1>4. current' \in Addresses \cup {NULL}
  BY <1>2, <1>3 DEF IInv, TypeOK
<1> QED
  BY <1>4 DEF ProcessHandshake, IInv, TypeOK, NewestFirst, NoneGone

LEMMA NextInvariant == IInv /\ [Next]_vars => IInv'
<1> SUFFICES ASSUME IInv, [Next]_vars PROVE IInv'
  OBVIOUS
<1>1. CASE UNCHANGED vars
  BY <1>1 DEF vars, IInv, TypeOK, NewestFirst
<1> QED
  BY <1>1, RegisterStep, UnregisterStep, OfferStep, HandshakeStep DEF Next

LEMMA Invariance == Spec => []IInv
BY InitInvariant, NextInvariant, PTL DEF Spec

(* The registry of transports is what its users take it to be: it lists    *)
(* every transport that is not freed, once, the newest first, also with    *)
(* several of one name.                                                    *)
THEOREM RegistryIsConsistent == Spec => [](TypeOK /\ NewestFirst)
<1>1. IInv => TypeOK /\ NewestFirst
  BY DEF IInv
<1> QED
  BY <1>1, Invariance, PTL

(***************************************************************************)
(* Unregistering                                                           *)
(***************************************************************************)

(* The step that frees a transport frees the newest of its name.           *)
LEMMA FreedByName ==
  ASSUME IInv, NEW name \in Names, UnregisterTransport(name)
  PROVE  /\ FindTransport(name) \in Addresses
         /\ nameOf[FindTransport(name)] = name
         /\ \A a \in Addresses : nameOf[a] = name => born[a] <= born[FindTransport(name)]
         /\ nameOf' = [nameOf EXCEPT ![FindTransport(name)] = NULL]
<1>1. name # NULL
  BY TransportsAssumption DEF NULL
<1> QED
  BY <1>1, FindShape DEF UnregisterTransport

(* No two transports are the same registration.                            *)
LEMMA BornOnce ==
  ASSUME IInv, NEW a \in Addresses, NEW b \in Addresses, a # b,
         nameOf[a] # NULL, nameOf[b] # NULL
  PROVE  born[a] # born[b]
<1>1. PICK i \in 1..Len(registry), j \in 1..Len(registry) : registry[i] = a /\ registry[j] = b
  BY DEF IInv, NewestFirst
<1>2. Len(registry) \in Nat /\ i # j
  BY <1>1 DEF IInv, TypeOK
<1>3. i < j \/ j < i
  BY <1>2
<1>4. born[a] \in Int /\ born[b] \in Int
  BY DEF IInv, TypeOK
<1> QED
  BY <1>1, <1>3, <1>4 DEF IInv, NewestFirst

(* Of the transports of a name the newest is freed first, whoever uses it. *)
THEOREM NewestFreedFirst == Spec => OnlyTheNewestIsFreed
<1> DEFINE Freed(a) ==
             nameOf[a] # NULL /\ nameOf'[a] # nameOf[a] =>
               /\ nameOf'[a] = NULL
               /\ \A b \in Addresses \ {a} :
                    /\ nameOf'[b] = nameOf[b]
                    /\ nameOf[b] = nameOf[a] => born[b] < born[a]
           A == \A a \in Addresses : Freed(a)
<1>1. ASSUME IInv, [Next]_vars PROVE [A]_vars
  <2>1. nameOf \in [Addresses -> Names \cup {NULL}] /\ born \in [Addresses -> Int]
        /\ NULL \notin Names
    BY <1>1, TransportsAssumption DEF IInv, TypeOK, NULL
  <2>2. ASSUME NEW a \in Addresses, NEW name \in Names, RegisterTransport(a, name)
        PROVE  A
    BY <2>1, <2>2 DEF RegisterTransport
  <2>3. ASSUME NEW name \in Names, UnregisterTransport(name), NEW a \in Addresses,
               nameOf[a] # NULL, nameOf'[a] # nameOf[a]
        PROVE  /\ nameOf'[a] = NULL
               /\ \A b \in Addresses \ {a} :
                    /\ nameOf'[b] = nameOf[b]
                    /\ nameOf[b] = nameOf[a] => born[b] < born[a]
    <3> DEFINE t == FindTransport(name)
    <3>1. /\ t \in Addresses /\ nameOf[t] = name
          /\ \A b \in Addresses : nameOf[b] = name => born[b] <= born[t]
          /\ nameOf' = [nameOf EXCEPT ![t] = NULL]
      BY <1>1, <2>3, FreedByName
    <3> HIDE DEF t
    <3>2. a = t
      BY <2>1, <2>3, <3>1
    <3>3. ASSUME NEW b \in Addresses \ {a}
          PROVE  /\ nameOf'[b] = nameOf[b]
                 /\ nameOf[b] = nameOf[a] => born[b] < born[a]
      <4>1. nameOf[b] # NULL => born[b] # born[a]
        BY <1>1, <2>3, BornOnce
      <4> QED
        BY <2>1, <2>3, <3>1, <3>2, <4>1
    <3> QED
      BY <2>1, <3>1, <3>2, <3>3
  <2>4. CASE nameOf' = nameOf
    BY <2>4
  <2>5. OfferTransports => nameOf' = nameOf
    BY DEF OfferTransports
  <2>6. \A types \in Replies : ProcessHandshake(types) => nameOf' = nameOf
    BY DEF ProcessHandshake
  <2> QED
    BY <1>1, <2>2, <2>3, <2>4, <2>5, <2>6 DEF Next
<1>2. [][A]_vars => OnlyTheNewestIsFreed
  BY PTL DEF OnlyTheNewestIsFreed
<1> QED
  BY <1>1, <1>2, Invariance, PTL DEF Spec

(***************************************************************************)
(* The offer of a handshake                                                *)
(***************************************************************************)

HeldBy(name) == {a \in Addresses : nameOf[a] = name}

LEMMA HeldIsFinite ==
  \A name : IsFiniteSet(HeldBy(name)) /\ Cardinality(HeldBy(name)) \in Nat
<1> TAKE name
<1>1. HeldBy(name) \in SUBSET Addresses
  BY DEF HeldBy
<1> QED
  BY <1>1, TransportsAssumption, FS_Subset, FS_CardinalityType

(* Of the transports of a name that were on offer as many are left as have *)
(* not been unregistered.                                                  *)
OfferCount ==
  offer # NoOffer =>
    \A name \in Names :
      Cardinality(OfferedAs(name)) <= Cardinality(HeldBy(name)) + gone[name]

LEMMA OfferedIsFinite ==
  ASSUME IInv, offer # NoOffer, NEW name
  PROVE  IsFiniteSet(OfferedAs(name)) /\ Cardinality(OfferedAs(name)) \in Nat
<1>1. Len(offer) \in Nat
  BY DEF IInv, TypeOK
<1>2. OfferedAs(name) \in SUBSET (1..Len(offer)) /\ IsFiniteSet(1..Len(offer))
  BY <1>1, FS_Interval DEF OfferedAs
<1> QED
  BY <1>2, FS_Subset, FS_CardinalityType

(* Every name is offered as often as it has transports.                    *)
LEMMA CountsWhenOffered ==
  ASSUME IInv, OfferTransports, NEW name \in Names
  PROVE  Cardinality(OfferedAs(name)') <= Cardinality(HeldBy(name)')
<1> DEFINE n == Len(registry)
<1>1. /\ n \in Nat /\ \A i \in 1..n : registry[i] \in Addresses
      /\ offer' = [i \in 1..n |-> nameOf[registry[i]]] /\ nameOf' = nameOf
  BY DEF IInv, TypeOK, OfferTransports
<1>2. Len(offer') = n
  BY <1>1
<1>3. \A i, j \in 1..n : registry[i] = registry[j] => i = j
  <2> SUFFICES ASSUME NEW i \in 1..n, NEW j \in 1..n, i # j PROVE registry[i] # registry[j]
    OBVIOUS
  <2>1. i < j \/ j < i
    BY <1>1
  <2>2. born[registry[i]] \in Int /\ born[registry[j]] \in Int
    BY <1>1 DEF IInv, TypeOK
  <2> QED
    BY <2>1, <2>2 DEF IInv, NewestFirst
<1> DEFINE S == OfferedAs(name)'
           T == HeldBy(name)'
           f == [i \in S |-> registry[i]]
<1>4. S = {i \in 1..n : nameOf[registry[i]] = name} /\ T = HeldBy(name)
  BY <1>1, <1>2 DEF OfferedAs, HeldBy
<1>5. f \in Injection(S, T)
  <2>1. f \in [S -> T]
    BY <1>1, <1>4 DEF HeldBy
  <2>2. \A i, j \in S : f[i] = f[j] => i = j
    BY <1>3, <1>4
  <2> HIDE DEF S, T, f
  <2> QED
    BY <2>1, <2>2 DEF Injection, IsInjective
<1>6. IsFiniteSet(T)
  BY <1>4, HeldIsFinite
<1> HIDE DEF S, T, f
<1>7. Cardinality(S) <= Cardinality(T)
  BY <1>5, <1>6, FS_Injection
<1> QED
  BY <1>7 DEF S, T

LEMMA CountStep == IInv /\ OfferCount /\ [Next]_vars => OfferCount'
<1> SUFFICES ASSUME IInv, OfferCount, [Next]_vars PROVE OfferCount'
  OBVIOUS
<1>1. /\ nameOf \in [Addresses -> Names \cup {NULL}] /\ NULL \notin Names
      /\ gone \in [Names -> Nat]
  BY TransportsAssumption DEF IInv, TypeOK, NULL
<1>2. ASSUME NEW a \in Addresses, NEW name \in Names, RegisterTransport(a, name)
      PROVE  OfferCount'
  <2>1. /\ nameOf[a] = NULL /\ nameOf' = [nameOf EXCEPT ![a] = name]
        /\ UNCHANGED <<offer, gone>>
    BY <1>2 DEF RegisterTransport
  <2> SUFFICES ASSUME offer # NoOffer, NEW m \in Names
               PROVE  Cardinality(OfferedAs(m)') <= Cardinality(HeldBy(m)') + gone'[m]
    BY <2>1 DEF OfferCount
  <2>2. OfferedAs(m)' = OfferedAs(m) /\ gone'[m] = gone[m]
    BY <2>1 DEF OfferedAs
  <2>3. HeldBy(m) \in SUBSET HeldBy(m)'
    BY <1>1, <2>1 DEF HeldBy
  <2>4. IsFiniteSet(HeldBy(m)') /\ Cardinality(HeldBy(m)') \in Nat
    <3>1. HeldBy(m)' \in SUBSET Addresses
      BY DEF HeldBy
    <3> QED
      BY <3>1, TransportsAssumption, FS_Subset, FS_CardinalityType
  <2>5. Cardinality(HeldBy(m)) <= Cardinality(HeldBy(m)')
    BY <2>3, <2>4, FS_Subset
  <2>6. Cardinality(OfferedAs(m)) <= Cardinality(HeldBy(m)) + gone[m]
    BY DEF OfferCount
  <2>7. /\ Cardinality(OfferedAs(m)) \in Nat /\ Cardinality(HeldBy(m)) \in Nat
        /\ gone[m] \in Nat
    BY <1>1, OfferedIsFinite, HeldIsFinite
  <2> QED
    BY <2>2, <2>4, <2>5, <2>6, <2>7
<1>3. ASSUME NEW name \in Names, UnregisterTransport(name)
      PROVE  OfferCount'
  <2> DEFINE t == FindTransport(name)
  <2>1. /\ t \in Addresses /\ nameOf[t] = name /\ nameOf' = [nameOf EXCEPT ![t] = NULL]
    BY <1>3, FreedByName
  <2>2. offer' = offer /\ gone' = IF offer = NoOffer THEN gone ELSE [gone EXCEPT ![name] = @ + 1]
    BY <1>3 DEF UnregisterTransport, Counted
  <2> HIDE DEF t
  <2> SUFFICES ASSUME offer # NoOffer, NEW m \in Names
               PROVE  Cardinality(OfferedAs(m)') <= Cardinality(HeldBy(m)') + gone'[m]
    BY <2>2 DEF OfferCount
  <2>3. OfferedAs(m)' = OfferedAs(m)
    BY <2>2 DEF OfferedAs
  <2>4. Cardinality(OfferedAs(m)) <= Cardinality(HeldBy(m)) + gone[m]
    BY DEF OfferCount
  <2>5. /\ Cardinality(OfferedAs(m)) \in Nat /\ Cardinality(HeldBy(m)) \in Nat
        /\ gone[m] \in Nat /\ IsFiniteSet(HeldBy(m))
    BY <1>1, OfferedIsFinite, HeldIsFinite
  <2>6. CASE m = name
    <3>1. HeldBy(m)' = HeldBy(m) \ {t} /\ t \in HeldBy(m)
      BY <1>1, <2>1, <2>6 DEF HeldBy
    <3>2. Cardinality(HeldBy(m)') = Cardinality(HeldBy(m)) - 1
      BY <2>5, <3>1, FS_RemoveElement
    <3>3. gone'[m] = gone[m] + 1
      BY <1>1, <2>2, <2>6
    <3> QED
      BY <2>3, <2>4, <2>5, <3>2, <3>3
  <2>7. CASE m # name
    <3>1. HeldBy(m)' = HeldBy(m)
      BY <1>1, <2>1, <2>7 DEF HeldBy
    <3>2. gone'[m] = gone[m]
      BY <1>1, <2>2, <2>7
    <3> QED
      BY <2>3, <2>4, <3>1, <3>2
  <2> QED
    BY <2>6, <2>7
<1>4. CASE OfferTransports
  <2> SUFFICES ASSUME NEW m \in Names
               PROVE  Cardinality(OfferedAs(m)') <= Cardinality(HeldBy(m)') + gone'[m]
    BY DEF OfferCount
  <2>1. gone'[m] = 0 /\ nameOf' = nameOf
    BY <1>4 DEF OfferTransports, NoneGone
  <2>2. HeldBy(m)' = HeldBy(m)
    BY <2>1 DEF HeldBy
  <2>3. Cardinality(HeldBy(m)') \in Nat
    BY <2>2, HeldIsFinite
  <2>4. Cardinality(OfferedAs(m)') <= Cardinality(HeldBy(m)')
    BY <1>4, CountsWhenOffered
  <2> QED
    BY <2>1, <2>3, <2>4
<1>5. ASSUME NEW types \in Replies, ProcessHandshake(types)
      PROVE  OfferCount'
  BY <1>5 DEF ProcessHandshake, OfferCount
<1>6. CASE UNCHANGED vars
  <2>1. UNCHANGED <<offer, gone, nameOf>>
    BY <1>6 DEF vars
  <2> QED
    BY <2>1 DEF OfferCount, OfferedAs, HeldBy
<1> QED
  BY <1>2, <1>3, <1>4, <1>5, <1>6 DEF Next

LEMMA CountInvariant == Spec => []OfferCount
<1>1. Init => OfferCount
  BY DEF Init, OfferCount
<1> QED
  BY <1>1, Invariance, CountStep, PTL DEF Spec

(* Whatever the server lists and whatever is registered, negotiation finds *)
(* the newest transport of the last type that both have.                   *)
THEOREM LastCommonType == Spec => []NegotiatesTheLastCommonType
<1>1. IInv => NegotiatesTheLastCommonType
  <2> SUFFICES ASSUME IInv, NEW types \in Replies
               PROVE  LET common == {i \in 1..Len(types) : \E a \in Addresses : nameOf[a] = types[i]}
                          t == Negotiate(types)
                      IN  /\ t = NULL <=> common = {}
                          /\ common # {} =>
                               /\ nameOf[t] = types[Max(common)]
                               /\ \A a \in Addresses : nameOf[a] = nameOf[t] => born[a] <= born[t]
    BY DEF NegotiatesTheLastCommonType
  <2>1. types \in Seq(ServerTypes) /\ NULL \notin ServerTypes
    BY RepliesShape
  <2> QED
    BY <2>1, Negotiated
<1> QED
  BY <1>1, Invariance, PTL

(* What the server takes from an offer has a transport, unless that name   *)
(* was unregistered as often as it was offered.                            *)
THEOREM OfferHolds == Spec => []OfferIsKept
<1>1. IInv /\ OfferCount => OfferIsKept
  <2> SUFFICES ASSUME IInv, OfferCount, offer # NoOffer, NEW name \in Names,
                      Cardinality(OfferedAs(name)) > gone[name]
               PROVE  /\ Negotiate(<<name>>) # NULL
                      /\ nameOf[Negotiate(<<name>>)] = name
    BY DEF OfferIsKept
  <2> DEFINE types == <<name>>
             common == {j \in 1..Len(types) : \E a \in Addresses : nameOf[a] = types[j]}
  <2>1. HeldBy(name) # {}
    <3>1. Cardinality(OfferedAs(name)) <= Cardinality(HeldBy(name)) + gone[name]
      BY DEF OfferCount
    <3>2. /\ Cardinality(OfferedAs(name)) \in Nat /\ Cardinality(HeldBy(name)) \in Nat
          /\ gone[name] \in Nat
      BY OfferedIsFinite, HeldIsFinite DEF IInv, TypeOK
    <3>3. Cardinality(HeldBy(name)) # 0
      BY <3>1, <3>2
    <3> QED
      BY <3>3, FS_EmptySet
  <2>2. types \in Seq(Names) /\ Len(types) = 1 /\ types[1] = name /\ NULL \notin Names
    BY RepliesShape
  <2>3. common = {1}
    BY <2>1, <2>2 DEF HeldBy
  <2>4. Max({1}) = 1
    <3>1. {1} \in SUBSET (1..1) /\ {1} # {} /\ 1 \in Nat
      OBVIOUS
    <3>2. Max({1}) \in {1}
      BY <3>1, MaxOfPositions
    <3> QED
      BY <3>2
  <2>5. /\ Negotiate(types) = NULL <=> common = {}
        /\ common # {} => nameOf[Negotiate(types)] = types[Max(common)]
    <3> HIDE DEF types
    <3> QED
      BY <2>2, Negotiated
  <2> QED
    BY <2>2, <2>3, <2>4, <2>5
<1> QED
  BY <1>1, Invariance, CountInvariant, PTL

=============================================================================
