------------------------ MODULE SubscriptionsProofs ------------------------
(***************************************************************************)
(* Proofs about Subscriptions, for any channels, addresses and sessions:   *)
(* the types for any number of callers, the agreement of client and server *)
(* for one.                                                                *)
(***************************************************************************)
EXTENDS Subscriptions, SequenceLemmas

Count(p) == L!ListenerCount(p)

(* The table of listeners, as ListenersProofs has it.                      *)
Table ==
  \A p \in Patterns :
    /\ IsInjective(listeners[p])
    /\ \A s \in Addresses : Contains(listeners[p], s) <=> channelOf[s] = p

Pending == {"send", "sent", "accepted", "refused"}

(* What a call carries from its beginning to its end                       *)
Carries(c) ==
  /\ c.op = "none" <=> c.stage = "idle"
  /\ c.op # "none" => c.channel \in Patterns
  /\ c.op = "unsubscribe" => c.sub \in Addresses
  /\ c.op \in {"subscribe", "unsubscribe"} /\ c.stage \in Pending => c.channel \notin Meta
  /\ c.session <= session

Calls == [op : {"none", "subscribe", "publish", "unsubscribe"},
          channel : Patterns \cup {NULL}, sub : Addresses \cup {NULL},
          session : 0..MaxSessions,
          stage : {"idle", "send", "sent", "accepted", "refused", "done"},
          code : Codes]

TInv == TypeOK /\ Table /\ \A t \in Callers : Carries(call[t])

-----------------------------------------------------------------------------
(* The two operations on the table. *)

(* The instance of Listeners uses the same library.                        *)
LEMMA SameRemove ==
  ASSUME NEW q, NEW s
  PROVE  L!RemoveFirst(q, s) = RemoveFirst(q, s)
BY DEF L!RemoveFirst, RemoveFirst, L!RemoveAt, RemoveAt, L!SelectInSeq, SelectInSeq,
       L!Min, Min

(* The count of a channel is the length of its list.                       *)
LEMMA CountIs ==
  ASSUME NEW p \in Patterns
  PROVE  Count(p) = Len(listeners[p]) /\ Count(p)' = Len(listeners'[p])
BY DEF Count, L!ListenerCount, L!Lookup

(* cometd_listener_add: one listener more on its channel.                  *)
LEMMA AddTable ==
  ASSUME L!TypeOK, Table, NEW s \in Addresses, NEW p \in Patterns, L!ListenerAdd(s, p)
  PROVE  /\ L!TypeOK' /\ Table'
         /\ \A q \in Patterns : Count(q)' = IF q = p THEN Count(q) + 1 ELSE Count(q)
<1> USE DEF L!TypeOK
<1>1. /\ adds < MaxAdds /\ channelOf[s] = NULL
      /\ channelOf' = [channelOf EXCEPT ![s] = p]
      /\ listeners' = [listeners EXCEPT ![p] = Append(@, s)]
      /\ adds' = adds + 1
      /\ born' = [born EXCEPT ![s] = adds + 1]
  BY DEF L!ListenerAdd, L!NULL, NULL
<1>2. \A q \in Patterns : ~Contains(listeners[q], s)
  BY <1>1, SubscriptionsAssumption DEF Table, NULL
<1>3. /\ Append(listeners[p], s) \in Seq(Addresses)
      /\ IsInjective(Append(listeners[p], s))
      /\ \A u : Contains(Append(listeners[p], s), u) <=> Contains(listeners[p], u) \/ u = s
      /\ Len(Append(listeners[p], s)) = Len(listeners[p]) + 1
  BY <1>2, AppendOnce DEF Table
<1>4. L!TypeOK'
  <2>1. adds' \in 0..MaxAdds /\ born' \in [Addresses -> 0..MaxAdds]
    BY <1>1, SubscriptionsAssumption
  <2> QED
    BY <1>1, <1>3, <2>1 DEF L!NULL
<1>5. ASSUME NEW q \in Patterns
      PROVE  /\ IsInjective(listeners'[q])
             /\ \A u \in Addresses : Contains(listeners'[q], u) <=> channelOf'[u] = q
  <2>1. CASE q = p
    <3>1. listeners'[q] = Append(listeners[p], s)
      BY <1>1, <2>1
    <3>2. ASSUME NEW u \in Addresses
          PROVE  channelOf'[u] = p <=> channelOf[u] = p \/ u = s
      BY <1>1
    <3> QED
      BY <1>3, <2>1, <3>1, <3>2 DEF Table
  <2>2. CASE q # p
    <3>1. listeners'[q] = listeners[q]
      BY <1>1, <2>2
    <3>2. ASSUME NEW u \in Addresses
          PROVE  channelOf'[u] = q <=> channelOf[u] = q
      BY <1>1, <2>2, SubscriptionsAssumption DEF NULL
    <3> QED
      BY <3>1, <3>2 DEF Table
  <2> QED
    BY <2>1, <2>2
<1>6. ASSUME NEW q \in Patterns
      PROVE  Count(q)' = IF q = p THEN Count(q) + 1 ELSE Count(q)
  BY <1>1, <1>3, CountIs
<1> QED
  BY <1>4, <1>5, <1>6 DEF Table

(* cometd_listener_remove: one listener fewer on its channel.              *)
LEMMA RemoveTable ==
  ASSUME L!TypeOK, Table, NEW s \in Addresses, L!ListenerRemove(s)
  PROVE  /\ L!TypeOK' /\ Table' /\ channelOf[s] \in Patterns
         /\ \A q \in Patterns :
              Count(q)' = IF q = channelOf[s] THEN Count(q) - 1 ELSE Count(q)
<1> USE DEF L!TypeOK
<1> DEFINE p == channelOf[s]
<1>1. /\ p \in Patterns
      /\ channelOf' = [channelOf EXCEPT ![s] = NULL]
      /\ listeners' = [listeners EXCEPT ![p] = RemoveFirst(@, s)]
      /\ UNCHANGED <<born, adds>>
  BY SameRemove DEF L!ListenerRemove, L!NULL, NULL
<1>2. Contains(listeners[p], s) /\ IsInjective(listeners[p])
  BY <1>1 DEF Table
<1>3. /\ RemoveFirst(listeners[p], s) \in Seq(Addresses)
      /\ IsInjective(RemoveFirst(listeners[p], s))
      /\ \A u : Contains(RemoveFirst(listeners[p], s), u)
                  <=> Contains(listeners[p], u) /\ u # s
  BY <1>1, <1>2, RemoveOnce
<1>4. Len(RemoveFirst(listeners[p], s)) = Len(listeners[p]) - 1
  <2>1. listeners[p] \in Seq(Addresses) /\ DOMAIN listeners[p] = 1..Len(listeners[p])
    BY <1>1
  <2>2. PICK k \in 1..Len(listeners[p]) : listeners[p][k] = s
    BY <1>2 DEF Contains
  <2>3. \A i \in 1..Len(listeners[p]) : listeners[p][i] = s => i = k
    BY <1>2, <2>1, <2>2 DEF IsInjective
  <2> QED
    BY <2>1, <2>2, <2>3, RemoveShape
<1>5. L!TypeOK'
  BY <1>1, <1>3 DEF L!NULL, NULL
<1>6. ASSUME NEW q \in Patterns
      PROVE  /\ IsInjective(listeners'[q])
             /\ \A u \in Addresses : Contains(listeners'[q], u) <=> channelOf'[u] = q
  <2>1. ASSUME NEW u \in Addresses
        PROVE  channelOf'[u] = q <=> channelOf[u] = q /\ u # s
    BY <1>1, SubscriptionsAssumption DEF NULL
  <2>2. CASE q = p
    <3>1. listeners'[q] = RemoveFirst(listeners[p], s)
      BY <1>1, <2>2
    <3> QED
      BY <1>1, <1>3, <2>1, <2>2, <3>1 DEF Table
  <2>3. CASE q # p
    <3>1. listeners'[q] = listeners[q]
      BY <1>1, <2>3
    <3> QED
      BY <2>1, <2>3, <3>1 DEF Table
  <2> QED
    BY <2>2, <2>3
<1>7. ASSUME NEW q \in Patterns
      PROVE  Count(q)' = IF q = p THEN Count(q) - 1 ELSE Count(q)
  BY <1>1, <1>4, CountIs
<1> QED
  BY <1>1, <1>5, <1>6, <1>7 DEF Table

(* What depends on the table only.                                         *)
LEMMA SameCounts ==
  ASSUME UNCHANGED table
  PROVE  /\ L!TypeOK => L!TypeOK'
         /\ Table => Table'
         /\ \A p : Count(p)' = Count(p)
BY DEF table, L!TypeOK, Table, Count, L!ListenerCount, L!Lookup

-----------------------------------------------------------------------------
(* Types, for any number of callers. *)

(* A step of one call that leaves the table and the session alone.         *)
LEMMA CallTypes ==
  ASSUME TInv, NEW t \in Callers, NEW d \in Calls, Carries(d),
         call' = [call EXCEPT ![t] = d],
         UNCHANGED <<table, session, lastError>>,
         remote' \subseteq Patterns \ Meta, trouble' \in BOOLEAN
  PROVE  TInv'
<1>1. TypeOK'
  BY SameCounts DEF TInv, TypeOK, Calls
<1>2. Table'
  BY SameCounts DEF TInv
<1>3. ASSUME NEW u \in Callers PROVE Carries(call[u])'
  <2>1. call'[u] = IF u = t THEN d ELSE call[u]
    BY DEF TInv, TypeOK
  <2>2. Carries(call[u])
    BY DEF TInv
  <2> QED
    BY <2>1, <2>2 DEF Carries
<1> QED
  BY <1>1, <1>2, <1>3 DEF TInv

(* The record that an operation starts with, and what a step of a call     *)
(* makes of it.                                                            *)
LEMMA CallFields ==
  ASSUME NEW c \in Calls
  PROVE  /\ c.op \in {"none", "subscribe", "publish", "unsubscribe"}
         /\ c.channel \in Patterns \cup {NULL} /\ c.sub \in Addresses \cup {NULL}
         /\ c.session \in 0..MaxSessions
         /\ c.stage \in {"idle", "send", "sent", "accepted", "refused", "done"}
         /\ c.code \in Codes
         /\ \A stage \in {"send", "sent", "accepted", "refused", "done"} :
              [c EXCEPT !.stage = stage] \in Calls
         /\ \A code \in Codes : [c EXCEPT !.stage = "done", !.code = code] \in Calls
BY DEF Calls

(* A request under way goes on.                                            *)
LEMMA Moves ==
  ASSUME TInv, NEW t \in Callers, ~At(t, "idle"), NEW stage \in {"sent", "accepted", "refused"},
         At(t, "send") \/ At(t, "sent")
  PROVE  /\ [call[t] EXCEPT !.stage = stage] \in Calls
         /\ Carries([call[t] EXCEPT !.stage = stage])
<1>1. call[t] \in Calls /\ Carries(call[t])
  BY DEF TInv, TypeOK, Calls
<1> QED
  BY <1>1, CallFields DEF Carries, At, Pending, Calls

(* A call gets its code.                                                   *)
LEMMA Ends ==
  ASSUME TInv, NEW t \in Callers, ~At(t, "idle"), NEW code \in Codes
  PROVE  /\ [call[t] EXCEPT !.stage = "done", !.code = code] \in Calls
         /\ Carries([call[t] EXCEPT !.stage = "done", !.code = code])
<1>1. call[t] \in Calls /\ Carries(call[t])
  BY DEF TInv, TypeOK, Calls
<1> QED
  BY <1>1, CallFields DEF Carries, At, Pending, Calls

(* The whole assignment to call at once: nested EXCEPTs are unfolded here. *)
LEMMA NestedExcept ==
  ASSUME TInv, NEW t \in Callers, NEW stage, NEW code
  PROVE  /\ [call EXCEPT ![t].stage = stage]
              = [call EXCEPT ![t] = [call[t] EXCEPT !.stage = stage]]
         /\ [call EXCEPT ![t].stage = "done", ![t].code = code]
              = [call EXCEPT ![t] = [call[t] EXCEPT !.stage = "done", !.code = code]]
BY DEF TInv, TypeOK

(* Every step keeps the types and what calls carry.                        *)
LEMMA TypesStep == TInv /\ [Next]_vars => TInv'
<1> SUFFICES ASSUME TInv, [Next]_vars PROVE TInv'
  OBVIOUS
<1>a. /\ L!TypeOK /\ session \in 0..MaxSessions /\ lastError \in {"SUCCESS", "SEND"}
      /\ remote \subseteq Patterns \ Meta /\ trouble \in BOOLEAN
      /\ Table
      /\ \A t \in Callers : call[t] \in Calls /\ Carries(call[t])
  BY DEF TInv, TypeOK, Calls
<1>b. session \in 0..MaxSessions /\ session <= session
  BY <1>a, SubscriptionsAssumption
<1>c. NoCall \in Calls
  BY SubscriptionsAssumption DEF Calls, NoCall, Codes
<1>1. ASSUME NEW t \in Callers, NEW p \in Patterns, Subscribe(t, p) PROVE TInv'
  <2> DEFINE d == [NoCall EXCEPT !.op = "subscribe", !.channel = p, !.session = session,
                                 !.stage = IF p \in Meta THEN "done" ELSE "send"]
  <2>1. d \in Calls
    BY <1>b, <1>c DEF Calls
  <2>2. /\ d.op = "subscribe" /\ d.channel = p /\ d.session = session
        /\ d.stage = IF p \in Meta THEN "done" ELSE "send"
    BY <1>c DEF Calls
  <2>3. call' = [call EXCEPT ![t] = d]
    BY <1>1 DEF Subscribe
  <2> HIDE DEF d
  <2>4. Carries(d)
    BY <1>b, <2>2 DEF Carries, Pending
  <2> QED
    BY <1>1, <1>a, <2>1, <2>3, <2>4, CallTypes DEF Subscribe
<1>2. ASSUME NEW t \in Callers, NEW p \in Patterns, Publish(t, p) PROVE TInv'
  <2> DEFINE d == [NoCall EXCEPT !.op = "publish", !.channel = p, !.session = session,
                                 !.stage = "send"]
  <2>1. d \in Calls
    BY <1>b, <1>c DEF Calls
  <2>2. d.op = "publish" /\ d.channel = p /\ d.session = session /\ d.stage = "send"
    BY <1>c DEF Calls
  <2>3. call' = [call EXCEPT ![t] = d]
    BY <1>2 DEF Publish
  <2> HIDE DEF d
  <2>4. Carries(d)
    BY <1>b, <2>2 DEF Carries, Pending
  <2> QED
    BY <1>2, <1>a, <2>1, <2>3, <2>4, CallTypes DEF Publish
<1>3. ASSUME NEW t \in Callers, NEW s \in Addresses, Unsubscribe(t, s) PROVE TInv'
  <2> DEFINE p == channelOf[s]
             stage == IF p \notin Meta /\ p # NULL /\ L!ListenerCount(p) = 1
                      THEN "send" ELSE "done"
             d == [NoCall EXCEPT !.op = "unsubscribe", !.channel = p, !.sub = s,
                                 !.session = session, !.code = "UNKNOWN",
                                 !.stage = stage]
  <2>1. call' = [call EXCEPT ![t] = d]
    BY <1>3 DEF Unsubscribe, UnsubscribeIf
  <2>2. p \in Patterns /\ stage \in {"send", "done"} /\ (p \in Meta => stage = "done")
    BY <1>3, <1>a DEF Unsubscribe, UnsubscribeIf, L!TypeOK, L!NULL, NULL
  <2> HIDE DEF stage
  <2>3. d \in Calls
    BY <1>b, <1>c, <2>2 DEF Calls, Codes
  <2>4. /\ d.op = "unsubscribe" /\ d.channel = p /\ d.sub = s /\ d.session = session
        /\ d.stage = stage
    BY <1>c DEF Calls
  <2> HIDE DEF d
  <2>5. Carries(d)
    BY <1>b, <2>2, <2>4 DEF Carries, Pending
  <2> QED
    BY <1>3, <1>a, <2>1, <2>3, <2>5, CallTypes DEF Unsubscribe, UnsubscribeIf
<1>4. ASSUME NEW t \in Callers, Send(t) PROVE TInv'
  <2>1. CASE session = 0
    BY <1>4, <1>a, <2>1, Ends, NestedExcept, CallTypes DEF Send, At, Skip, Codes
  <2>2. CASE session # 0
    BY <1>4, <1>a, <2>2, Moves, NestedExcept, CallTypes DEF Send, At
  <2> QED
    BY <2>1, <2>2
<1>5. ASSUME NEW t \in Callers, ServerAccepts(t) PROVE TInv'
  <2>1. remote' \subseteq Patterns \ Meta
    BY <1>5, <1>a, CallFields DEF ServerAccepts, At, Carries, Pending
  <2> QED
    BY <1>5, <1>a, <2>1, Moves, NestedExcept, CallTypes DEF ServerAccepts, At
<1>6. ASSUME NEW t \in Callers, ServerRefuses(t) PROVE TInv'
  BY <1>6, <1>a, Moves, NestedExcept, CallTypes DEF ServerRefuses, At
<1>7. ASSUME NEW t \in Callers, Reply(t) PROVE TInv'
  <2>1. PICK code \in Codes : ~At(t, "idle") /\ Skip(t, code)
    BY <1>7 DEF Reply, Codes, At
  <2> DEFINE d == [call[t] EXCEPT !.stage = "done", !.code = code]
  <2>2. d \in Calls /\ Carries(d) /\ call' = [call EXCEPT ![t] = d]
    BY <2>1, Ends, NestedExcept DEF Skip
  <2> HIDE DEF d
  <2> QED
    BY <1>7, <1>a, <2>2, CallTypes DEF Reply
<1>8. ASSUME NEW t \in Callers, NoPayload(t) PROVE TInv'
  <2>1. lastError \in Codes /\ ~At(t, "idle") /\ Skip(t, lastError)
    BY <1>8, <1>a DEF NoPayload, At, Codes
  <2> DEFINE d == [call[t] EXCEPT !.stage = "done", !.code = lastError]
  <2>2. d \in Calls /\ Carries(d) /\ call' = [call EXCEPT ![t] = d]
    BY <2>1, Ends, NestedExcept DEF Skip
  <2> HIDE DEF d
  <2> QED
    BY <1>8, <1>a, <2>2, CallTypes DEF NoPayload
<1>9. ASSUME NEW t \in Callers, Finish(t) PROVE TInv'
  <2>1. L!TypeOK' /\ Table'
    <3>1. CASE call[t].op = "subscribe" /\ call[t].code = "SUCCESS"
      BY <1>9, <1>a, <3>1, AddTable DEF Finish, Carries, At
    <3>2. CASE call[t].op = "unsubscribe" /\ call[t].code # "SUCCESS"
      BY <1>9, <1>a, <3>2, RemoveTable DEF Finish, Carries, At
    <3>3. CASE /\ ~(call[t].op = "subscribe" /\ call[t].code = "SUCCESS")
               /\ ~(call[t].op = "unsubscribe" /\ call[t].code # "SUCCESS")
      BY <1>9, <1>a, <3>3, SameCounts DEF Finish
    <3> QED
      BY <3>1, <3>2, <3>3
  <2>2. NoCall \in Calls /\ Carries(NoCall)
    BY <1>a, <1>c DEF Carries, NoCall
  <2>3. ASSUME NEW u \in Callers PROVE call'[u] \in Calls /\ Carries(call[u])'
    <3>1. call'[u] = IF u = t THEN NoCall ELSE call[u]
      BY <1>9, <1>a DEF Finish, TInv, TypeOK
    <3> QED
      BY <1>9, <1>a, <2>2, <3>1 DEF Finish, Carries
  <2>4. call' \in [Callers -> Calls]
    BY <1>9, <2>3 DEF Finish, TInv, TypeOK
  <2> QED
    BY <1>9, <1>a, <2>1, <2>3, <2>4 DEF Finish, TInv, TypeOK, Calls
<1>10. CASE HandshakeSucceeds
  <2>1. session' = session + 1 /\ session' \in 0..MaxSessions
    BY <1>10, <1>a, SubscriptionsAssumption DEF HandshakeSucceeds
  <2>2. ASSUME NEW u \in Callers PROVE Carries(call[u])'
    <3>1. call'[u] = call[u]
      BY <1>10 DEF HandshakeSucceeds
    <3>2. call[u].session \in 0..MaxSessions /\ Carries(call[u])
      BY <1>a, CallFields
    <3>3. call[u].session <= session'
      <4>1. \A n \in 0..MaxSessions : n <= session => n <= session + 1
        BY <1>a, SubscriptionsAssumption
      <4> QED
        BY <2>1, <3>2, <4>1 DEF Carries
    <3> QED
      BY <3>1, <3>2, <3>3 DEF Carries
  <2> QED
    BY <1>10, <1>a, <2>1, <2>2, SameCounts DEF HandshakeSucceeds, TInv, TypeOK
<1>11. CASE HandshakeFails
  BY <1>11, <1>a, SameCounts DEF HandshakeFails, TInv, TypeOK, Carries
<1>12. CASE UNCHANGED vars
  BY <1>12, <1>a, SameCounts DEF vars, TInv, TypeOK, Carries
<1> QED
  BY <1>1, <1>2, <1>3, <1>4, <1>5, <1>6, <1>7, <1>8, <1>9, <1>10, <1>11, <1>12 DEF Next

(* They hold at first.                                                     *)
LEMMA TypesInit == Init => TInv
<1> SUFFICES ASSUME Init PROVE TInv
  OBVIOUS
<1>1. TypeOK
  <2>1. L!TypeOK
    BY SubscriptionsAssumption DEF Init, L!Init, L!TypeOK, L!NULL
  <2>2. NoCall \in Calls
    BY SubscriptionsAssumption DEF Calls, NoCall, Codes
  <2>3. call \in [Callers -> Calls]
    BY <2>2 DEF Init
  <2>4. session \in 0..MaxSessions
    BY SubscriptionsAssumption DEF Init
  <2> QED
    BY <2>1, <2>3, <2>4 DEF Init, TypeOK, Calls
<1>2. ASSUME NEW p \in Patterns
      PROVE  /\ IsInjective(listeners[p])
             /\ \A s \in Addresses : Contains(listeners[p], s) <=> channelOf[s] = p
  <2>1. listeners[p] = <<>> /\ Len(listeners[p]) = 0 /\ DOMAIN listeners[p] = {}
    BY DEF Init, L!Init
  <2>2. \A s \in Addresses : channelOf[s] # p
    BY SubscriptionsAssumption DEF Init, L!Init, L!NULL
  <2> QED
    BY <2>1, <2>2 DEF IsInjective, Contains
<1>3. \A t \in Callers : Carries(call[t])
  BY DEF Init, NoCall, Carries
<1> QED
  BY <1>1, <1>2, <1>3 DEF TInv, Table

(* Whatever the callers do at once, and whichever requests fail, a call    *)
(* keeps its channel and its subscription to its end, the server never has *)
(* a meta channel, and every variable has its type.                        *)
THEOREM TypeCorrect == Spec => []TypeOK
<1>1. TInv => TypeOK
  BY DEF TInv
<1> QED
  BY TypesInit, TypesStep, <1>1, PTL DEF Spec

-----------------------------------------------------------------------------
(* Agreement of client and server, for one caller. *)

(* The server has done what a subscribe asked for, as far as is known here. *)
Granted(c) ==
  /\ c.op = "subscribe" /\ c.channel \notin Meta
  /\ \/ c.stage = "accepted"
     \/ c.stage = "done" /\ c.code = "SUCCESS"

(* The caller's own listeners do not change while its request is under     *)
(* way: the count it decided on is still the count.                        *)
CountHolds(c) ==
  /\ c.op = "unsubscribe" => channelOf[c.sub] = c.channel
  /\ c.op = "unsubscribe" /\ c.stage \in Pending => Count(c.channel) = 1

(* Before the first handshake nothing is sent.                             *)
NotSent(c) == session = 0 => c.stage \notin {"sent", "accepted", "refused"} /\ ~Granted(c)

GrantedIsRemote(c) == ~trouble /\ session = 1 /\ Granted(c) => c.channel \in remote

(* An unsubscribe that is about to remove its listener, of a channel that  *)
(* the server still has, leaves another one there.                         *)
LeavesAnother(c) ==
  /\ c.stage = "refused" => trouble
  /\ ~trouble /\ c.op = "unsubscribe" /\ c.stage = "done" /\ c.code # "SUCCESS"
       /\ c.channel \in remote => Count(c.channel) >= 2

CallInv(c) == CountHolds(c) /\ NotSent(c) /\ GrantedIsRemote(c) /\ LeavesAnother(c)

NothingYet == session = 0 => remote = {} /\ \A p \in Patterns \ Meta : Count(p) = 0

RemoteHasListeners ==
  ~trouble => \A p \in remote : \/ Count(p) > 0
                                \/ \E t \in Callers : Granted(call[t]) /\ call[t].channel = p

OneInv ==
  /\ TInv
  /\ NothingYet /\ SharedChannelsAreSubscribed /\ RemoteHasListeners
  /\ \A t \in Callers : CallInv(call[t])

(* Counts are numbers.                                                     *)
LEMMA CountNat == TInv => \A p \in Patterns : Count(p) \in Nat
<1> SUFFICES ASSUME TInv, NEW p \in Patterns PROVE Count(p) \in Nat
  OBVIOUS
<1>1. listeners[p] \in Seq(Addresses)
  BY DEF TInv, TypeOK, L!TypeOK
<1> QED
  BY <1>1, CountIs

(* A live subscription is counted.                                         *)
LEMMA LiveCounts ==
  ASSUME TInv, NEW s \in Addresses, channelOf[s] \in Patterns
  PROVE  Count(channelOf[s]) >= 1
<1> DEFINE p == channelOf[s]
<1>1. Contains(listeners[p], s) /\ listeners[p] \in Seq(Addresses)
  BY DEF TInv, Table, TypeOK, L!TypeOK
<1>2. PICK k \in 1..Len(listeners[p]) : listeners[p][k] = s
  BY <1>1 DEF Contains
<1> QED
  BY <1>1, <1>2, CountIs

(* What a step of a call makes of its record.                              *)
LEMMA Moved ==
  ASSUME TInv, NEW t \in Callers, NEW stage, call' = [call EXCEPT ![t].stage = stage]
  PROVE  /\ call'[t].op = call[t].op /\ call'[t].channel = call[t].channel
         /\ call'[t].sub = call[t].sub /\ call'[t].session = call[t].session
         /\ call'[t].code = call[t].code /\ call'[t].stage = stage
BY DEF TInv, TypeOK

(* The same when it gets its code.                                         *)
LEMMA Ended ==
  ASSUME TInv, NEW t \in Callers, NEW code, Skip(t, code)
  PROVE  /\ call'[t].op = call[t].op /\ call'[t].channel = call[t].channel
         /\ call'[t].sub = call[t].sub /\ call'[t].session = call[t].session
         /\ call'[t].code = code /\ call'[t].stage = "done"
BY DEF TInv, TypeOK, Skip

(* A step of the one call that leaves the table and the session alone      *)
(* keeps the agreement if the server's set stays right.                    *)
LEMMA OneCallStep ==
  ASSUME \A t, u \in Callers : t = u, OneInv, TInv', NEW t \in Callers,
         UNCHANGED <<table, session>>, trouble => trouble',
         CallInv(call[t])', NothingYet', SharedChannelsAreSubscribed',
         ~trouble' => \A p \in remote' : \/ Count(p) > 0
                                         \/ Granted(call'[t]) /\ call'[t].channel = p
  PROVE  OneInv'
<1>1. \A u \in Callers : CallInv(call[u])'
  OBVIOUS
<1>2. RemoteHasListeners'
  <2>1. Granted(call[t])' <=> Granted(call'[t])
    BY DEF Granted
  <2> QED
    BY <2>1, SameCounts DEF RemoteHasListeners
<1> QED
  BY <1>1, <1>2 DEF OneInv

(* The same when the server does nothing.                                  *)
LEMMA QuietStep ==
  ASSUME \A t, u \in Callers : t = u, OneInv, TInv', NEW t \in Callers,
         UNCHANGED <<table, session, remote>>, trouble => trouble',
         CallInv(call[t])',
         ~trouble' /\ Granted(call[t])
           => Granted(call'[t]) /\ call'[t].channel = call[t].channel
  PROVE  OneInv'
<1>1. NothingYet'
  BY SameCounts DEF OneInv, NothingYet
<1>2. SharedChannelsAreSubscribed'
  BY SameCounts DEF OneInv, SharedChannelsAreSubscribed, Count
<1>3. ~trouble' => \A p \in remote' : \/ Count(p) > 0
                                      \/ Granted(call'[t]) /\ call'[t].channel = p
  BY DEF OneInv, RemoteHasListeners
<1> QED
  BY <1>1, <1>2, <1>3, OneCallStep

(* An operation starts: it has been granted nothing, and an unsubscribe    *)
(* has counted the listeners of its channel in this step.                  *)
LEMMA StartStep ==
  ASSUME \A t, u \in Callers : t = u, OneInv, TInv', NEW t \in Callers,
         \/ \E p \in Patterns : Subscribe(t, p) \/ Publish(t, p)
         \/ \E s \in Addresses : Unsubscribe(t, s)
  PROVE  OneInv'
<1>1. UNCHANGED <<table, session, remote, trouble>> /\ At(t, "idle")
  BY DEF Subscribe, Publish, Unsubscribe, UnsubscribeIf
<1>2. ~Granted(call[t])
  BY <1>1 DEF At, Granted
<1>3. NoCall \in Calls
  BY SubscriptionsAssumption DEF Calls, NoCall, Codes
<1>4. CASE \E p \in Patterns : Subscribe(t, p) \/ Publish(t, p)
  <2>1. /\ call'[t].op \in {"subscribe", "publish"}
        /\ call'[t].stage \in {"send", "done"}
        /\ call'[t].op = "publish" => call'[t].stage = "send"
        /\ call'[t].stage = "done" => call'[t].channel \in Meta
    <3>1. ASSUME NEW p \in Patterns, Subscribe(t, p)
          PROVE  /\ call'[t].op = "subscribe" /\ call'[t].channel = p
                 /\ call'[t].stage = IF p \in Meta THEN "done" ELSE "send"
      BY <1>3, <3>1 DEF OneInv, TInv, TypeOK, Calls, Subscribe
    <3>2. ASSUME NEW p \in Patterns, Publish(t, p)
          PROVE  call'[t].op = "publish" /\ call'[t].stage = "send"
      BY <1>3, <3>2 DEF OneInv, TInv, TypeOK, Calls, Publish
    <3> QED
      BY <1>4, <3>1, <3>2
  <2>2. CallInv(call[t])'
    BY <2>1 DEF CallInv, CountHolds, NotSent, GrantedIsRemote, LeavesAnother, Granted
  <2> QED
    BY <1>1, <1>2, <2>2, QuietStep
<1>5. ASSUME NEW s \in Addresses, Unsubscribe(t, s) PROVE OneInv'
  <2> DEFINE p == channelOf[s]
  <2>1. /\ call'[t].op = "unsubscribe" /\ call'[t].channel = p /\ call'[t].sub = s
        /\ call'[t].stage = IF p \notin Meta /\ p # NULL /\ Count(p) = 1
                            THEN "send" ELSE "done"
    BY <1>3, <1>5 DEF OneInv, TInv, TypeOK, Calls, Unsubscribe, UnsubscribeIf, Count
  <2>2. p \in Patterns
    BY <1>5 DEF Unsubscribe, UnsubscribeIf, OneInv, TInv, TypeOK, L!TypeOK, L!NULL, NULL
  <2>3. Count(p) >= 1
    BY <2>2, LiveCounts DEF OneInv
  <2>4. Count(p) \in Nat /\ Count(p)' = Count(p) /\ channelOf' = channelOf
    BY <1>1, <2>2, CountNat, SameCounts DEF OneInv, table
  <2>5. remote' \subseteq Patterns \ Meta
    BY DEF TInv, TypeOK
  <2>6. p \in remote' => p \notin Meta /\ p # NULL
    BY <2>2, <2>5, SubscriptionsAssumption DEF NULL
  <2>7. call'[t].stage = "send" => Count(call[t].channel)' = 1
    BY <2>1, <2>4
  <2>8. call'[t].stage = "done" /\ p \in remote' => Count(call[t].channel)' >= 2
    BY <2>1, <2>3, <2>4, <2>6
  <2>9. CallInv(call[t])'
    <3>1. CountHolds(call[t])'
      BY <2>1, <2>4, <2>7 DEF CountHolds, Pending
    <3>2. LeavesAnother(call[t])'
      BY <2>1, <2>8 DEF LeavesAnother
    <3> QED
      BY <2>1, <3>1, <3>2 DEF CallInv, NotSent, GrantedIsRemote, Granted
  <2> QED
    BY <1>1, <1>2, <2>9, QuietStep
<1> QED
  BY <1>4, <1>5

(* The steps of a request under way, up to its code.                       *)
LEMMA RequestStep ==
  ASSUME \A t, u \in Callers : t = u, OneInv, TInv', NEW t \in Callers,
         Send(t) \/ ServerRefuses(t) \/ Reply(t) \/ NoPayload(t)
  PROVE  OneInv'
<1>1. UNCHANGED <<table, session, remote>> /\ (trouble => trouble') /\ ~At(t, "idle")
  BY DEF Send, ServerRefuses, Reply, NoPayload, At
<1>2. CallInv(call[t]) /\ TInv /\ Carries(call[t])
  BY DEF OneInv, TInv
<1>3. \A p : Count(p)' = Count(p)
  BY <1>1, SameCounts
<1>4. /\ call'[t].op = call[t].op /\ call'[t].channel = call[t].channel
      /\ call'[t].sub = call[t].sub
  BY <1>2, Moved, Ended DEF Send, ServerRefuses, Reply, NoPayload
<1>5. call'[t].stage \in Pending => call[t].stage \in Pending
  BY <1>1, <1>2, Moved DEF Send, ServerRefuses, Reply, NoPayload, At, Pending, Skip, TInv, TypeOK
<1>6. CountHolds(call[t])'
  BY <1>1, <1>2, <1>3, <1>4, <1>5 DEF CallInv, CountHolds, table
<1>7. CASE Send(t)
  <2>1. /\ session = 0 => call'[t].stage = "done" /\ call'[t].code = "UNKNOWN"
        /\ session # 0 => call'[t].stage = "sent"
    BY <1>2, <1>7, Moved, Ended DEF Send
  <2>2. ~Granted(call[t]) /\ ~Granted(call'[t]) /\ ~Granted(call[t])'
    BY <1>7, <2>1 DEF Send, At, Granted
  <2>3. session = 0 => remote' = {}
    BY <1>1 DEF OneInv, NothingYet
  <2>4. LeavesAnother(call[t])' /\ NotSent(call[t])'
    BY <1>1, <2>1, <2>2, <2>3 DEF LeavesAnother, NotSent
  <2> QED
    BY <1>1, <1>6, <2>2, <2>4, QuietStep DEF CallInv, GrantedIsRemote
<1>8. CASE ServerRefuses(t)
  <2>1. call'[t].stage = "refused" /\ trouble' /\ call[t].stage = "sent"
    BY <1>2, <1>8, Moved DEF ServerRefuses, At
  <2>2. NotSent(call[t])'
    BY <1>1, <1>2, <2>1 DEF CallInv, NotSent, Granted
  <2> QED
    BY <1>1, <1>6, <2>1, <2>2, QuietStep DEF CallInv, GrantedIsRemote, LeavesAnother
<1>9. CASE Reply(t)
  <2>1. \/ call[t].stage = "accepted" /\ call'[t].code = "SUCCESS"
        \/ call[t].stage = "refused" /\ call'[t].code = "UNSUCCESSFUL"
    BY <1>2, <1>9, Ended DEF Reply, At
  <2>2. call'[t].stage = "done"
    BY <1>2, <1>9, Ended DEF Reply
  <2>3. Granted(call[t]) <=> Granted(call'[t])
    <3>1. CASE call[t].stage = "accepted" /\ call'[t].code = "SUCCESS"
      BY <1>4, <2>2, <3>1 DEF Granted
    <3>2. CASE call[t].stage = "refused" /\ call'[t].code = "UNSUCCESSFUL"
      BY <1>4, <2>2, <3>2 DEF Granted
    <3> QED
      BY <2>1, <3>1, <3>2
  <2>4. Granted(call[t])' <=> Granted(call'[t])
    BY DEF Granted
  <2>5. session # 0 /\ trouble' = trouble
    BY <1>2, <1>9, <2>1 DEF CallInv, NotSent, Reply
  <2>6. LeavesAnother(call[t])'
    BY <1>2, <2>1, <2>2, <2>5 DEF CallInv, LeavesAnother
  <2>7. NotSent(call[t])' /\ GrantedIsRemote(call[t])'
    BY <1>1, <1>2, <1>4, <2>3, <2>4, <2>5 DEF CallInv, NotSent, GrantedIsRemote
  <2> QED
    BY <1>1, <1>4, <1>6, <2>3, <2>6, <2>7, QuietStep DEF CallInv
<1>10. CASE NoPayload(t)
  <2>1. trouble' /\ call'[t].stage = "done" /\ session # 0
    BY <1>2, <1>10, Ended DEF NoPayload, CallInv, NotSent, At
  <2> QED
    BY <1>1, <1>6, <2>1, QuietStep DEF CallInv, NotSent, GrantedIsRemote, LeavesAnother
<1> QED
  BY <1>7, <1>8, <1>9, <1>10

(* The server acts: for the session that the request was built in.         *)
LEMMA AcceptStep ==
  ASSUME \A t, u \in Callers : t = u, OneInv, TInv', NEW t \in Callers, ServerAccepts(t)
  PROVE  OneInv'
<1> DEFINE c == call[t]
<1>1. /\ UNCHANGED <<table, session, trouble>>
      /\ c.stage = "sent" /\ c.session # 0
      /\ remote' = IF c.session # session THEN remote
                   ELSE IF c.op = "subscribe" THEN remote \cup {c.channel}
                   ELSE IF c.op = "unsubscribe" THEN remote \ {c.channel}
                   ELSE remote
  BY DEF ServerAccepts, At
<1>2. CallInv(c) /\ TInv /\ Carries(c) /\ c \in Calls /\ c.session \in 0..MaxSessions
  BY DEF OneInv, TInv, TypeOK, Calls
<1>3. /\ call'[t].op = c.op /\ call'[t].channel = c.channel
      /\ call'[t].sub = c.sub /\ call'[t].stage = "accepted"
  BY <1>2, Moved DEF ServerAccepts
<1>4. \A p : Count(p)' = Count(p)
  BY <1>1, SameCounts
<1>5. session # 0
  BY <1>1, <1>2 DEF CallInv, NotSent
<1>6. /\ CountHolds(c)' /\ NotSent(c)' /\ LeavesAnother(c)'
  BY <1>1, <1>2, <1>3, <1>4, <1>5
     DEF CallInv, CountHolds, NotSent, LeavesAnother, Pending, table
<1>7. GrantedIsRemote(c)'
  <2> SUFFICES ASSUME session' = 1, Granted(c)' PROVE c.channel' \in remote'
    BY DEF GrantedIsRemote
  <2>1. c.op = "subscribe" /\ session = 1
    BY <1>1, <1>3 DEF Granted
  <2>2. c.session = session
    BY <1>1, <1>2, <2>1, SubscriptionsAssumption DEF Carries
  <2> QED
    BY <1>1, <1>3, <2>1, <2>2
<1>8. NothingYet'
  BY <1>1, <1>5 DEF NothingYet
<1>9. SharedChannelsAreSubscribed'
  <2> SUFFICES ASSUME ~trouble', session' = 1, NEW p \in Patterns \ Meta, Count(p)' >= 2
               PROVE  p \in remote'
    BY DEF SharedChannelsAreSubscribed, Count
  <2>1. p \in remote /\ Count(p) >= 2
    BY <1>1, <1>4 DEF OneInv, SharedChannelsAreSubscribed, Count
  <2>2. c.op = "unsubscribe" => Count(c.channel) = 1
    BY <1>1, <1>2 DEF CallInv, CountHolds, Pending
  <2> QED
    BY <1>1, <2>1, <2>2
<1>10. ASSUME ~trouble', NEW p \in remote'
       PROVE  Count(p) > 0 \/ (Granted(call'[t]) /\ call'[t].channel = p)
  <2>1. CASE p \in remote
    <3>1. ~Granted(c)
      BY <1>1 DEF Granted
    <3> QED
      BY <1>1, <1>10, <2>1, <3>1 DEF OneInv, RemoteHasListeners
  <2>2. CASE p \notin remote
    <3>1. c.op = "subscribe" /\ p = c.channel
      BY <1>1, <2>2
    <3>2. c.channel \notin Meta
      BY <1>1, <1>2, <3>1 DEF Carries, Pending
    <3> QED
      BY <1>3, <3>1, <3>2 DEF Granted
  <2> QED
    BY <2>1, <2>2
<1>11. CallInv(call[t])'
  BY <1>6, <1>7 DEF CallInv
<1> QED
  BY <1>1, <1>8, <1>9, <1>10, <1>11, OneCallStep

(* The call ends and with it what was left open: a granted channel has its *)
(* listener, a removed listener leaves another one or nothing remote.      *)
LEMMA FinishStep ==
  ASSUME \A t, u \in Callers : t = u, OneInv, TInv', NEW t \in Callers, Finish(t)
  PROVE  OneInv'
<1> DEFINE c == call[t]
<1>1. UNCHANGED <<session, remote, trouble>> /\ c.stage = "done" /\ c.op # "none"
  BY DEF Finish, At, OneInv, TInv, Carries
<1>2. CallInv(c) /\ TInv /\ Carries(c) /\ c.channel \in Patterns
  BY <1>1 DEF OneInv, TInv, Carries
<1>3. L!TypeOK /\ Table /\ remote \subseteq Patterns \ Meta /\ \A p \in Patterns : Count(p) \in Nat
  BY <1>2, CountNat DEF TInv, TypeOK
<1>4. \A u \in Callers : CallInv(call[u])'
  <2>1. call'[t] = NoCall
    BY <1>2 DEF Finish, TInv, TypeOK
  <2>2. call'[t].op = "none" /\ call'[t].stage = "idle"
    BY <2>1 DEF NoCall
  <2>3. CallInv(call[t])'
    BY <2>2 DEF CallInv, CountHolds, NotSent, GrantedIsRemote, LeavesAnother, Granted
  <2> QED
    BY <2>3
<1>5. CASE c.op = "subscribe" /\ c.code = "SUCCESS"
  <2>1. PICK s \in Addresses : L!ListenerAdd(s, c.channel)
    BY <1>5 DEF Finish
  <2>2. \A q \in Patterns : Count(q)' = IF q = c.channel THEN Count(q) + 1 ELSE Count(q)
    BY <1>2, <1>3, <2>1, AddTable
  <2>3. c.channel \notin Meta => Granted(c)
    BY <1>1, <1>5 DEF Granted
  <2>4. NothingYet'
    BY <1>1, <1>2, <2>2, <2>3 DEF OneInv, NothingYet, CallInv, NotSent
  <2>5. SharedChannelsAreSubscribed'
    <3> SUFFICES ASSUME ~trouble, session = 1, NEW p \in Patterns \ Meta, Count(p)' >= 2
                 PROVE  p \in remote
      BY <1>1 DEF SharedChannelsAreSubscribed, Count
    <3>1. CASE p = c.channel
      BY <1>2, <2>3, <3>1 DEF CallInv, GrantedIsRemote
    <3>2. CASE p # c.channel
      BY <2>2, <3>2 DEF OneInv, SharedChannelsAreSubscribed, Count
    <3> QED
      BY <3>1, <3>2
  <2>6. RemoteHasListeners'
    <3> SUFFICES ASSUME ~trouble, NEW p \in remote PROVE Count(p)' > 0
      BY <1>1 DEF RemoteHasListeners
    <3>1. p \in Patterns /\ (Count(p) > 0 \/ p = c.channel)
      BY <1>3 DEF OneInv, RemoteHasListeners
    <3> QED
      BY <1>3, <2>2, <3>1
  <2> QED
    BY <1>4, <2>4, <2>5, <2>6 DEF OneInv
<1>6. CASE c.op = "unsubscribe" /\ c.code # "SUCCESS"
  <2>1. c.sub \in Addresses /\ channelOf[c.sub] = c.channel /\ L!ListenerRemove(c.sub)
    BY <1>2, <1>6 DEF Finish, Carries, CallInv, CountHolds
  <2>2. \A q \in Patterns : Count(q)' = IF q = c.channel THEN Count(q) - 1 ELSE Count(q)
    BY <1>3, <2>1, RemoveTable
  <2>3. Count(c.channel) >= 1
    BY <1>2, <2>1, LiveCounts
  <2>4. NothingYet'
    BY <1>1, <1>2, <2>2, <2>3 DEF OneInv, NothingYet
  <2>5. SharedChannelsAreSubscribed'
    <3> SUFFICES ASSUME ~trouble, session = 1, NEW p \in Patterns \ Meta, Count(p)' >= 2
                 PROVE  p \in remote
      BY <1>1 DEF SharedChannelsAreSubscribed, Count
    <3>1. Count(p) >= 2
      BY <1>3, <2>2
    <3> QED
      BY <3>1 DEF OneInv, SharedChannelsAreSubscribed, Count
  <2>6. RemoteHasListeners'
    <3> SUFFICES ASSUME ~trouble, NEW p \in remote PROVE Count(p)' > 0
      BY <1>1 DEF RemoteHasListeners
    <3>1. p \in Patterns /\ ~Granted(c)
      BY <1>3, <1>6 DEF Granted
    <3>2. Count(p) > 0
      BY <3>1 DEF OneInv, RemoteHasListeners
    <3>3. p = c.channel => Count(p) >= 2
      BY <1>1, <1>2, <1>6 DEF CallInv, LeavesAnother
    <3> QED
      BY <1>3, <2>2, <3>1, <3>2, <3>3
  <2> QED
    BY <1>4, <2>4, <2>5, <2>6 DEF OneInv
<1>7. CASE /\ ~(c.op = "subscribe" /\ c.code = "SUCCESS")
           /\ ~(c.op = "unsubscribe" /\ c.code # "SUCCESS")
  <2>1. UNCHANGED table
    BY <1>7 DEF Finish
  <2>2. \A p : Count(p)' = Count(p)
    BY <2>1, SameCounts
  <2>3. ~Granted(c)
    BY <1>1, <1>7 DEF Granted
  <2>4. NothingYet' /\ SharedChannelsAreSubscribed'
    BY <1>1, <2>2 DEF OneInv, NothingYet, SharedChannelsAreSubscribed, Count
  <2>5. RemoteHasListeners'
    BY <1>1, <2>2, <2>3 DEF OneInv, RemoteHasListeners
  <2> QED
    BY <1>4, <2>4, <2>5 DEF OneInv
<1> QED
  BY <1>5, <1>6, <1>7

(* Every step of one caller, and of the handshakes beside it.              *)
LEMMA OneStep ==
  ASSUME \A t, u \in Callers : t = u, OneInv, [Next]_vars
  PROVE  OneInv'
<1>1. TInv'
  BY TypesStep DEF OneInv
<1>2. ASSUME NEW t \in Callers,
             \/ \E p \in Patterns : Subscribe(t, p) \/ Publish(t, p)
             \/ \E s \in Addresses : Unsubscribe(t, s)
      PROVE  OneInv'
  BY <1>1, <1>2, StartStep
<1>3. ASSUME NEW t \in Callers, Send(t) \/ ServerRefuses(t) \/ Reply(t) \/ NoPayload(t)
      PROVE  OneInv'
  BY <1>1, <1>3, RequestStep
<1>4. ASSUME NEW t \in Callers, ServerAccepts(t) PROVE OneInv'
  BY <1>1, <1>4, AcceptStep
<1>5. ASSUME NEW t \in Callers, Finish(t) PROVE OneInv'
  BY <1>1, <1>5, FinishStep
<1>6. CASE HandshakeSucceeds
  <2>1. /\ UNCHANGED <<table, call, trouble>> /\ remote' = {} /\ session' = session + 1
        /\ session \in Nat
    BY <1>6, SubscriptionsAssumption DEF HandshakeSucceeds, OneInv, TInv, TypeOK
  <2>2. \A p : Count(p)' = Count(p)
    BY <2>1, SameCounts
  <2>3. NothingYet' /\ RemoteHasListeners'
    BY <2>1 DEF NothingYet, RemoteHasListeners
  <2>4. SharedChannelsAreSubscribed'
    BY <2>1, <2>2 DEF OneInv, NothingYet, SharedChannelsAreSubscribed, Count
  <2>5. ASSUME NEW t \in Callers PROVE CallInv(call[t])'
    <3>1. CallInv(call[t]) /\ call'[t] = call[t]
      BY <2>1 DEF OneInv
    <3> QED
      BY <2>1, <2>2, <3>1
         DEF CallInv, CountHolds, NotSent, GrantedIsRemote, LeavesAnother, Granted, table
  <2> QED
    BY <1>1, <2>3, <2>4, <2>5 DEF OneInv
<1>7. ASSUME UNCHANGED <<table, session, call, remote, trouble>> PROVE OneInv'
  <2>1. \A p : Count(p)' = Count(p)
    BY <1>7, SameCounts
  <2>2. NothingYet' /\ RemoteHasListeners' /\ SharedChannelsAreSubscribed'
    BY <1>7, <2>1 DEF OneInv, NothingYet, RemoteHasListeners, SharedChannelsAreSubscribed,
                      Count, Granted
  <2>3. ASSUME NEW t \in Callers PROVE CallInv(call[t])'
    BY <1>7, <2>1 DEF OneInv, CallInv, CountHolds, NotSent, GrantedIsRemote, LeavesAnother,
                      Granted, table
  <2> QED
    BY <1>1, <2>2, <2>3 DEF OneInv
<1>8. CASE HandshakeFails \/ UNCHANGED vars
  BY <1>7, <1>8 DEF HandshakeFails, vars
<1> QED
  BY <1>2, <1>3, <1>4, <1>5, <1>6, <1>8 DEF Next

(* The agreement holds at first: there is nothing to agree on.             *)
LEMMA OneInit == Init => OneInv
<1> SUFFICES ASSUME Init PROVE OneInv
  OBVIOUS
<1>1. TInv /\ session = 0 /\ remote = {}
  BY TypesInit DEF Init
<1>2. \A p \in Patterns : Count(p) = 0
  BY CountIs DEF Init, L!Init
<1>3. ASSUME NEW t \in Callers PROVE CallInv(call[t])
  <2>1. call[t].op = "none" /\ call[t].stage = "idle"
    BY DEF Init, NoCall
  <2> QED
    BY <2>1 DEF CallInv, CountHolds, NotSent, GrantedIsRemote, LeavesAnother, Granted
<1> QED
  BY <1>1, <1>2, <1>3
     DEF OneInv, NothingYet, SharedChannelsAreSubscribed, RemoteHasListeners

(* So it holds always.                                                     *)
LEMMA OneAlways ==
  ASSUME \A t, u \in Callers : t = u
  PROVE  Spec => []OneInv
<1>1. OneInv /\ [Next]_vars => OneInv'
  BY OneStep
<1> QED
  BY OneInit, <1>1, PTL DEF Spec

(* With one caller no listener loses its messages because another of its   *)
(* channel left: cometd_unsubscribe tells the server only of the last one, *)
(* and cometd_subscribe adds a listener only after the server's consent.   *)
THEOREM SharedStaySubscribed ==
  ASSUME \A t, u \in Callers : t = u
  PROVE  Spec => []SharedChannelsAreSubscribed
<1>1. OneInv => SharedChannelsAreSubscribed
  BY DEF OneInv
<1> QED
  BY OneAlways, <1>1, PTL

(* With one caller the server does not go on sending for a channel that    *)
(* nobody listens on here, as long as no request failed.                   *)
THEOREM NoOrphans ==
  ASSUME \A t, u \in Callers : t = u
  PROVE  Spec => []NoOrphanedSubscription
<1>1. OneInv => NoOrphanedSubscription
  BY DEF OneInv, RemoteHasListeners, NoOrphanedSubscription, Granted, Subscribing, Count
<1> QED
  BY OneAlways, <1>1, PTL

(* cometd.c:274 is right for one caller: when the server carries out an    *)
(* unsubscribe, the channel has one listener, as when it was counted.      *)
THEOREM OnlyTheLast ==
  ASSUME \A t, u \in Callers : t = u
  PROVE  Spec => OnlyTheLastUnsubscribes
<1> DEFINE LastOnly ==
             \A t \in Callers : ServerAccepts(t) /\ call[t].op = "unsubscribe"
                                  => L!ListenerCount(call[t].channel) = 1
<1>1. OneInv => LastOnly
  BY DEF OneInv, CallInv, CountHolds, Pending, ServerAccepts, At, Count
<1>2. OneInv /\ [Next]_vars => [LastOnly]_vars
  BY <1>1
<1> QED
  BY OneAlways, <1>2, PTL DEF Spec, OnlyTheLastUnsubscribes

=============================================================================
