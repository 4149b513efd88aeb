--------------------------- MODULE Subscriptions ---------------------------
(***************************************************************************)
(* cometd_subscribe, cometd_unsubscribe and cometd_publish of src/cometd.c: *)
(* the listeners of a client handle (module Listeners) against what the    *)
(* server has the client subscribed to.  Each call makes at most one POST  *)
(* on its caller's thread.  The POST may fail before or after the server   *)
(* has handled it, and other threads run while it is under way: further    *)
(* callers, and the receive thread when it has to handshake again.         *)
(***************************************************************************)
EXTENDS Integers, FiniteSets, Sequences

CONSTANTS
  Callers,      \* threads that subscribe, unsubscribe and publish
  Addresses,    \* of subscriptions
  Patterns,     \* channels subscribed to or published on
  Meta,         \* those of them that start with /meta
  MaxAdds,      \* how many subscriptions are made in all
  MaxSessions   \* how many handshakes succeed

ASSUME SubscriptionsAssumption ==
  /\ Meta \subseteq Patterns /\ <<>> \notin Patterns
  /\ MaxAdds \in Nat /\ MaxSessions \in Nat

VARIABLES
  listeners, channelOf, born, adds,   \* as in Listeners
  session,     \* how many handshakes have succeeded; conn->transport is NULL before
  lastError,   \* h->last_error->code
  call,        \* what each caller is doing
  remote,      \* the channels of the server's current session
  trouble      \* whether a request was refused or went without an answer

L == INSTANCE Listeners WITH Channels <- {}, MaxDepth <- 0, MaxParts <- 0,
                             calls <- <<>>

table == <<listeners, channelOf, born, adds>>
vars  == <<table, session, lastError, call, remote, trouble>>

NULL == <<>>

NoCall == [op |-> "none", channel |-> NULL, sub |-> NULL, session |-> 0,
           stage |-> "idle", code |-> "SUCCESS"]

Init ==
  /\ L!Init
  /\ session = 0
  /\ lastError = "SUCCESS"
  /\ call = [t \in Callers |-> NoCall]
  /\ remote = {}
  /\ trouble = FALSE

At(t, stage) == call[t].stage = stage

(* The request is not made: the code of the call is known at once.         *)
Skip(t, code) == call' = [call EXCEPT ![t].stage = "done", ![t].code = code]

-----------------------------------------------------------------------------
(* The public operations, up to their POST.  The message is built here:    *)
(* the client id it carries is that of the session of this moment, none    *)
(* before the first handshake.                                             *)

Subscribing == {t \in Callers : call[t].op = "subscribe"}

(* Mutant: meta channels are subscribed to at the server.                  *)
Subscribe_MetaToo(t, p) ==
  /\ At(t, "idle")
  /\ adds + Cardinality(Subscribing) < MaxAdds
  /\ call' = [call EXCEPT ![t] =
       [NoCall EXCEPT !.op = "subscribe", !.channel = p, !.session = session,
                      !.stage = "send"]]
  /\ UNCHANGED <<table, session, lastError, remote, trouble>>

Subscribe(t, p) ==
  /\ At(t, "idle")
  /\ adds + Cardinality(Subscribing) < MaxAdds
  /\ call' = [call EXCEPT ![t] =
       [NoCall EXCEPT !.op = "subscribe", !.channel = p, !.session = session,
                      !.stage = IF p \in Meta THEN "done" ELSE "send"]]
  /\ UNCHANGED <<table, session, lastError, remote, trouble>>

Publish(t, p) ==
  /\ At(t, "idle")
  /\ call' = [call EXCEPT ![t] =
       [NoCall EXCEPT !.op = "publish", !.channel = p, !.session = session,
                      !.stage = "send"]]
  /\ UNCHANGED <<table, session, lastError, remote, trouble>>

(* tell: whether the server is to hear of it.  A caller does not           *)
(* unsubscribe what another is unsubscribing already.                      *)
UnsubscribeIf(t, s, tell) ==
  LET p == channelOf[s]
  IN  /\ At(t, "idle")
      /\ p # NULL
      /\ \A u \in Callers : call[u].sub # s
      /\ call' = [call EXCEPT ![t] =
           [NoCall EXCEPT !.op = "unsubscribe", !.channel = p, !.sub = s,
                          !.session = session, !.code = "UNKNOWN",
                          !.stage = IF p \notin Meta /\ tell THEN "send" ELSE "done"]]
      /\ UNCHANGED <<table, session, lastError, remote, trouble>>

(* Mutants: the server is told of every unsubscription; of all but the     *)
(* last.                                                                   *)
Unsubscribe_Always(t, s) == UnsubscribeIf(t, s, TRUE)
Unsubscribe_NotLast(t, s) ==
  UnsubscribeIf(t, s, channelOf[s] # NULL /\ L!ListenerCount(channelOf[s]) > 1)

(* The server hears of it only when this is the last listener.             *)
Unsubscribe(t, s) ==
  UnsubscribeIf(t, s, channelOf[s] # NULL /\ L!ListenerCount(channelOf[s]) = 1)

-----------------------------------------------------------------------------
(* cometd_transport_send: it looks at the transport, not at the client id. *)

Send(t) ==
  /\ At(t, "send")
  /\ IF session = 0
     THEN Skip(t, "UNKNOWN")
     ELSE call' = [call EXCEPT ![t].stage = "sent"]
  /\ UNCHANGED <<table, session, lastError, remote, trouble>>

(* The server may refuse a request, and one without a client id it must;   *)
(* or do it for the session whose client id it carries: for an earlier one *)
(* that changes nothing in this one.                                       *)
ServerAccepts(t) ==
  LET c == call[t]
  IN  /\ At(t, "sent")
      /\ c.session # 0
      /\ remote' = IF c.session # session THEN remote
                   ELSE IF c.op = "subscribe" THEN remote \cup {c.channel}
                   ELSE IF c.op = "unsubscribe" THEN remote \ {c.channel}
                   ELSE remote
      /\ call' = [call EXCEPT ![t].stage = "accepted"]
      /\ UNCHANGED <<table, session, lastError, trouble>>

ServerRefuses(t) ==
  /\ At(t, "sent")
  /\ call' = [call EXCEPT ![t].stage = "refused"]
  /\ trouble' = TRUE
  /\ UNCHANGED <<table, session, lastError, remote>>

(* The reply is there: cometd_msg_is_successful decides.                   *)
Reply(t) ==
  /\ \/ At(t, "accepted") /\ Skip(t, "SUCCESS")
     \/ At(t, "refused") /\ Skip(t, "UNSUCCESSFUL")
  /\ UNCHANGED <<table, session, lastError, remote, trouble>>

(* No payload: the code is that of the last error, which the transport has *)
(* not set.                                                                *)
NoPayload(t) ==
  /\ At(t, "sent") \/ At(t, "accepted") \/ At(t, "refused")
  /\ Skip(t, lastError)
  /\ trouble' = TRUE
  /\ UNCHANGED <<table, session, lastError, remote>>

-----------------------------------------------------------------------------
(* The public operations, after their POST.  cometd_unsubscribe removes    *)
(* the listener when the code is not success.                              *)

Finish(t) ==
  LET c == call[t]
  IN  /\ At(t, "done")
      /\ CASE c.op = "subscribe" /\ c.code = "SUCCESS" ->
                \E s \in Addresses : L!ListenerAdd(s, c.channel)
           [] c.op = "unsubscribe" /\ c.code # "SUCCESS" ->
                L!ListenerRemove(c.sub)
           [] OTHER -> UNCHANGED table
      /\ call' = [call EXCEPT ![t] = NoCall]
      /\ UNCHANGED <<session, lastError, remote, trouble>>

-----------------------------------------------------------------------------
(* cometd_handshake, on another thread (see Connection): the server knows  *)
(* a new client id without subscriptions, and nothing subscribes again.    *)

HandshakeSucceeds ==
  /\ session < MaxSessions
  /\ session' = session + 1
  /\ remote' = {}
  /\ UNCHANGED <<table, lastError, call, trouble>>

(* http_post_msg, which only a handshake uses, sets last_error; so does a  *)
(* loop that does not start.  Nothing ever clears it.                      *)
HandshakeFails ==
  /\ lastError' = "SEND"
  /\ UNCHANGED <<table, session, call, remote, trouble>>

Next ==
  \/ \E t \in Callers :
       \/ \E p \in Patterns : Subscribe(t, p) \/ Publish(t, p)
       \/ \E s \in Addresses : Unsubscribe(t, s)
       \/ Send(t) \/ ServerAccepts(t) \/ ServerRefuses(t)
       \/ Reply(t) \/ NoPayload(t) \/ Finish(t)
  \/ HandshakeSucceeds
  \/ HandshakeFails

Spec == Init /\ [][Next]_vars

-----------------------------------------------------------------------------
(* Properties *)

Codes == {"SUCCESS", "UNKNOWN", "SEND", "UNSUCCESSFUL"}

(* Every variable has its type.                                            *)
TypeOK ==
  /\ L!TypeOK
  /\ session \in 0..MaxSessions
  /\ lastError \in {"SUCCESS", "SEND"}
  /\ call \in [Callers ->
       [op : {"none", "subscribe", "publish", "unsubscribe"},
        channel : Patterns \cup {NULL}, sub : Addresses \cup {NULL},
        session : 0..MaxSessions,
        stage : {"idle", "send", "sent", "accepted", "refused", "done"},
        code : Codes]]
  /\ remote \subseteq Patterns \ Meta
  /\ trouble \in BOOLEAN

(* With one caller and one session, as long as every request was accepted  *)
(* and answered, a channel with two listeners or more is subscribed at the *)
(* server: none of them is left without messages by another's leaving.     *)
SharedChannelsAreSubscribed ==
  ~trouble /\ session = 1 =>
    \A p \in Patterns \ Meta : L!ListenerCount(p) >= 2 => p \in remote

(* With one caller, as long as every request was accepted and answered,    *)
(* the server sends nothing that no listener here waits for.               *)
NoOrphanedSubscription ==
  ~trouble =>
    \A p \in remote : \/ L!ListenerCount(p) > 0
                      \/ \E t \in Subscribing : call[t].channel = p

(* src/cometd.c:274: the server is told to unsubscribe only for the last   *)
(* remaining listener.  So with one caller, not with two: see the README.  *)
OnlyTheLastUnsubscribes ==
  [][\A t \in Callers :
       ServerAccepts(t) /\ call[t].op = "unsubscribe"
         => L!ListenerCount(call[t].channel) = 1]_vars

(* src/cometd.c:290: the local listener is not removed if the remote call  *)
(* failed.  Not so: see the README.                                        *)
KeptWhenRemoteCallFails ==
  [][\A t \in Callers, s \in Addresses :
       Finish(t) /\ call[t].sub = s /\ call[t].code \in {"UNSUCCESSFUL", "SEND"}
         => channelOf'[s] = channelOf[s]]_vars

=============================================================================
