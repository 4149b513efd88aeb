------------------------------ MODULE Messages ------------------------------
(***************************************************************************)
(* The way of a message through the library: built by a thread with an id  *)
(* (src/cometd.c, src/msg.c), shown to the outgoing extensions, posted,    *)
(* answered by a payload of messages; these are taken apart, handed to a   *)
(* thread, shown to the incoming extensions and given to the listeners     *)
(* (src/ext.c, cometd_process_msg).                                        *)
(*                                                                         *)
(* Three kinds of thread do this at once: callers of cometd_publish and    *)
(* the like, which handle the reply themselves; the receive thread, which  *)
(* handles one connect message of each payload and pushes the others to    *)
(* the inbox; and a thread in cometd_listen, which handles those.  The     *)
(* inbox is a sequence here, as Mailbox has it.  Listeners send nothing:   *)
(* the handshakes made by cometd_process_connect are in Connection.        *)
(***************************************************************************)
EXTENDS Integers, Sequences, SequencesExt, FiniteSetsExt

CONSTANTS
  Callers,      \* threads of the application that send
  Loop,         \* the receive thread
  Listener,     \* the thread in cometd_listen
  Exts,         \* extensions ...
  Incoming,     \* ... those with an incoming callback
  Outgoing,     \* ... and those with an outgoing one
  MaxRequests,  \* bounds the requests of all threads
  MaxPayload    \* bounds the messages of a payload

ASSUME MessagesAssumption ==
  /\ Loop \notin Callers /\ Listener \notin Callers /\ Loop # Listener
  /\ Incoming \subseteq Exts /\ Outgoing \subseteq Exts
  /\ MaxRequests \in Nat /\ MaxPayload \in Nat

VARIABLES
  exts,      \* h->exts
  seed,      \* conn->msg_id_seed
  ids,       \* history: the ids given, in the order they were stored
  raced,     \* history: two increments of the seed have overlapped
  requests,  \* requests begun so far
  pc,        \* where each thread stands
  seen,      \* the seed each thread has read
  message,   \* what each thread has built: its id, who has changed it
  outgoing,  \* what is posted of it
  posted,    \* what each thread has posted
  sent,      \* the messages received, numbered
  batch,     \* what each thread is about to handle
  connect,   \* the connect message taken out of a payload, or none
  inbox,     \* h->inbox
  handled    \* what each thread has given to the listeners

sending   == <<ids, raced, requests, seen, message, outgoing, posted>>
receiving == <<sent, batch, connect, inbox, handled>>
vars      == <<exts, seed, pc, sending, receiving>>

Senders == Callers \cup {Loop}
Threads == Senders \cup {Listener}

Kinds == {"connect", "event"}

None == [id |-> 0, marks |-> <<>>]

Init ==
  /\ exts = <<>>
  /\ seed = 0 /\ ids = <<>> /\ raced = FALSE
  /\ requests = 0
  /\ pc = [t \in Threads |-> "idle"]
  /\ seen = [t \in Senders |-> 0]
  /\ message = [t \in Senders |-> None]
  /\ outgoing = [t \in Senders |-> None]
  /\ posted = [t \in Senders |-> <<>>]
  /\ sent = 0
  /\ batch = [t \in Threads |-> <<>>]
  /\ connect = <<>>
  /\ inbox = <<>>
  /\ handled = [t \in Threads |-> <<>>]

Goes(t, from, to) == pc[t] = from /\ pc' = [pc EXCEPT ![t] = to]

-----------------------------------------------------------------------------
(* Extensions are set up before anything is sent, as examples/yammer.c     *)
(* does it: another thread in cometd_impl_ext_fire would walk a list that  *)
(* changes.  Removing an extension frees it.                               *)

ExtAdd(e) ==
  /\ requests = 0
  /\ ~Contains(exts, e)
  /\ exts' = Append(exts, e)
  /\ UNCHANGED <<seed, pc, sending, receiving>>

ExtRemove(e) ==
  /\ requests = 0
  /\ Contains(exts, e)
  /\ exts' = RemoveFirst(exts, e)
  /\ UNCHANGED <<seed, pc, sending, receiving>>

(* The marks on a message after the callbacks of a direction, called in    *)
(* the order of the list, have each left theirs.                           *)
Called(marks, direction) ==
  LET after[n \in 0..Len(exts)] ==
        IF n = 0 THEN marks
        ELSE IF exts[n] \in direction THEN Append(after[n - 1], exts[n])
        ELSE after[n - 1]
  IN  after[Len(exts)]

ExtFire(m, direction) == [m EXCEPT !.marks = Called(@, direction)]

-----------------------------------------------------------------------------
(* Building a message: ++msg_id_seed is a load and a store.                *)

ReadSeed(t) ==
  /\ seen' = [seen EXCEPT ![t] = seed]
  /\ raced' = (raced \/ \E u \in Senders \ {t} : pc[u] \in {"building", "rebuilding"})

Begin(t) ==
  /\ requests < MaxRequests
  /\ requests' = requests + 1
  /\ Goes(t, "idle", "building")
  /\ ReadSeed(t)
  /\ UNCHANGED <<exts, seed, ids, message, outgoing, posted, receiving>>

(* Mutant: the id is taken, the seed is left as it was.                    *)
WriteSeed_NotStored(t) ==
  /\ seed' = seed
  /\ ids' = Append(ids, seen[t] + 1)

WriteSeed(t) ==
  /\ seed' = seen[t] + 1
  /\ ids' = Append(ids, seed')

(* The constructors of cometd_publish, _subscribe, _unsubscribe and        *)
(* _handshake                                                              *)
Build(t) ==
  /\ t \in Callers
  /\ Goes(t, "building", "built")
  /\ WriteSeed(t)
  /\ message' = [message EXCEPT ![t] = [id |-> seen[t] + 1, marks |-> <<>>]]
  /\ UNCHANGED <<exts, raced, requests, seen, outgoing, posted, receiving>>

(* The receive thread's connect message is posted itself: no extension     *)
(* gets to see it.                                                         *)
BuildConnect ==
  /\ Goes(Loop, "building", "posting")
  /\ WriteSeed(Loop)
  /\ message' = [message EXCEPT ![Loop] = [id |-> seen[Loop] + 1, marks |-> <<>>]]
  /\ outgoing' = [outgoing EXCEPT ![Loop] = message'[Loop]]
  /\ UNCHANGED <<exts, raced, requests, seen, posted, receiving>>

(* cometd_impl_send_msg_sync: the extensions are called with the message.  *)
(* What is posted is a node of its own, made before that, but of the same  *)
(* JSON object (json_node_copy takes a reference): it has what they add.   *)

(* Mutant: the object is copied, too.                                      *)
SendMsgSync_DeepCopy(t) ==
  /\ Goes(t, "built", "posting")
  /\ outgoing' = [outgoing EXCEPT ![t] = message[t]]
  /\ message' = [message EXCEPT ![t] = ExtFire(message[t], Outgoing)]
  /\ UNCHANGED <<exts, seed, ids, raced, requests, seen, posted, receiving>>

SendMsgSync(t) ==
  /\ Goes(t, "built", "posting")
  /\ message' = [message EXCEPT ![t] = ExtFire(message[t], Outgoing)]
  /\ outgoing' = [outgoing EXCEPT ![t] = message'[t]]
  /\ UNCHANGED <<exts, seed, ids, raced, requests, seen, posted, receiving>>

-----------------------------------------------------------------------------
(* Posting it, and what comes back                                         *)

Post(t) == posted' = [posted EXCEPT ![t] = Append(@, outgoing[t])]

(* Mutant: messages are counted from 0.                                    *)
Received_FromZero(kinds) ==
  [i \in 1..Len(kinds) |-> [no |-> sent + i - 1, kind |-> kinds[i],
                            payload |-> sent + 1, marks |-> <<>>]]

Received(kinds) ==
  [i \in 1..Len(kinds) |-> [no |-> sent + i, kind |-> kinds[i],
                            payload |-> sent + 1, marks |-> <<>>]]

Connects(msgs) == {i \in 1..Len(msgs) : msgs[i].kind = "connect"}

(* A caller processes the messages of the reply itself, in order.          *)
Answer(t, kinds) ==
  /\ t \in Callers
  /\ Goes(t, "posting", IF kinds = <<>> THEN "idle" ELSE "processing")
  /\ Post(t)
  /\ sent' = sent + Len(kinds)
  /\ batch' = [batch EXCEPT ![t] = Received(kinds)]
  /\ UNCHANGED <<exts, seed, ids, raced, requests, seen, message, outgoing,
                 connect, inbox, handled>>

(* cometd_msg_extract_connect takes the last connect message out of a      *)
(* payload.                                                                *)

(* Mutants: it stays in the payload; the first one is taken out.           *)
ExtractConnect_Keeps(msgs) ==
  IF Connects(msgs) = {}
  THEN batch' = [batch EXCEPT ![Loop] = msgs] /\ connect' = <<>>
  ELSE LET i == Max(Connects(msgs))
       IN  /\ batch' = [batch EXCEPT ![Loop] = msgs]
           /\ connect' = <<msgs[i]>>

ExtractConnect_First(msgs) ==
  IF Connects(msgs) = {}
  THEN batch' = [batch EXCEPT ![Loop] = msgs] /\ connect' = <<>>
  ELSE LET i == Min(Connects(msgs))
       IN  /\ batch' = [batch EXCEPT ![Loop] = RemoveAt(msgs, i)]
           /\ connect' = <<msgs[i]>>

ExtractConnect(msgs) ==
  IF Connects(msgs) = {}
  THEN batch' = [batch EXCEPT ![Loop] = msgs] /\ connect' = <<>>
  ELSE LET i == Max(Connects(msgs))
       IN  /\ batch' = [batch EXCEPT ![Loop] = RemoveAt(msgs, i)]
           /\ connect' = <<msgs[i]>>

AnswerConnect(kinds) ==
  /\ Goes(Loop, "posting", "pushing")
  /\ Post(Loop)
  /\ sent' = sent + Len(kinds)
  /\ ExtractConnect(Received(kinds))
  /\ UNCHANGED <<exts, seed, ids, raced, requests, seen, message, outgoing,
                 inbox, handled>>

(* No answer in time, or one that does not parse: a caller gives up ...    *)
NoAnswer(t) ==
  /\ t \in Callers
  /\ Goes(t, "posting", "idle")
  /\ Post(t)
  /\ UNCHANGED <<exts, seed, ids, raced, requests, seen, message, outgoing,
                 receiving>>

(* ... and the receive thread makes up an unsuccessful connect message,    *)
(* with an id of its own.                                                  *)
NoAnswerToConnect ==
  /\ Goes(Loop, "posting", "rebuilding")
  /\ Post(Loop)
  /\ ReadSeed(Loop)
  /\ UNCHANGED <<exts, seed, ids, requests, message, outgoing, receiving>>

BuildBadConnect ==
  /\ Goes(Loop, "rebuilding", "pushing")
  /\ WriteSeed(Loop)
  /\ sent' = sent + 1
  /\ ExtractConnect(Received(<<"connect">>))
  /\ UNCHANGED <<exts, raced, requests, seen, message, outgoing, posted,
                 inbox, handled>>

-----------------------------------------------------------------------------
(* Handling it *)

PushMsg ==
  /\ pc[Loop] = "pushing" /\ batch[Loop] # <<>>
  /\ inbox' = Append(inbox, Head(batch[Loop]))
  /\ batch' = [batch EXCEPT ![Loop] = Tail(@)]
  /\ UNCHANGED <<exts, seed, pc, sending, sent, connect, handled>>

PushEnds ==
  /\ batch[Loop] = <<>>
  /\ Goes(Loop, "pushing", "processing")
  /\ batch' = [batch EXCEPT ![Loop] = connect]
  /\ connect' = <<>>
  /\ UNCHANGED <<exts, seed, sending, sent, inbox, handled>>

TakeMsg ==
  /\ inbox # <<>>
  /\ Goes(Listener, "idle", "processing")
  /\ batch' = [batch EXCEPT ![Listener] = <<Head(inbox)>>]
  /\ inbox' = Tail(inbox)
  /\ UNCHANGED <<exts, seed, sending, sent, connect, handled>>

(* cometd_process_msg(h, NULL), after a payload without a connect message: *)
(* the incoming extensions are called with NULL, the listeners, which      *)
(* NULL has no channel to be found by, are not.                            *)
ProcessNull ==
  /\ batch[Loop] = <<>>
  /\ Goes(Loop, "processing", "idle")
  /\ UNCHANGED <<exts, seed, sending, receiving>>

FireIncoming(t) ==
  /\ batch[t] # <<>>
  /\ Goes(t, "processing", "firing")
  /\ batch' = [batch EXCEPT ![t] = <<ExtFire(Head(@), Incoming)>> \o Tail(@)]
  /\ UNCHANGED <<exts, seed, sending, sent, connect, inbox, handled>>

(* Mutant: one listener that returns an error ends the payload.            *)
FireListeners_OneOnly(t) ==
  /\ Goes(t, "firing", "idle")
  /\ handled' = [handled EXCEPT ![t] = Append(@, Head(batch[t]))]
  /\ batch' = [batch EXCEPT ![t] = <<>>]
  /\ UNCHANGED <<exts, seed, sending, sent, connect, inbox>>

FireListeners(t) ==
  /\ Goes(t, "firing", IF Len(batch[t]) = 1 THEN "idle" ELSE "processing")
  /\ handled' = [handled EXCEPT ![t] = Append(@, Head(batch[t]))]
  /\ batch' = [batch EXCEPT ![t] = Tail(@)]
  /\ UNCHANGED <<exts, seed, sending, sent, connect, inbox>>

-----------------------------------------------------------------------------

Payloads == SeqOf(Kinds, MaxPayload)

Process(t) == FireIncoming(t) \/ FireListeners(t)

CallerStep(t) ==
  \/ Build(t) \/ SendMsgSync(t) \/ NoAnswer(t)
  \/ \E kinds \in Payloads : Answer(t, kinds)
  \/ Process(t)

LoopStep ==
  \/ BuildConnect \/ NoAnswerToConnect \/ BuildBadConnect
  \/ \E kinds \in Payloads : AnswerConnect(kinds)
  \/ PushMsg \/ PushEnds \/ ProcessNull \/ Process(Loop)

ListenStep == TakeMsg \/ Process(Listener)

Next ==
  \/ \E e \in Exts : ExtAdd(e) \/ ExtRemove(e)
  \/ \E t \in Senders : Begin(t)
  \/ \E t \in Callers : CallerStep(t)
  \/ LoopStep
  \/ ListenStep

Spec == Init /\ [][Next]_vars

(* Threads that can go on do; a request is answered or times out.          *)
Fairness ==
  /\ \A t \in Callers : WF_vars(CallerStep(t))
  /\ WF_vars(LoopStep)
  /\ WF_vars(ListenStep)

FairSpec == Spec /\ Fairness

-----------------------------------------------------------------------------
(* Properties *)

Marks == Seq(Exts)

Reception == [no : 1..sent, kind : Kinds, payload : 1..sent, marks : Marks]

(* Every variable has its type.                                            *)
TypeOK ==
  /\ exts \in Marks
  /\ seed \in 0..Len(ids) /\ ids \in Seq(1..Len(ids)) /\ raced \in BOOLEAN
  /\ requests \in 0..MaxRequests
  /\ pc \in [Threads -> {"idle", "building", "built", "posting", "rebuilding",
                         "pushing", "processing", "firing"}]
  /\ seen \in [Senders -> 0..Len(ids)]
  /\ message \in [Senders -> [id : 0..Len(ids), marks : Marks]]
  /\ outgoing \in [Senders -> [id : 0..Len(ids), marks : Marks]]
  /\ \A t \in Senders : \A i \in 1..Len(posted[t]) : posted[t][i].id \in 1..Len(ids)
  /\ batch \in [Threads -> Seq(Reception)]
  /\ connect \in Seq(Reception) /\ Len(connect) <= 1
  /\ inbox \in Seq(Reception)
  /\ handled \in [Threads -> Seq(Reception)]

(* Two messages have the same id only if increments of the seed have       *)
(* overlapped, and even then no id is skipped.  (After an overlap ids that *)
(* have long been used may come again, not only the one of that moment:    *)
(* the store that is late sets the seed back.)                             *)
IdsRepeatOnlyInARace ==
  /\ ~raced => \A i, j \in 1..Len(ids) : ids[i] = ids[j] => i = j
  /\ \A i \in 1..Len(ids) : \A id \in 1..ids[i] : \E j \in 1..i : ids[j] = id

Count(msgs, n) == Cardinality({i \in 1..Len(msgs) : msgs[i].no = n})

(* Every message received, and every unsuccessful connect made up, is in   *)
(* one place: with the thread that will handle it, in the inbox, or        *)
(* handled; none is handled twice, by two threads or by one, none is lost. *)
EveryMessageHasOnePlace ==
  \A n \in 1..sent :
    LET with(t) == Count(handled[t] \o batch[t], n)
        none(S) == \A t \in S : with(t) = 0
        shared  == Count(inbox \o connect, n)
    IN  \/ shared = 1 /\ none(Threads)
        \/ shared = 0 /\ \E t \in Threads : with(t) = 1 /\ none(Threads \ {t})

ToListener == handled[Listener] \o batch[Listener] \o inbox \o
                (IF pc[Loop] = "pushing" THEN batch[Loop] ELSE <<>>)
ToLoop     == handled[Loop] \o
                (IF pc[Loop] = "pushing" THEN connect ELSE batch[Loop])

(* Of each payload the receive thread handles the last connect message,    *)
(* and nothing else; the listening thread gets the others in the order     *)
(* sent, over all payloads.  A connect message reaches that thread, and    *)
(* cometd_process_connect runs on it, only if the server puts two of them  *)
(* in one payload.                                                         *)
PayloadsAreSplit ==
  /\ \A i, j \in 1..Len(ToListener) : i < j => ToListener[i].no < ToListener[j].no
  /\ \A i \in 1..Len(ToLoop) : ToLoop[i].kind = "connect"
  /\ \A i \in 1..Len(ToListener) :
       ToListener[i].kind = "connect" =>
         \E j \in 1..Len(ToLoop) : /\ ToLoop[j].payload = ToListener[i].payload
                                  /\ ToLoop[j].no > ToListener[i].no

(* The extensions of a direction have each left their mark once, in the    *)
(* order in which they were added.                                         *)
ShownTo(direction, marks) ==
  /\ IsInjective(marks) /\ ToSet(marks) = ToSet(exts) \cap direction
  /\ \A i, j \in 1..Len(marks) :
       i < j => \E k, l \in 1..Len(exts) :
                  k < l /\ marks[i] = exts[k] /\ marks[j] = exts[l]

(* A listener gets its message after every incoming extension, once and in *)
(* the order in which they were added, whichever thread handles it; the    *)
(* server gets what a caller sends with what every outgoing extension has  *)
(* made of it.  The receive thread's connect messages no extension sees.   *)
ExtensionsSeeEachMessage ==
  /\ \A t \in Threads : \A i \in 1..Len(handled[t]) :
       ShownTo(Incoming, handled[t][i].marks)
  /\ \A t \in Callers : \A i \in 1..Len(posted[t]) :
       ShownTo(Outgoing, posted[t][i].marks)
  /\ \A i \in 1..Len(posted[Loop]) : posted[Loop][i].marks = <<>>

(* Every message that is received gets to the listeners, also when others  *)
(* of its payload meet a listener that fails.                              *)
EveryMessageIsHandled ==
  \A n \in 1..MaxRequests * (MaxPayload + 1) :
    sent >= n ~> \E t \in Threads : Count(handled[t], n) = 1

=============================================================================
