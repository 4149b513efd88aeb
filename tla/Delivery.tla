------------------------------ MODULE Delivery ------------------------------
(***************************************************************************)
(* From the receive thread to the handlers: the connection (as Link, which *)
(* Connection implements), the inbox step by step, the threads inside      *)
(* cometd_listen, and an application that uses one handle the way          *)
(* examples/stress.c does: it connects, starts to listen, disconnects, and *)
(* joins its listeners.                                                    *)
(***************************************************************************)
EXTENDS Integers, Sequences, FiniteSets

CONSTANTS
  Loop, Consumers, Free, MaxMessages, Payloads,  \* as in Inbox
  MaxConnects                                    \* as in Link

ASSUME DeliveryAssumption ==
  /\ Loop \notin Consumers
  /\ Free \notin Consumers \cup {Loop}
  /\ IsFiniteSet(Consumers)
  /\ MaxMessages \in Nat /\ Payloads \subseteq Nat
  /\ MaxConnects \in Nat

VARIABLES
  state, app, loop, connects,             \* as in Link
  queue, owner, waiting, pc, left, late,  \* as in Inbox
  pushed, taken, result,
  listener,     \* where each thread stands in cometd_listen
  dispatched,   \* the messages given to the handlers so far
  handle        \* "open", "joining" (the listeners) or "joined"

(* For the properties only: how many messages had been pushed when a       *)
(* thread in cometd_listen last found that the connection goes on.         *)
VARIABLE seen

K == INSTANCE Link
B == INSTANCE Inbox

link  == <<state, app, loop, connects>>
inbox == <<queue, owner, waiting, pc, left, late, pushed, taken, result>>
vars  == <<link, inbox, listener, dispatched, handle, seen>>

NULL == 0

Init ==
  /\ K!Init
  /\ B!Init
  /\ listener = [c \in Consumers |-> "none"]
  /\ dispatched = <<>>
  /\ handle = "open"
  /\ seen = [c \in Consumers |-> 0]

Goes(c, from, to) ==
  listener[c] = from /\ listener' = [listener EXCEPT ![c] = to]

-----------------------------------------------------------------------------
(* The connection.  The receive thread pushes the payload, all of it,      *)
(* before it processes the connect message and does anything else.         *)

AppCalls ==
  /\ handle = "open"
  /\ K!Connect \/ (\E wait \in BOOLEAN : K!Disconnect(wait)) \/ K!AppStep
  /\ UNCHANGED <<inbox, listener, dispatched, handle, seen>>

Pushing == pc[Loop] # "idle"

LoopReceives(n) ==
  /\ K!Receive
  /\ B!Push(n)
  /\ UNCHANGED <<listener, dispatched, handle, seen>>

LoopPushes ==
  /\ B!PushStep
  /\ UNCHANGED <<link, listener, dispatched, handle, seen>>

LoopGoesOn ==
  /\ ~Pushing
  /\ loop # "receiving"
  /\ K!LoopStep
  /\ UNCHANGED <<inbox, listener, dispatched, handle, seen>>

-----------------------------------------------------------------------------
(* cometd_listen: the outer loop tests the state, the inner one takes until *)
(* a take returns NULL.                                                    *)

(* Mutant: DISCONNECTED is forgotten in the mask.                          *)
Stop_Disconnecting == {"UNINITIALIZED", "DISCONNECTING"}

Stop == K!Over \cup {"UNINITIALIZED"}

(* cometd_listen_async, or a thread of the application's own               *)
Listen(c) ==
  /\ handle = "open"
  /\ Goes(c, "none", "testing")
  /\ UNCHANGED <<link, inbox, dispatched, handle, seen>>

ListenReturns(c) ==
  /\ state \in Stop
  /\ Goes(c, "testing", "returned")
  /\ UNCHANGED <<link, inbox, dispatched, handle, seen>>

ListenGoesOn(c) ==
  /\ state \notin Stop
  /\ Goes(c, "testing", "taking")
  /\ B!Take(c)
  /\ seen' = [seen EXCEPT ![c] = pushed]
  /\ UNCHANGED <<link, dispatched, handle>>

(* Inside cometd_inbox_take, what the thread does and what happens to it   *)
TakeGoesOn(c) ==
  /\ \/ B!TakeLock(c) \/ B!Test(c) \/ B!TimedWait(c) \/ B!Reacquire(c)
     \/ B!Pop(c)
  /\ UNCHANGED <<link, listener, dispatched, handle, seen>>

WaitEnds(c) ==
  /\ B!DeadlinePasses(c) \/ B!TimeOut(c)
  /\ UNCHANGED <<link, listener, dispatched, handle, seen>>

WaitEndsEarly(c) ==
  /\ B!SpuriousWakeUp(c)
  /\ UNCHANGED <<link, listener, dispatched, handle, seen>>

(* Mutants: NULL is dispatched like a message; a message is dropped.       *)
TakeEnds_NullToo(c) ==
  /\ B!TakeUnlock(c)
  /\ Goes(c, "taking", "dispatching")
  /\ UNCHANGED <<link, dispatched, handle, seen>>

TakeEnds_Drops(c) ==
  /\ B!TakeUnlock(c)
  /\ Goes(c, "taking", "testing")
  /\ UNCHANGED <<link, dispatched, handle, seen>>

TakeEnds(c) ==
  /\ B!TakeUnlock(c)
  /\ Goes(c, "taking", IF result[c] = NULL THEN "testing" ELSE "dispatching")
  /\ UNCHANGED <<link, dispatched, handle, seen>>

(* Mutant: the state is tested after each message.                         *)
Dispatch_ThenTest(c) ==
  /\ Goes(c, "dispatching", "testing")
  /\ dispatched' = Append(dispatched, result[c])
  /\ UNCHANGED <<link, inbox, handle, seen>>

(* cometd_process_msg, and on to the next take                             *)
Dispatch(c) ==
  /\ Goes(c, "dispatching", "taking")
  /\ dispatched' = Append(dispatched, result[c])
  /\ B!Take(c)
  /\ UNCHANGED <<link, handle, seen>>

-----------------------------------------------------------------------------
(* The end of the application: it has disconnected, or never got connected,*)
(* and joins its listeners. That they are joined before the handle is      *)
(* destroyed is the order of the program; cometd_destroy does not wait.    *)

StartJoining ==
  /\ handle = "open"
  /\ app = "idle"
  /\ handle' = "joining"
  /\ UNCHANGED <<link, inbox, listener, dispatched, seen>>

(* g_thread_join of every listener                                         *)
JoinListeners ==
  /\ handle = "joining"
  /\ \A c \in Consumers : listener[c] \in {"none", "returned"}
  /\ handle' = "joined"
  /\ UNCHANGED <<link, inbox, listener, dispatched, seen>>

Finished == handle = "joined" /\ UNCHANGED vars

-----------------------------------------------------------------------------

ListenStep(c) == \/ ListenReturns(c) \/ ListenGoesOn(c) \/ TakeGoesOn(c)
                 \/ TakeEnds(c) \/ Dispatch(c)

Next == \/ AppCalls
        \/ \E n \in Payloads : LoopReceives(n)
        \/ LoopPushes \/ LoopGoesOn
        \/ \E c \in Consumers : \/ Listen(c) \/ ListenStep(c)
                                \/ WaitEnds(c) \/ WaitEndsEarly(c)
        \/ StartJoining \/ JoinListeners \/ Finished

Spec == Init /\ [][Next]_vars

(* Threads that can go on do, time passes and GLib ends a wait at its      *)
(* deadline.  Whether and when to connect, listen and disconnect is up to  *)
(* the application, what to answer up to the server.                       *)
Fairness ==
  /\ WF_vars(LoopPushes) /\ WF_vars(LoopGoesOn)
  /\ \A c \in Consumers : WF_vars(ListenStep(c)) /\ WF_vars(WaitEnds(c))
  /\ WF_vars(JoinListeners)

FairSpec == Spec /\ Fairness

-----------------------------------------------------------------------------
(* Properties *)

ListenPhases == {"none", "testing", "taking", "dispatching", "returned"}

(* Every variable has its type, and a listener is inside cometd_inbox_take *)
(* exactly when cometd_listen has called it.                               *)
TypeOK ==
  /\ state \in K!States /\ app \in K!AppPhases /\ loop \in K!LoopPhases
  /\ connects \in 0..MaxConnects
  /\ B!TypeOK
  /\ listener \in [Consumers -> ListenPhases]
  /\ dispatched \in Seq(1..MaxMessages)
  /\ handle \in {"open", "joining", "joined"}
  /\ seen \in [Consumers -> 0..pushed]
  /\ \A c \in Consumers : listener[c] = "taking" <=> pc[c] # "idle"

(* A single listener gives the handlers every message it takes, once, in   *)
(* the order in which the server sent them, and holds one at most that it  *)
(* has not.                                                                *)
DispatchesInOrder ==
  Cardinality(Consumers) = 1 =>
    /\ dispatched = [i \in 1..Len(dispatched) |-> i]
    /\ taken - Len(dispatched) =
         Cardinality({c \in Consumers : /\ pc[c] \in {"take_unlock", "idle"}
                                        /\ listener[c] \in {"taking", "dispatching"}
                                        /\ result[c] # NULL})

(* What had been pushed when cometd_listen last found that the connection  *)
(* goes on has been taken when it returns: it does not look at the state   *)
(* between the messages of a payload. Messages pushed later may be left in *)
(* the inbox, also by a receive thread that then ends the connection, and  *)
(* a cometd_listen that finds it ended at once takes nothing.              *)
ListenDrainsTheInbox ==
  \A c \in Consumers : listener[c] = "returned" => taken >= seen[c]

Listening == {c \in Consumers : listener[c] \notin {"none", "returned"}}

(* While somebody listens, what the receive thread pushes gets to the      *)
(* handlers, unless the connection ends and the listeners with it.         *)
EveryMessageIsDispatched ==
  \A n \in 1..MaxMessages :
    (pushed >= n /\ Listening # {}) ~> (Len(dispatched) >= n \/ Listening = {})

(* cometd_listen returns once nobody receives any more: after the receive  *)
(* thread has given up, as long as cometd_connect has not overwritten the  *)
(* state it left; and in the shutdown of examples/stress.c, whose join     *)
(* then ends.  Two states are not in the mask of cometd_listen, which then *)
(* goes on for ever: HANDSHAKE_SUCCESS when the last cometd_connect failed *)
(* after its handshake had succeeded, and CONNECTED when the receive       *)
(* thread had given up before cometd_connect returned and the application  *)
(* then called cometd_disconnect(h, 1).                                    *)
ListeningEnds ==
  /\ (loop = "done" /\ state = "DISCONNECTED" /\ app = "connected")
       ~> (Listening = {} \/ app # "connected")
  /\ (handle = "joining" /\ state \in Stop) ~> handle = "joined"

(* There is no third state in which a shutdown may hang.                   *)
StateAtTheEnd ==
  handle # "open" => state \in Stop \cup {"HANDSHAKE_SUCCESS", "CONNECTED"}

=============================================================================
