--------------------------- MODULE DeliveryProofs ---------------------------
(***************************************************************************)
(* Proofs about Delivery, for any number of listeners, messages and        *)
(* connections.  The inbox is a component: InboxProofs gives what the      *)
(* messages on their way to the handlers need of it.                       *)
(***************************************************************************)
EXTENDS Delivery, FiniteSetTheorems, SequenceTheorems, TLAPS

(* The phases of the threads inside the connection and the inbox.          *)
Phases ==
  /\ state \in K!States /\ app \in K!AppPhases /\ loop \in K!LoopPhases
  /\ pc \in [B!Threads -> B!PushPC \cup B!TakePC]
  /\ listener \in [Consumers -> ListenPhases]
  /\ DOMAIN result = Consumers
  /\ handle \in {"open", "joining", "joined"}

(* There is a receive thread only between a successful cometd_connect and  *)
(* the join, it pushes only while it lives, and does not leave a failing   *)
(* connection behind.                                                      *)
LoopLives ==
  /\ loop = "none" <=> app \in {"idle", "connecting"}
  /\ pc[Loop] # "idle" => loop \notin {"none", "done"}
  /\ state = "UNCONNECTED" => loop \notin {"none", "done"}

(* A thread is inside cometd_inbox_take exactly when cometd_listen called  *)
(* it, and tests the state only after a take that returned NULL.           *)
TakesInsideListen ==
  \A c \in Consumers :
    /\ listener[c] = "taking" <=> pc[c] # "idle"
    /\ listener[c] \in {"none", "testing", "returned"} => result[c] = NULL

(* The mutex is held, and its condition waited on, from inside the inbox.  *)
LockInUse ==
  /\ owner # Free => owner \in B!Threads /\ pc[owner] # "idle"
  /\ \A c \in waiting : c \in Consumers /\ pc[c] = "waiting"

(* The application is done with the connection before it joins.            *)
ClosingOrder == handle # "open" => app = "idle"

IInv == Phases /\ LoopLives /\ TakesInsideListen /\ LockInUse /\ ClosingOrder

LEMMA InitInvariant == Init => IInv
BY DeliveryAssumption
DEF Init, IInv, Phases, LoopLives, TakesInsideListen, LockInUse, ClosingOrder,
    ListenPhases, NULL, K!Init, K!States, K!AppPhases, K!LoopPhases,
    B!Init, B!Threads, B!PushPC, B!TakePC, B!NULL

-----------------------------------------------------------------------------
(* Each part of the system preserves the invariant. *)

LEMMA AppStep == ASSUME IInv, AppCalls PROVE IInv'
<1> USE DEF IInv, Phases, LoopLives, K!States, K!AppPhases, K!LoopPhases, K!AppGoes
<1>1. /\ UNCHANGED <<inbox, listener, handle>>
      /\ handle = "open"
  BY DEF AppCalls
<1>2. TakesInsideListen' /\ LockInUse' /\ ClosingOrder'
  BY <1>1 DEF TakesInsideListen, LockInUse, ClosingOrder, inbox
<1>3. Phases' /\ LoopLives'
  <2>1. CASE K!Connect
    BY <1>1, <2>1 DEF K!Connect, inbox
  <2>2. ASSUME NEW wait \in BOOLEAN, K!Disconnect(wait)
        PROVE  Phases' /\ LoopLives'
    BY <1>1, <2>2 DEF K!Disconnect, inbox
  <2>3. CASE K!AppHandshake \/ K!ConnectFails \/ K!SetConnected
    BY <1>1, <2>3 DEF K!AppHandshake, K!ConnectFails, K!SetConnected, inbox
  <2>4. CASE K!Start
    BY <1>1, <2>4 DEF K!Start, inbox
  <2>5. CASE K!Join
    BY <1>1, <2>5 DEF K!Join, inbox
  <2> QED
    BY <2>1, <2>2, <2>3, <2>4, <2>5 DEF AppCalls, K!AppStep
<1> QED
  BY <1>2, <1>3

LEMMA LoopStep ==
  ASSUME IInv, (\E n \in Payloads : LoopReceives(n)) \/ LoopPushes \/ LoopGoesOn
  PROVE  IInv'
<1> USE DeliveryAssumption
    DEF IInv, Phases, LoopLives, TakesInsideListen, LockInUse, ClosingOrder,
        K!States, K!AppPhases, K!LoopPhases, K!LoopGoes
<1>1. ASSUME NEW n \in Payloads, LoopReceives(n) PROVE IInv'
  BY <1>1 DEF LoopReceives, K!Receive, B!Push, B!Goto, B!Threads, B!PushPC, B!TakePC
<1>2. CASE LoopPushes
  <2>1. UNCHANGED <<state, app, loop, result, listener, handle>>
    BY <1>2 DEF LoopPushes, link, B!PushStep, B!PushLock, B!PushAppend,
                B!PushSignal, B!PushUnlock
  <2>2. CASE B!PushLock \/ B!PushAppend
    BY <2>1, <2>2
    DEF B!PushLock, B!PushAppend, B!Goto, B!Lock, B!Threads, B!PushPC, B!TakePC
  <2>3. CASE B!PushSignal
    BY <2>1, <2>3 DEF B!PushSignal, B!Threads, B!PushPC, B!TakePC
  <2>4. CASE B!PushUnlock
    BY <2>1, <2>4 DEF B!PushUnlock, B!Goto, B!Unlock, B!Threads, B!PushPC, B!TakePC
  <2> QED
    BY <1>2, <2>2, <2>3, <2>4 DEF LoopPushes, B!PushStep
<1>3. CASE LoopGoesOn
  <2>1. /\ pc[Loop] = "idle"
        /\ UNCHANGED <<pc, owner, waiting, result, listener, handle>>
    BY <1>3 DEF LoopGoesOn, Pushing, inbox
  <2>2. CASE K!Decide \/ K!Receive \/ K!Process \/ K!Update
    BY <2>1, <2>2 DEF K!Decide, K!Receive, K!Process, K!Update
  <2>3. CASE K!LoopHandshake \/ K!Retry \/ K!Exit
    BY <2>1, <2>3 DEF K!LoopHandshake, K!Retry, K!Exit
  <2> QED
    BY <1>3, <2>2, <2>3 DEF LoopGoesOn, K!LoopStep
<1> QED
  BY <1>1, <1>2, <1>3

LEMMA ListenerStep ==
  ASSUME IInv, NEW c \in Consumers,
         Listen(c) \/ ListenStep(c) \/ WaitEnds(c) \/ WaitEndsEarly(c)
  PROVE  IInv'
<1> USE DeliveryAssumption
    DEF IInv, Phases, LoopLives, TakesInsideListen, LockInUse, ClosingOrder,
        ListenPhases, Goes, link, B!Goto, B!Threads, B!PushPC, B!TakePC
<1>1. CASE Listen(c) \/ ListenReturns(c)
  BY <1>1 DEF Listen, ListenReturns, inbox
<1>2. CASE ListenGoesOn(c)
  BY <1>2 DEF ListenGoesOn, B!Take
<1>3. CASE TakeGoesOn(c)
  <2>1. UNCHANGED <<state, app, loop, listener, handle>>
    BY <1>3 DEF TakeGoesOn
  <2>2. CASE B!TakeLock(c) \/ B!Test(c)
    BY <2>1, <2>2 DEF B!TakeLock, B!Test, B!Lock
  <2>3. CASE B!TimedWait(c)
    BY <2>1, <2>3 DEF B!TimedWait, B!Unlock
  <2>4. CASE B!Reacquire(c)
    BY <2>1, <2>4 DEF B!Reacquire, B!Lock
  <2>5. CASE B!Pop(c)
    BY <2>1, <2>5 DEF B!Pop
  <2> QED
    BY <1>3, <2>2, <2>3, <2>4, <2>5 DEF TakeGoesOn
<1>4. CASE WaitEnds(c)
  BY <1>4 DEF WaitEnds, B!DeadlinePasses, B!TimeOut
<1>5. CASE WaitEndsEarly(c)
  BY <1>5 DEF WaitEndsEarly, B!SpuriousWakeUp
<1>6. CASE TakeEnds(c)
  BY <1>6 DEF TakeEnds, B!TakeUnlock, B!Unlock
<1>7. CASE Dispatch(c)
  BY <1>7 DEF Dispatch, B!Take
<1> QED
  BY <1>1, <1>2, <1>3, <1>4, <1>5, <1>6, <1>7 DEF ListenStep

LEMMA JoiningStep == ASSUME IInv, StartJoining \/ JoinListeners PROVE IInv'
BY DEF IInv, Phases, LoopLives, TakesInsideListen, LockInUse, ClosingOrder,
       StartJoining, JoinListeners, link, inbox

LEMMA NextInvariant == IInv /\ [Next]_vars => IInv'
<1> SUFFICES ASSUME IInv, [Next]_vars PROVE IInv'
  OBVIOUS
<1>1. CASE UNCHANGED vars
  BY <1>1 DEF IInv, Phases, LoopLives, TakesInsideListen, LockInUse, ClosingOrder,
              vars, link, inbox
<1> QED
  BY <1>1, AppStep, LoopStep, ListenerStep, JoiningStep DEF Next, Finished

LEMMA Invariance == Spec => []IInv
  BY InitInvariant, NextInvariant, PTL DEF Spec

-----------------------------------------------------------------------------

(* What conn->state may be once the application is done with the handle.   *)
THEOREM LastState == Spec => []StateAtTheEnd
<1>1. IInv => StateAtTheEnd
  BY DEF IInv, Phases, LoopLives, ClosingOrder, StateAtTheEnd, Stop, K!States, K!Over
<1> QED
  BY <1>1, Invariance, PTL

-----------------------------------------------------------------------------
(* The connection and the inbox keep their promises inside the whole: what *)
(* is proved of Link, and of Inbox in InboxProofs, holds in Delivery.      *)

LEMMA LinkStep == ASSUME [Next]_vars PROVE [K!Next]_(K!linkVars)
<1>1. CASE AppCalls
  BY <1>1 DEF AppCalls, K!Next
<1>2. CASE \E n \in Payloads : LoopReceives(n)
  BY <1>2 DEF LoopReceives, K!Next, K!LoopStep
<1>3. CASE LoopGoesOn
  BY <1>3 DEF LoopGoesOn, K!Next
<1>4. CASE UNCHANGED link
  BY <1>4 DEF link, K!linkVars
<1> QED
  BY <1>1, <1>2, <1>3, <1>4
  DEF Next, LoopPushes, Listen, ListenStep, ListenReturns, ListenGoesOn, TakeGoesOn,
      TakeEnds, Dispatch, WaitEnds, WaitEndsEarly, StartJoining, JoinListeners, Finished, vars

LEMMA InboxStep == ASSUME [Next]_vars PROVE [B!Next]_(B!vars)
<1>1. ASSUME NEW n \in Payloads, LoopReceives(n) PROVE B!Next
  BY <1>1 DEF LoopReceives, B!Next
<1>2. CASE LoopPushes
  BY <1>2 DEF LoopPushes, B!Next
<1>3. ASSUME NEW c \in Consumers, ListenGoesOn(c) \/ Dispatch(c) PROVE B!Next
  BY <1>3 DEF ListenGoesOn, Dispatch, B!Next
<1>4. ASSUME NEW c \in Consumers,
             TakeGoesOn(c) \/ TakeEnds(c) \/ WaitEnds(c) \/ WaitEndsEarly(c)
      PROVE  B!Next
  BY <1>4 DEF TakeGoesOn, TakeEnds, WaitEnds, WaitEndsEarly, B!Next, B!TakeStep
<1>5. CASE UNCHANGED inbox
  BY <1>5 DEF inbox, B!vars
<1> QED
  BY <1>1, <1>2, <1>3, <1>4, <1>5
  DEF Next, AppCalls, LoopGoesOn, Listen, ListenStep, ListenReturns, StartJoining, JoinListeners,
      Finished, vars

(* The whole implements the connection's promise and the inbox.            *)
THEOREM Composition == Spec => K!Spec /\ B!Spec
<1>1. Init => K!Init /\ B!Init
  BY DEF Init
<1> QED
  BY <1>1, LinkStep, InboxStep, PTL DEF Spec, K!Spec, B!Spec

-----------------------------------------------------------------------------
(* The inbox inside the whole: what InboxProofs proves of it, for the      *)
(* threads and messages of Delivery.                                       *)

BP == INSTANCE InboxProofs

(* What InboxProofs assumes of the constants.                              *)
LEMMA InboxAssumptions == BP!ThreadsAssumption /\ BP!SizesAssumption
BY DeliveryAssumption
DEF BP!ThreadsAssumption, BP!SizesAssumption, IsFiniteSet, BP!IsFiniteSet

(* The inbox of Delivery and the one of InboxProofs are the same.          *)
LEMMA SameInbox ==
  /\ B!Init <=> BP!Init
  /\ [B!Next]_(B!vars) <=> [BP!Next]_(BP!vars)
  /\ B!TypeOK <=> BP!TypeOK
<1>1. B!Init <=> BP!Init
  BY DEF B!Init, B!Threads, B!NULL, BP!Init, BP!Threads, BP!NULL
<1>2. B!Next <=> BP!Next
  BY DEF B!PushLock, B!PushAppend, B!PushSignal, B!PushUnlock, B!Push, B!Take,
    B!TakeLock, B!Test, B!TimedWait, B!SpuriousWakeUp, B!DeadlinePasses, B!TimeOut,
    B!Reacquire, B!Pop, B!TakeUnlock, B!PushStep, B!TakeStep, B!Goto, B!Lock,
    B!Unlock, B!NULL, B!vars, B!Next, BP!PushLock, BP!PushAppend, BP!PushSignal,
    BP!PushUnlock, BP!Push, BP!Take, BP!TakeLock, BP!Test, BP!TimedWait,
    BP!SpuriousWakeUp, BP!DeadlinePasses, BP!TimeOut, BP!Reacquire, BP!Pop,
    BP!TakeUnlock, BP!PushStep, BP!TakeStep, BP!Goto, BP!Lock, BP!Unlock, BP!NULL,
    BP!vars, BP!Next
<1>3. B!vars = BP!vars
  BY DEF B!vars, BP!vars
<1>4. B!TypeOK <=> BP!TypeOK
  BY DEF B!TypeOK, B!Threads, B!PushPC, B!TakePC, BP!TypeOK, BP!Threads, BP!PushPC,
    BP!TakePC
<1>5. B!vars' = BP!vars'
  BY DEF B!vars, BP!vars
<1> QED
  BY <1>1, <1>2, <1>3, <1>4, <1>5

(* The sequence 1, 2, ..., n is continued by n + 1.                        *)
LEMMA CountOn ==
  ASSUME NEW S, NEW s \in Seq(S), s = [i \in 1..Len(s) |-> i], Len(s) + 1 \in S
  PROVE  LET t == Append(s, Len(s) + 1)
         IN  t \in Seq(S) /\ Len(t) = Len(s) + 1 /\ t = [i \in 1..Len(t) |-> i]
<1> DEFINE n == Len(s)
           t == Append(s, n + 1)
<1>1. /\ n \in Nat /\ t \in Seq(S) /\ Len(t) = n + 1 /\ t[n + 1] = n + 1
      /\ \A i \in 1..n : t[i] = s[i]
  BY AppendProperties
<1>2. \A i \in 1..n : s[i] = i
  OBVIOUS
<1> HIDE DEF t, n
<1>3. \A i \in 1..(n + 1) : t[i] = i
  <2> SUFFICES ASSUME NEW i \in 1..(n + 1) PROVE t[i] = i
    OBVIOUS
  <2>1. i \in 1..n \/ i = n + 1
    BY <1>1
  <2> QED
    BY <1>1, <1>2, <2>1
<1>4. t = [i \in 1..Len(t) |-> i]
  BY <1>1, <1>3
<1> QED
  BY <1>1, <1>4 DEF t, n

(* A listener dispatches only what a take returned, and the handlers get   *)
(* only messages.                                                          *)
HandlersGetMessages ==
  /\ connects \in 0..MaxConnects
  /\ dispatched \in Seq(1..MaxMessages)
  /\ \A c \in Consumers : listener[c] = "dispatching" => result[c] # NULL

(* The listener has taken a message and not dispatched it.                 *)
Holds(c) == (pc[c] = "take_unlock" \/ listener[c] = "dispatching") /\ result[c] # NULL

(* A listener on its own has dispatched everything taken but what it holds.*)
InHand(c) ==
  /\ dispatched = [i \in 1..Len(dispatched) |-> i]
  /\ Holds(c) => taken = Len(dispatched) + 1 /\ result[c] = taken
  /\ ~Holds(c) => taken = Len(dispatched)

AllInHand == \A c \in Consumers : Consumers = {c} => InHand(c)

(* The thread tests the state next, or has returned, or is about to return *)
(* NULL from a take.                                                       *)
Emptied(c) == \/ listener[c] \in {"none", "testing", "returned"}
              \/ pc[c] = "take_unlock" /\ result[c] = NULL

(* A take that returns NULL found the inbox empty, after the test that led *)
(* to it.                                                                  *)
Drained ==
  /\ seen \in [Consumers -> Nat]
  /\ \A c \in Consumers : seen[c] <= pushed
  /\ \A c \in Consumers : Emptied(c) => taken >= seen[c]

(* The inductive invariant: the one of the phases above, the one of the    *)
(* inbox, and what the listeners have handed on and left                   *)
DInv == IInv /\ BP!IInv /\ HandlersGetMessages /\ AllInHand /\ Drained

(* What the handlers depend on: the queue holds, in order, what is not yet *)
(* taken.                                                                  *)
LEMMA InboxFacts ==
  ASSUME BP!IInv
  PROVE  /\ queue \in Seq(1..MaxMessages)
         /\ Len(queue) \in Nat
         /\ \A i \in 1..Len(queue) : queue[i] = taken + i
         /\ Len(queue) = pushed - taken
         /\ taken \in 0..MaxMessages /\ pushed \in 0..MaxMessages
         /\ pc \in [B!Threads -> B!PushPC \cup B!TakePC]
         /\ result \in [Consumers -> 0..MaxMessages]
<1>1. BP!TypeOK /\ BP!NothingIsLost
  BY DEF BP!IInv
<1>2. B!TypeOK
  BY <1>1, SameInbox
<1> QED
  BY <1>1, <1>2 DEF B!TypeOK, BP!NothingIsLost

(* Everything but what the listeners themselves do                         *)
LEMMA OthersKeep ==
  ASSUME DInv, [Next]_vars, UNCHANGED <<listener, dispatched, taken, result>>,
         \A c \in Consumers : pc[c] = "take_unlock" <=> pc'[c] = "take_unlock"
  PROVE  AllInHand'
BY DEF DInv, AllInHand, InHand, Holds

(* Every step leaves the handlers with messages only.                      *)
LEMMA HandlersStep == ASSUME DInv, [Next]_vars PROVE HandlersGetMessages'
<1> USE DEF HandlersGetMessages
<1>1. /\ HandlersGetMessages /\ IInv /\ MaxConnects \in Nat /\ MaxMessages \in Nat
      /\ result \in [Consumers -> 0..MaxMessages]
      /\ listener \in [Consumers -> ListenPhases]
  BY InboxFacts, DeliveryAssumption DEF DInv, IInv, Phases
<1>2. CASE AppCalls
  <2>1. UNCHANGED <<dispatched, listener, result>>
    BY <1>2 DEF AppCalls, inbox
  <2>2. connects' \in 0..MaxConnects
    BY <1>1, <1>2 DEF AppCalls, K!Connect, K!Disconnect, K!AppStep, K!AppHandshake,
                      K!ConnectFails, K!SetConnected, K!Start, K!Join, K!AppGoes
  <2> QED
    BY <1>1, <2>1, <2>2
<1>3. ASSUME NEW n \in Payloads, LoopReceives(n) PROVE HandlersGetMessages'
  BY <1>1, <1>3 DEF LoopReceives, K!Receive, K!LoopGoes, B!Push
<1>4. CASE LoopPushes
  BY <1>1, <1>4 DEF LoopPushes, link, B!PushStep, B!PushLock, B!PushAppend,
                    B!PushSignal, B!PushUnlock
<1>5. CASE LoopGoesOn
  BY <1>1, <1>5 DEF LoopGoesOn, inbox, K!LoopStep, K!Decide, K!Receive, K!Process,
                    K!Update, K!LoopHandshake, K!Retry, K!Exit, K!LoopGoes
<1>6. ASSUME NEW c \in Consumers, Listen(c) \/ ListenReturns(c) \/ ListenGoesOn(c)
      PROVE  HandlersGetMessages'
  BY <1>1, <1>6 DEF Listen, ListenReturns, ListenGoesOn, Goes, link, inbox, B!Take
<1>7. ASSUME NEW c \in Consumers, TakeGoesOn(c) PROVE HandlersGetMessages'
  <2>1. UNCHANGED <<connects, dispatched, listener>>
    BY <1>7 DEF TakeGoesOn, link
  <2>2. ASSUME NEW d \in Consumers, listener[d] = "dispatching"
        PROVE  result'[d] # NULL
    <3>1. pc[d] = "idle" /\ result[d] # NULL
      BY <1>1, <2>2 DEF IInv, TakesInsideListen
    <3>2. result'[d] = result[d]
      BY <1>1, <1>7, <3>1 DEF TakeGoesOn, B!TakeLock, B!Test, B!TimedWait, B!Reacquire,
                              B!Pop, B!Goto
    <3> QED
      BY <3>1, <3>2
  <2> QED
    BY <1>1, <2>1, <2>2
<1>8. ASSUME NEW c \in Consumers, WaitEnds(c) \/ WaitEndsEarly(c) PROVE HandlersGetMessages'
  BY <1>1, <1>8 DEF WaitEnds, WaitEndsEarly, link, B!DeadlinePasses, B!TimeOut,
                    B!SpuriousWakeUp
<1>9. ASSUME NEW c \in Consumers, TakeEnds(c) PROVE HandlersGetMessages'
  BY <1>1, <1>9 DEF TakeEnds, Goes, link, B!TakeUnlock
<1>10. ASSUME NEW c \in Consumers, Dispatch(c) PROVE HandlersGetMessages'
  <2>1. /\ listener[c] = "dispatching" /\ listener' = [listener EXCEPT ![c] = "taking"]
        /\ dispatched' = Append(dispatched, result[c])
        /\ UNCHANGED <<connects, result>>
    BY <1>10 DEF Dispatch, Goes, link, B!Take
  <2>2. result[c] \in 1..MaxMessages
    BY <1>1, <2>1 DEF NULL
  <2>3. dispatched' \in Seq(1..MaxMessages)
    BY <1>1, <2>1, <2>2
  <2> QED
    BY <1>1, <2>1, <2>3
<1>11. CASE StartJoining \/ JoinListeners \/ UNCHANGED vars
  BY <1>1, <1>11 DEF StartJoining, JoinListeners, vars, link, inbox
<1> QED
  BY <1>2, <1>3, <1>4, <1>5, <1>6, <1>7, <1>8, <1>9, <1>10, <1>11
  DEF Next, ListenStep, Finished

(* Every step leaves a listener on its own with one message in its hand at *)
(* most.                                                                   *)
LEMMA HandStep == ASSUME DInv, [Next]_vars PROVE AllInHand'
<1>1. /\ IInv /\ HandlersGetMessages /\ Loop \notin Consumers
      /\ queue \in Seq(1..MaxMessages) /\ Len(queue) \in Nat
      /\ \A i \in 1..Len(queue) : queue[i] = taken + i
      /\ taken \in 0..MaxMessages
      /\ pc \in [B!Threads -> B!PushPC \cup B!TakePC]
      /\ result \in [Consumers -> 0..MaxMessages]
      /\ listener \in [Consumers -> ListenPhases]
      /\ \A c \in Consumers : c \in B!Threads
  BY InboxFacts, DeliveryAssumption DEF DInv, IInv, Phases, B!Threads
<1>2. \A c \in Consumers : listener[c] = "taking" <=> pc[c] # "idle"
  BY <1>1 DEF IInv, TakesInsideListen
<1>3. ASSUME UNCHANGED <<listener, dispatched, taken, result, pc>> PROVE AllInHand'
  BY <1>3, OthersKeep
<1>4. ASSUME NEW n \in Payloads, LoopReceives(n) PROVE AllInHand'
  <2>1. UNCHANGED <<listener, dispatched, taken, result>>
        /\ \A c \in Consumers : pc'[c] = pc[c]
    BY <1>1, <1>4 DEF LoopReceives, B!Push, B!Goto
  <2> QED
    BY <2>1, OthersKeep
<1>5. CASE LoopPushes
  <2>1. UNCHANGED <<listener, dispatched, taken, result>>
    BY <1>5 DEF LoopPushes, B!PushStep, B!PushLock, B!PushAppend, B!PushSignal, B!PushUnlock
  <2>2. CASE B!PushLock \/ B!PushAppend \/ B!PushUnlock
    <3>1. \A c \in Consumers : pc'[c] = pc[c]
      BY <1>1, <2>2 DEF B!PushLock, B!PushAppend, B!PushUnlock, B!Goto
    <3> QED
      BY <2>1, <3>1, OthersKeep
  <2>3. CASE B!PushSignal
    <3>1. \A c \in Consumers : pc'[c] = pc[c] \/ (pc[c] = "waiting" /\ pc'[c] = "woken")
      BY <1>1, <2>3 DEF B!PushSignal, IInv, LockInUse
    <3> QED
      BY <2>1, <3>1, OthersKeep
  <2> QED
    BY <1>5, <2>2, <2>3 DEF LoopPushes, B!PushStep
<1>6. ASSUME NEW c \in Consumers, Listen(c) \/ ListenReturns(c) \/ ListenGoesOn(c)
      PROVE  AllInHand'
  <2>1. /\ UNCHANGED <<dispatched, taken, result>>
        /\ listener[c] \in {"none", "testing"} /\ listener'[c] \in {"testing", "returned", "taking"}
        /\ pc'[c] \in {pc[c], "take_lock"} /\ pc[c] = "idle"
    BY <1>1, <1>2, <1>6 DEF Listen, ListenReturns, ListenGoesOn, Goes, inbox, B!Take, B!Goto
  <2>2. ~Holds(c) /\ ~Holds(c)'
    BY <2>1 DEF Holds
  <2>3. Consumers = {c} => InHand(c)'
    BY <2>1, <2>2 DEF DInv, AllInHand, InHand
  <2> QED
    BY <2>3 DEF AllInHand
<1>7. ASSUME NEW c \in Consumers,
             B!TakeLock(c) \/ B!Test(c) \/ B!TimedWait(c) \/ B!Reacquire(c)
               \/ B!DeadlinePasses(c) \/ B!TimeOut(c) \/ B!SpuriousWakeUp(c),
             UNCHANGED <<listener, dispatched>>
      PROVE  AllInHand'
  <2>1. UNCHANGED <<taken, result>>
    BY <1>7 DEF B!TakeLock, B!Test, B!TimedWait, B!Reacquire, B!DeadlinePasses, B!TimeOut,
                B!SpuriousWakeUp
  <2>2. \A d \in Consumers : pc[d] = "take_unlock" <=> pc'[d] = "take_unlock"
    BY <1>1, <1>7 DEF B!TakeLock, B!Test, B!TimedWait, B!Reacquire, B!DeadlinePasses,
                      B!TimeOut, B!SpuriousWakeUp, B!Goto
  <2> QED
    BY <1>7, <2>1, <2>2, OthersKeep
<1>8. ASSUME NEW c \in Consumers, B!Pop(c), UNCHANGED <<listener, dispatched>>
      PROVE  AllInHand'
  <2>1. pc[c] = "pop" /\ pc' = [pc EXCEPT ![c] = "take_unlock"] /\ listener[c] = "taking"
    BY <1>2, <1>8 DEF B!Pop, B!Goto
  <2>2. ~Holds(c)
    BY <2>1 DEF Holds
  <2>3. CASE queue = <<>>
    <3>1. result'[c] = NULL /\ taken' = taken
      BY <1>1, <1>8, <2>3 DEF B!Pop, B!NULL, NULL
    <3>2. ~Holds(c)'
      BY <3>1 DEF Holds
    <3>3. Consumers = {c} => InHand(c)'
      BY <1>8, <2>2, <3>1, <3>2 DEF DInv, AllInHand, InHand
    <3> QED
      BY <3>3 DEF AllInHand
  <2>4. CASE queue # <<>>
    <3>1. 1 \in 1..Len(queue) /\ Head(queue) = queue[1]
      BY <1>1, <2>4
    <3>2. Head(queue) = taken + 1
      BY <1>1, <3>1
    <3>3. result'[c] = taken + 1 /\ taken' = taken + 1
      BY <1>1, <1>8, <2>4, <3>2 DEF B!Pop
    <3>4. Holds(c)'
      BY <1>1, <2>1, <3>3 DEF Holds, NULL
    <3>5. Consumers = {c} => InHand(c)'
      BY <1>8, <2>2, <3>3, <3>4 DEF DInv, AllInHand, InHand
    <3> QED
      BY <3>5 DEF AllInHand
  <2> QED
    BY <2>3, <2>4
<1>9. ASSUME NEW c \in Consumers, TakeEnds(c) PROVE AllInHand'
  <2>1. /\ UNCHANGED <<dispatched, taken, result>>
        /\ pc[c] = "take_unlock" /\ pc'[c] = "idle"
        /\ listener'[c] = IF result[c] = NULL THEN "testing" ELSE "dispatching"
    BY <1>1, <1>9 DEF TakeEnds, Goes, B!TakeUnlock, B!Goto
  <2>2. Holds(c)' <=> Holds(c)
    BY <2>1 DEF Holds
  <2>3. Consumers = {c} => InHand(c)'
    BY <2>1, <2>2 DEF DInv, AllInHand, InHand
  <2> QED
    BY <2>3 DEF AllInHand
<1>10. ASSUME NEW c \in Consumers, Dispatch(c) PROVE AllInHand'
  <2>1. /\ dispatched' = Append(dispatched, result[c])
        /\ UNCHANGED <<taken, result>>
        /\ listener[c] = "dispatching" /\ listener'[c] = "taking"
        /\ pc'[c] = "take_lock"
    BY <1>1, <1>10 DEF Dispatch, Goes, B!Take, B!Goto
  <2>2. Holds(c) /\ ~Holds(c)'
    BY <1>1, <2>1 DEF Holds, HandlersGetMessages
  <2>3. ASSUME Consumers = {c} PROVE InHand(c)'
    <3>1. /\ dispatched = [i \in 1..Len(dispatched) |-> i]
          /\ result[c] = Len(dispatched) + 1 /\ taken = Len(dispatched) + 1
      BY <2>2, <2>3 DEF DInv, AllInHand, InHand
    <3>2. Len(dispatched) + 1 \in 1..MaxMessages /\ dispatched \in Seq(1..MaxMessages)
      BY <1>1, <3>1 DEF HandlersGetMessages
    <3>3. /\ Len(dispatched') = Len(dispatched) + 1
          /\ dispatched' = [i \in 1..Len(dispatched') |-> i]
      BY <2>1, <3>1, <3>2, CountOn
    <3> QED
      BY <2>1, <2>2, <3>1, <3>3 DEF InHand
  <2> QED
    BY <2>3 DEF AllInHand
<1>11. CASE AppCalls \/ LoopGoesOn \/ StartJoining \/ JoinListeners \/ UNCHANGED vars
  BY <1>3, <1>11 DEF AppCalls, LoopGoesOn, StartJoining, JoinListeners, vars, link, inbox
<1> QED
  BY <1>4, <1>5, <1>6, <1>7, <1>8, <1>9, <1>10, <1>11
  DEF Next, ListenStep, TakeGoesOn, WaitEnds, WaitEndsEarly, Finished

(* Whatever else happens, messages are only pushed and taken.              *)
LEMMA DrainedStays ==
  ASSUME DInv, seen' = seen, pushed' \in Nat, taken' \in Nat,
         pushed' >= pushed, taken' >= taken,
         \A c \in Consumers : Emptied(c)' => Emptied(c)
  PROVE  Drained'
BY InboxFacts DEF DInv, Drained

(* A listener that goes on has seen what is pushed, and one whose take     *)
(* returns NULL leaves nothing that it had seen.                           *)
LEMMA DrainedStep == ASSUME DInv, [Next]_vars PROVE Drained'
<1>1. /\ IInv /\ Drained /\ Loop \notin Consumers
      /\ queue \in Seq(1..MaxMessages) /\ Len(queue) = pushed - taken
      /\ taken \in Nat /\ pushed \in Nat
      /\ pc \in [B!Threads -> B!PushPC \cup B!TakePC]
      /\ result \in [Consumers -> 0..MaxMessages]
      /\ listener \in [Consumers -> ListenPhases]
      /\ \A c \in Consumers : c \in B!Threads
  BY InboxFacts, DeliveryAssumption DEF DInv, IInv, Phases, B!Threads
<1>2. \A c \in Consumers : listener[c] = "taking" <=> pc[c] # "idle"
  BY <1>1 DEF IInv, TakesInsideListen
<1>3. ASSUME UNCHANGED <<seen, pushed, taken, listener, pc, result>> PROVE Drained'
  BY <1>1, <1>3 DEF Drained, Emptied
<1>4. ASSUME NEW n \in Payloads, LoopReceives(n) PROVE Drained'
  <2>1. /\ UNCHANGED <<seen, pushed, taken, listener, result>>
        /\ \A c \in Consumers : pc'[c] = pc[c]
    BY <1>1, <1>4 DEF LoopReceives, B!Push, B!Goto
  <2> QED
    BY <1>1, <2>1, DrainedStays DEF Emptied
<1>5. CASE LoopPushes
  <2>1. /\ UNCHANGED <<seen, taken, listener, result>>
        /\ pushed' \in {pushed, pushed + 1}
    BY <1>5 DEF LoopPushes, B!PushStep, B!PushLock, B!PushAppend, B!PushSignal, B!PushUnlock
  <2>2. \A c \in Consumers : pc'[c] = "take_unlock" => pc[c] = "take_unlock"
    <3>1. CASE B!PushLock \/ B!PushAppend \/ B!PushUnlock
      BY <1>1, <3>1 DEF B!PushLock, B!PushAppend, B!PushUnlock, B!Goto
    <3>2. CASE B!PushSignal
      BY <1>1, <3>2 DEF B!PushSignal, IInv, LockInUse
    <3> QED
      BY <1>5, <3>1, <3>2 DEF LoopPushes, B!PushStep
  <2> QED
    BY <1>1, <2>1, <2>2, DrainedStays DEF Emptied
<1>6. ASSUME NEW c \in Consumers, Listen(c) \/ ListenReturns(c)
      PROVE  Drained'
  <2>1. /\ UNCHANGED <<seen, pushed, taken, pc, result>>
        /\ listener[c] \in {"none", "testing"}
        /\ \A d \in Consumers \ {c} : listener'[d] = listener[d]
    BY <1>1, <1>6 DEF Listen, ListenReturns, Goes, inbox
  <2> QED
    BY <1>1, <2>1, DrainedStays DEF Emptied
<1>7. ASSUME NEW c \in Consumers, ListenGoesOn(c) PROVE Drained'
  <2>1. /\ seen' = [seen EXCEPT ![c] = pushed]
        /\ UNCHANGED <<pushed, taken, result>>
        /\ listener' = [listener EXCEPT ![c] = "taking"]
        /\ pc' = [pc EXCEPT ![c] = "take_lock"]
    BY <1>7 DEF ListenGoesOn, Goes, B!Take, B!Goto
  <2>2. ~Emptied(c)'
    BY <1>1, <2>1 DEF Emptied
  <2>3. \A d \in Consumers : d # c => (Emptied(d)' <=> Emptied(d)) /\ seen'[d] = seen[d]
    BY <1>1, <2>1 DEF Emptied, Drained
  <2>4. seen' \in [Consumers -> Nat] /\ seen'[c] = pushed
    BY <1>1, <2>1 DEF Drained
  <2> QED
    BY <1>1, <2>1, <2>2, <2>3, <2>4 DEF Drained
<1>8. ASSUME NEW c \in Consumers,
             B!TakeLock(c) \/ B!Test(c) \/ B!TimedWait(c) \/ B!Reacquire(c)
               \/ B!DeadlinePasses(c) \/ B!TimeOut(c) \/ B!SpuriousWakeUp(c),
             UNCHANGED <<listener, seen>>
      PROVE  Drained'
  <2>1. UNCHANGED <<pushed, taken, result>>
    BY <1>8 DEF B!TakeLock, B!Test, B!TimedWait, B!Reacquire, B!DeadlinePasses, B!TimeOut,
                B!SpuriousWakeUp
  <2>2. \A d \in Consumers : pc[d] = "take_unlock" <=> pc'[d] = "take_unlock"
    BY <1>1, <1>8 DEF B!TakeLock, B!Test, B!TimedWait, B!Reacquire, B!DeadlinePasses,
                      B!TimeOut, B!SpuriousWakeUp, B!Goto
  <2> QED
    BY <1>1, <1>8, <2>1, <2>2, DrainedStays DEF Emptied
<1>9. ASSUME NEW c \in Consumers, B!Pop(c), UNCHANGED <<listener, seen>>
      PROVE  Drained'
  <2>1. /\ pc' = [pc EXCEPT ![c] = "take_unlock"]
        /\ pushed' = pushed
    BY <1>9 DEF B!Pop, B!Goto
  <2>2. CASE queue = <<>>
    <3>1. Len(queue) = 0
      BY <2>2
    <3>2. taken' = taken /\ taken = pushed
      BY <1>1, <1>9, <2>2, <3>1 DEF B!Pop
    <3> QED
      BY <1>1, <1>9, <2>1, <3>2 DEF Drained
  <2>3. CASE queue # <<>>
    <3>1. /\ taken' = taken + 1 /\ result' = [result EXCEPT ![c] = Head(queue)]
          /\ Head(queue) \in 1..MaxMessages
      <4>1. Head(queue) \in 1..MaxMessages
        BY <1>1, <2>3, HeadTailProperties
      <4> QED
        BY <1>9, <2>3, <4>1 DEF B!Pop
    <3>2. listener[c] = "taking" /\ result'[c] # NULL
      BY <1>1, <1>2, <1>9, <3>1 DEF B!Pop, B!Goto, NULL
    <3>3. \A d \in Consumers : Emptied(d)' => Emptied(d)
      BY <1>1, <1>9, <2>1, <3>1, <3>2 DEF Emptied
    <3> QED
      BY <1>1, <1>9, <2>1, <3>1, <3>3, DrainedStays
  <2> QED
    BY <2>2, <2>3
<1>10. ASSUME NEW c \in Consumers, TakeEnds(c) PROVE Drained'
  <2>1. /\ UNCHANGED <<seen, pushed, taken, result>>
        /\ pc[c] = "take_unlock" /\ pc' = [pc EXCEPT ![c] = "idle"]
        /\ listener' = [listener EXCEPT ![c] =
                          IF result[c] = NULL THEN "testing" ELSE "dispatching"]
    BY <1>10 DEF TakeEnds, Goes, B!TakeUnlock, B!Goto
  <2>2. \A d \in Consumers : Emptied(d)' => Emptied(d)
    BY <1>1, <2>1 DEF Emptied
  <2> QED
    BY <1>1, <2>1, <2>2, DrainedStays
<1>11. ASSUME NEW c \in Consumers, Dispatch(c) PROVE Drained'
  <2>1. /\ UNCHANGED <<seen, pushed, taken, result>>
        /\ pc' = [pc EXCEPT ![c] = "take_lock"]
        /\ listener' = [listener EXCEPT ![c] = "taking"]
    BY <1>11 DEF Dispatch, Goes, B!Take, B!Goto
  <2>2. \A d \in Consumers : Emptied(d)' => Emptied(d)
    BY <1>1, <2>1 DEF Emptied
  <2> QED
    BY <1>1, <2>1, <2>2, DrainedStays
<1>12. CASE AppCalls \/ LoopGoesOn \/ StartJoining \/ JoinListeners \/ UNCHANGED vars
  BY <1>3, <1>12 DEF AppCalls, LoopGoesOn, StartJoining, JoinListeners, vars, link, inbox
<1> QED
  BY <1>4, <1>5, <1>6, <1>7, <1>8, <1>9, <1>10, <1>11, <1>12
  DEF Next, ListenStep, TakeGoesOn, WaitEnds, WaitEndsEarly, Finished

(* The inductive invariant holds at first, and every step keeps it.        *)
LEMMA DInitInvariant == Init => DInv
<1> SUFFICES ASSUME Init PROVE DInv
  OBVIOUS
<1>1. IInv /\ BP!IInv
  <2>1. BP!Init
    BY SameInbox DEF Init
  <2>2. BP!IInv
    BY <2>1, InboxAssumptions, BP!InitInvariant
  <2> QED
    BY <2>2, InitInvariant
<1>2. /\ dispatched = <<>> /\ connects = 0 /\ taken = 0 /\ pushed = 0
      /\ seen = [c \in Consumers |-> 0]
      /\ \A c \in Consumers : listener[c] = "none" /\ pc[c] = "idle"
  BY DEF Init, K!Init, B!Init, B!Threads
<1>3. <<>> \in Seq(1..MaxMessages) /\ Len(<<>>) = 0 /\ <<>> = [i \in 1..0 |-> i]
  OBVIOUS
<1>4. HandlersGetMessages
  BY <1>2, <1>3, DeliveryAssumption DEF HandlersGetMessages
<1>5. AllInHand
  BY <1>2, <1>3 DEF AllInHand, InHand, Holds
<1>6. Drained
  BY <1>2 DEF Drained
<1> QED
  BY <1>1, <1>4, <1>5, <1>6 DEF DInv

LEMMA DNextInvariant == DInv /\ [Next]_vars => DInv'
<1> SUFFICES ASSUME DInv, [Next]_vars PROVE DInv'
  OBVIOUS
<1>1. IInv'
  BY NextInvariant DEF DInv
<1>2. [BP!Next]_(BP!vars)
  BY InboxStep, SameInbox
<1>3. BP!IInv'
  BY <1>2, InboxAssumptions, BP!NextInvariant DEF DInv
<1> QED
  BY <1>1, <1>3, HandlersStep, HandStep, DrainedStep DEF DInv

LEMMA DInvariance == Spec => []DInv
  BY DInitInvariant, DNextInvariant, PTL DEF Spec

(* The types of the whole, and that a listener is inside cometd_inbox_take *)
(* exactly when cometd_listen has called it.                               *)
THEOREM TypeCorrect == Spec => []TypeOK
<1>1. DInv => TypeOK
  <2> SUFFICES ASSUME DInv PROVE TypeOK
    OBVIOUS
  <2>1. B!TypeOK
    BY SameInbox DEF DInv, BP!IInv
  <2>2. seen \in [Consumers -> 0..pushed]
    BY InboxFacts DEF DInv, Drained
  <2> QED
    BY <2>1, <2>2 DEF DInv, IInv, Phases, TakesInsideListen, HandlersGetMessages, TypeOK
<1> QED
  BY <1>1, DInvariance, PTL

(* From the receive thread through the inbox to the handlers of a handle   *)
(* with one listener no message is lost, duplicated or overtaken.          *)
THEOREM DispatchOrder == Spec => []DispatchesInOrder
<1>1. DInv => DispatchesInOrder
  <2> SUFFICES ASSUME DInv, Cardinality(Consumers) = 1 PROVE
       /\ dispatched = [i \in 1..Len(dispatched) |-> i]
       /\ taken - Len(dispatched) =
         Cardinality({c \in Consumers : /\ pc[c] \in {"take_unlock", "idle"}
                                        /\ listener[c] \in {"taking", "dispatching"}
                                        /\ result[c] # NULL})
    BY DEF DispatchesInOrder
  <2>1. PICK c : Consumers = {c}
    BY DeliveryAssumption, FS_Singleton
  <2> DEFINE H == {d \in Consumers : /\ pc[d] \in {"take_unlock", "idle"}
                                    /\ listener[d] \in {"taking", "dispatching"}
                                    /\ result[d] # NULL}
  <2>2. InHand(c) /\ c \in Consumers
    BY <2>1 DEF DInv, AllInHand
  <2>3. /\ listener[c] = "taking" <=> pc[c] # "idle"
        /\ listener[c] \in {"none", "testing", "returned"} => result[c] = NULL
    BY <2>2 DEF DInv, IInv, TakesInsideListen
  <2>4. c \in H <=> Holds(c)
    BY <2>2, <2>3 DEF Holds
  <2>5. H = IF Holds(c) THEN {c} ELSE {}
    BY <2>1, <2>4
  <2> HIDE DEF H
  <2>6. Cardinality(H) = IF Holds(c) THEN 1 ELSE 0
    BY <2>5, FS_Singleton, FS_EmptySet
  <2>7. taken - Len(dispatched) = Cardinality(H) /\ dispatched = [i \in 1..Len(dispatched) |-> i]
    <3>1. dispatched \in Seq(1..MaxMessages)
      BY DEF DInv, HandlersGetMessages
    <3>2. Len(dispatched) \in Nat
      BY <3>1
    <3> QED
      BY <2>2, <2>6, <3>2 DEF InHand
  <2> QED
    BY <2>7 DEF H
<1> QED
  BY <1>1, DInvariance, PTL

(* A cometd_listen that returns leaves nothing behind that had been pushed *)
(* when it last found the connection going on.                             *)
THEOREM ListenDrains == Spec => []ListenDrainsTheInbox
<1>1. DInv => ListenDrainsTheInbox
  BY DEF DInv, Drained, Emptied, ListenDrainsTheInbox
<1> QED
  BY <1>1, DInvariance, PTL

=============================================================================
