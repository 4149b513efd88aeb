---------------------------- MODULE InboxProofs ----------------------------
(***************************************************************************)
(* Proofs about Inbox, for any finite set of listeners, any number of      *)
(* messages and any payload sizes.                                         *)
(***************************************************************************)
EXTENDS Inbox, FiniteSetTheorems, SequenceTheorems, TLAPS

(* The condition's wait set and the threads that wait are the same.        *)
WaitSet == waiting = {c \in Consumers : pc[c] = "waiting"}

(* The receive thread pushes exactly while messages of a payload are left. *)
LeftToPush ==
  /\ pc[Loop] \in {"push_lock", "append"} => left > 0
  /\ pc[Loop] = "idle" => left = 0

(* A take leaves its loop when the queue has a message, which only it can  *)
(* remove as long as it holds the mutex, or at its deadline.               *)
PatientTake ==
  \A c \in Consumers :
    /\ pc[c] = "timed_out" => late[c]
    /\ pc[c] = "pop" => queue # <<>> \/ late[c]
    /\ pc[c] = "take_unlock" => result[c] # NULL \/ late[c]

IInv == /\ TypeOK
        /\ QueueIsGuarded
        /\ WaitSet
        /\ LeftToPush
        /\ NothingIsLost
        /\ PatientTake

(* What a nonempty queue gives up and keeps.                               *)
LEMMA PopProperties ==
  ASSUME NEW S, NEW s \in Seq(S), s # <<>>
  PROVE  /\ Len(s) \in Nat \ {0}
         /\ Head(s) \in S /\ Head(s) = s[1]
         /\ Tail(s) \in Seq(S) /\ Len(Tail(s)) = Len(s) - 1
         /\ \A i \in 1..Len(Tail(s)) : Tail(s)[i] = s[i + 1]
<1>1. Len(s) \in Nat \ {0} /\ Head(s) = s[1]
  OBVIOUS
<1> QED
  BY <1>1, HeadTailProperties

(* There is room for the message that the receive thread is about to push. *)
LEMMA RoomToPush ==
  ASSUME IInv, PushAppend
  PROVE  pushed < MaxMessages /\ pushed + 1 \in 1..MaxMessages /\ left - 1 \in Nat
BY SizesAssumption DEF PushAppend, Goto, IInv, LeftToPush, TypeOK

LEMMA InitInvariant == Init => IInv
<1> SUFFICES ASSUME Init PROVE IInv
  OBVIOUS
<1>1. TypeOK
  BY SizesAssumption, ThreadsAssumption DEF Init, TypeOK, Threads, PushPC, TakePC, NULL
<1>2. QueueIsGuarded
  BY ThreadsAssumption DEF Init, QueueIsGuarded, Threads, Critical
<1>3. WaitSet /\ LeftToPush /\ NothingIsLost /\ PatientTake
  BY ThreadsAssumption
  DEF Init, WaitSet, LeftToPush, NothingIsLost, PatientTake, Threads
<1> QED
  BY <1>1, <1>2, <1>3 DEF IInv

-----------------------------------------------------------------------------
(* Each part of the invariant, step by step *)

LEMMA TypeStep == ASSUME IInv, [Next]_vars PROVE TypeOK'
<1> USE DEF IInv, TypeOK, Threads, PushPC, TakePC, Goto
<1>1. ASSUME NEW n \in Payloads, Push(n) PROVE TypeOK'
  BY <1>1, SizesAssumption, ThreadsAssumption DEF Push, LeftToPush
<1>2. CASE PushLock
  BY <1>2, ThreadsAssumption DEF PushLock, Lock
<1>3. CASE PushAppend
  <2>1. pushed + 1 \in 1..MaxMessages /\ left - 1 \in Nat
    BY <1>3, RoomToPush
  <2>2. Append(queue, pushed + 1) \in Seq(1..MaxMessages)
    BY <2>1
  <2> QED
    BY <1>3, <2>1, <2>2, ThreadsAssumption, SizesAssumption DEF PushAppend
<1>4. CASE PushSignal
  BY <1>4, ThreadsAssumption DEF PushSignal
<1>5. CASE PushUnlock
  BY <1>5, ThreadsAssumption DEF PushUnlock, Unlock
<1>6. ASSUME NEW c \in Consumers, Take(c) \/ TakeLock(c) \/ Test(c) PROVE TypeOK'
  BY <1>6, ThreadsAssumption DEF Take, TakeLock, Test, Lock
<1>7. ASSUME NEW c \in Consumers, TimedWait(c) \/ SpuriousWakeUp(c) PROVE TypeOK'
  BY <1>7, ThreadsAssumption DEF TimedWait, SpuriousWakeUp, Unlock
<1>8. ASSUME NEW c \in Consumers, DeadlinePasses(c) \/ TimeOut(c) PROVE TypeOK'
  BY <1>8, ThreadsAssumption DEF DeadlinePasses, TimeOut
<1>9. ASSUME NEW c \in Consumers, Reacquire(c) \/ TakeUnlock(c) PROVE TypeOK'
  BY <1>9, ThreadsAssumption DEF Reacquire, TakeUnlock, Lock, Unlock
<1>10. ASSUME NEW c \in Consumers, Pop(c) PROVE TypeOK'
  <2>1. /\ pc' = [pc EXCEPT ![c] = "take_unlock"]
        /\ UNCHANGED <<owner, waiting, left, late, pushed>>
    BY <1>10 DEF Pop
  <2>2. CASE queue = <<>>
    BY <1>10, <2>1, <2>2, ThreadsAssumption, SizesAssumption DEF Pop, NULL
  <2>3. CASE queue # <<>>
    <3>1. /\ Head(queue) \in 1..MaxMessages /\ Tail(queue) \in Seq(1..MaxMessages)
          /\ Len(queue) \in Nat \ {0}
      <4>1. queue \in Seq(1..MaxMessages)
        OBVIOUS
      <4> HIDE DEF IInv, TypeOK
      <4> QED
        BY <2>3, <4>1, PopProperties
    <3>2. taken + 1 \in 0..MaxMessages
      BY <3>1, SizesAssumption DEF NothingIsLost
    <3>3. /\ result' = [result EXCEPT ![c] = Head(queue)]
          /\ queue' = Tail(queue)
          /\ taken' = taken + 1
      BY <1>10, <2>3 DEF Pop
    <3> QED
      BY <2>1, <3>1, <3>2, <3>3, ThreadsAssumption
  <2> QED
    BY <2>2, <2>3
<1>11. CASE UNCHANGED vars
  BY <1>11 DEF vars
<1> QED
  BY <1>1, <1>2, <1>3, <1>4, <1>5, <1>6, <1>7, <1>8, <1>9, <1>10, <1>11
  DEF Next, PushStep, TakeStep

(* The mutex changes hands only through Lock and Unlock.                   *)
LEMMA GuardStep == ASSUME IInv, [Next]_vars PROVE QueueIsGuarded'
<1> USE DEF IInv, TypeOK, QueueIsGuarded, Threads, Critical, Goto
<1>1. ASSUME NEW n \in Payloads, Push(n) PROVE QueueIsGuarded'
  BY <1>1, ThreadsAssumption DEF Push
<1>2. CASE PushLock \/ PushAppend
  BY <1>2, ThreadsAssumption DEF PushLock, PushAppend, Lock
<1>3. CASE PushSignal
  BY <1>3, ThreadsAssumption DEF PushSignal, WaitSet
<1>4. CASE PushUnlock
  BY <1>4, ThreadsAssumption DEF PushUnlock, Unlock
<1>5. ASSUME NEW c \in Consumers, Take(c) \/ TakeLock(c) \/ Test(c)
      PROVE  QueueIsGuarded'
  BY <1>5, ThreadsAssumption DEF Take, TakeLock, Test, Lock
<1>6. ASSUME NEW c \in Consumers, TimedWait(c) \/ SpuriousWakeUp(c)
      PROVE  QueueIsGuarded'
  BY <1>6, ThreadsAssumption DEF TimedWait, SpuriousWakeUp, Unlock
<1>7. ASSUME NEW c \in Consumers, DeadlinePasses(c) \/ TimeOut(c)
      PROVE  QueueIsGuarded'
  BY <1>7, ThreadsAssumption DEF DeadlinePasses, TimeOut
<1>8. ASSUME NEW c \in Consumers, Reacquire(c) \/ Pop(c) PROVE QueueIsGuarded'
  BY <1>8, ThreadsAssumption DEF Reacquire, Pop, Lock
<1>9. ASSUME NEW c \in Consumers, TakeUnlock(c) PROVE QueueIsGuarded'
  BY <1>9, ThreadsAssumption DEF TakeUnlock, Unlock
<1>10. CASE UNCHANGED vars
  BY <1>10 DEF vars
<1> QED
  BY <1>1, <1>2, <1>3, <1>4, <1>5, <1>6, <1>7, <1>8, <1>9, <1>10
  DEF Next, PushStep, TakeStep

LEMMA WaitStep == ASSUME IInv, [Next]_vars PROVE WaitSet' /\ LeftToPush'
<1> USE DEF IInv, TypeOK, WaitSet, LeftToPush, Threads, Goto
<1>1. ASSUME NEW n \in Payloads, Push(n) PROVE WaitSet' /\ LeftToPush'
  BY <1>1, ThreadsAssumption, SizesAssumption DEF Push
<1>2. CASE PushLock \/ PushAppend \/ PushUnlock
  BY <1>2, ThreadsAssumption DEF PushLock, PushAppend, PushUnlock
<1>3. CASE PushSignal
  BY <1>3, ThreadsAssumption DEF PushSignal
<1>4. ASSUME NEW c \in Consumers, Take(c) \/ TakeLock(c) \/ Test(c)
      PROVE  WaitSet' /\ LeftToPush'
  BY <1>4, ThreadsAssumption DEF Take, TakeLock, Test
<1>5. ASSUME NEW c \in Consumers, TimedWait(c) \/ SpuriousWakeUp(c)
      PROVE  WaitSet' /\ LeftToPush'
  BY <1>5, ThreadsAssumption DEF TimedWait, SpuriousWakeUp
<1>6. ASSUME NEW c \in Consumers, DeadlinePasses(c) \/ TimeOut(c)
      PROVE  WaitSet' /\ LeftToPush'
  BY <1>6, ThreadsAssumption DEF DeadlinePasses, TimeOut
<1>7. ASSUME NEW c \in Consumers, Reacquire(c) \/ Pop(c) \/ TakeUnlock(c)
      PROVE  WaitSet' /\ LeftToPush'
  BY <1>7, ThreadsAssumption DEF Reacquire, Pop, TakeUnlock
<1>8. CASE UNCHANGED vars
  BY <1>8 DEF vars
<1> QED
  BY <1>1, <1>2, <1>3, <1>4, <1>5, <1>6, <1>7, <1>8 DEF Next, PushStep, TakeStep

(* A push appends the next number, a take removes the least one.           *)
LEMMA OrderStep == ASSUME IInv, [Next]_vars PROVE NothingIsLost'
<1> USE DEF IInv, TypeOK, NothingIsLost
<1>1. CASE PushAppend
  <2>1. /\ queue' = Append(queue, pushed + 1) /\ pushed' = pushed + 1
        /\ taken' = taken
    BY <1>1 DEF PushAppend
  <2>2. pushed + 1 \in 1..MaxMessages
    BY <1>1, RoomToPush
  <2>3. /\ Len(queue') = Len(queue) + 1
        /\ \A i \in 1..Len(queue) : queue'[i] = queue[i]
        /\ queue'[Len(queue) + 1] = pushed + 1
    BY <2>1, <2>2, AppendProperties
  <2>4. Len(queue) = pushed - taken /\ Len(queue) \in Nat
    OBVIOUS
  <2>5. Len(queue') = pushed' - taken'
    BY <2>1, <2>3, <2>4
  <2>6. ASSUME NEW i \in 1..Len(queue') PROVE queue'[i] = taken' + i
    <3>1. CASE i \in 1..Len(queue)
      BY <2>1, <2>3, <3>1
    <3>2. CASE i = Len(queue) + 1
      BY <2>1, <2>3, <2>4, <3>2
    <3> QED
      BY <2>3, <2>4, <3>1, <3>2
  <2> QED
    BY <2>5, <2>6
<1>2. ASSUME NEW c \in Consumers, Pop(c) PROVE NothingIsLost'
  <2>1. CASE queue = <<>>
    BY <1>2, <2>1 DEF Pop
  <2>2. CASE queue # <<>>
    <3>1. /\ queue' = Tail(queue) /\ taken' = taken + 1 /\ pushed' = pushed
      BY <1>2, <2>2 DEF Pop
    <3>2. /\ Len(queue') = Len(queue) - 1
          /\ \A i \in 1..Len(queue') : queue'[i] = queue[i + 1]
      BY <2>2, <3>1, PopProperties
    <3> QED
      BY <3>1, <3>2, SizesAssumption
  <2> QED
    BY <2>1, <2>2
<1>3. CASE UNCHANGED <<queue, pushed, taken>>
  BY <1>3
<1> QED
  BY <1>1, <1>2, <1>3
  DEF Next, PushStep, TakeStep, Push, PushLock, PushSignal, PushUnlock, Take,
      TakeLock, Test, TimedWait, SpuriousWakeUp, DeadlinePasses, TimeOut, Reacquire,
      TakeUnlock, vars

(* Only the owner of the mutex takes a message, so a queue found nonempty  *)
(* stays so until the take that found it pops.                             *)
LEMMA PatienceStep == ASSUME IInv, [Next]_vars PROVE PatientTake'
<1> USE DEF IInv, TypeOK, PatientTake, Threads, Goto
<1>1. ASSUME NEW n \in Payloads, Push(n) PROVE PatientTake'
  BY <1>1, ThreadsAssumption DEF Push
<1>2. CASE PushLock \/ PushUnlock
  BY <1>2, ThreadsAssumption DEF PushLock, PushUnlock
<1>3. CASE PushAppend
  <2>1. pushed + 1 \in 1..MaxMessages
    BY <1>3, RoomToPush
  <2>2. queue' # <<>>
    BY <1>3, <2>1, AppendProperties DEF PushAppend
  <2> QED
    BY <1>3, <2>2, ThreadsAssumption DEF PushAppend
<1>4. CASE PushSignal
  BY <1>4, ThreadsAssumption DEF PushSignal
<1>5. ASSUME NEW c \in Consumers, Take(c) \/ TakeLock(c) \/ Test(c)
      PROVE  PatientTake'
  BY <1>5, ThreadsAssumption DEF Take, TakeLock, Test
<1>6. ASSUME NEW c \in Consumers, TimedWait(c) \/ SpuriousWakeUp(c)
      PROVE  PatientTake'
  BY <1>6, ThreadsAssumption DEF TimedWait, SpuriousWakeUp
<1>7. ASSUME NEW c \in Consumers, DeadlinePasses(c) \/ TimeOut(c)
      PROVE  PatientTake'
  BY <1>7, ThreadsAssumption DEF DeadlinePasses, TimeOut
<1>8. ASSUME NEW c \in Consumers, Reacquire(c) \/ TakeUnlock(c)
      PROVE  PatientTake'
  BY <1>8, ThreadsAssumption DEF Reacquire, TakeUnlock
<1>9. ASSUME NEW c \in Consumers, Pop(c) PROVE PatientTake'
  <2>1. /\ pc[c] = "pop" /\ pc' = [pc EXCEPT ![c] = "take_unlock"] /\ late' = late
    BY <1>9 DEF Pop
  <2>2. result'[c] # NULL \/ late'[c]
    <3>1. CASE queue = <<>>
      BY <2>1, <3>1
    <3>2. CASE queue # <<>>
      <4>1. Head(queue) \in 1..MaxMessages
        BY <3>2, PopProperties
      <4> QED
        BY <1>9, <3>2, <4>1 DEF Pop, NULL
    <3> QED
      BY <3>1, <3>2
  <2>3. \A d \in Consumers \ {c} : pc[d] # "pop" /\ result'[d] = result[d]
    <3>1. owner = c
      BY <2>1 DEF QueueIsGuarded, Critical
    <3> QED
      BY <1>9, <3>1 DEF Pop, QueueIsGuarded, Critical
  <2> QED
    BY <2>1, <2>2, <2>3, ThreadsAssumption
<1>10. CASE UNCHANGED vars
  BY <1>10 DEF vars
<1> QED
  BY <1>1, <1>2, <1>3, <1>4, <1>5, <1>6, <1>7, <1>8, <1>9, <1>10
  DEF Next, PushStep, TakeStep

LEMMA NextInvariant == IInv /\ [Next]_vars => IInv'
<1> SUFFICES ASSUME IInv, [Next]_vars PROVE IInv'
  OBVIOUS
<1> QED
  BY TypeStep, GuardStep, WaitStep, OrderStep, PatienceStep DEF IInv

LEMMA Invariance == Spec => []IInv
  BY InitInvariant, NextInvariant, PTL DEF Spec

(* Type correctness of the inbox.                                          *)
THEOREM TypeCorrect == Spec => []TypeOK
<1>1. IInv => TypeOK
  BY DEF IInv
<1> QED
  BY <1>1, Invariance, PTL

(* inbox->m protects inbox->queue, across every way a wait can end.        *)
THEOREM MutualExclusion == Spec => []QueueIsGuarded
<1>1. IInv => QueueIsGuarded
  BY DEF IInv
<1> QED
  BY <1>1, Invariance, PTL

(* No message is lost, duplicated or overtaken, for any number of          *)
(* listeners that take from the one inbox.                                 *)
THEOREM Order == Spec => []NothingIsLost
<1>1. IInv => NothingIsLost
  BY DEF IInv
<1> QED
  BY <1>1, Invariance, PTL

(* cometd_inbox_take returns NULL only after its deadline.                 *)
THEOREM Patience == Spec => []NullOnlyWhenLate
<1>1. IInv => NullOnlyWhenLate
  BY DEF IInv, PatientTake, NullOnlyWhenLate
<1> QED
  BY <1>1, Invariance, PTL

-----------------------------------------------------------------------------
(* No lost wake-up: a count of the consumers that are awake.               *)

LEMMA AwakeIsFinite ==
  ASSUME NEW S \in SUBSET Consumers
  PROVE  IsFiniteSet(S) /\ Cardinality(S) \in Nat
BY ThreadsAssumption, FS_Subset, FS_CardinalityType

LEMMA WakeStep ==
  ASSUME IInv, EveryMessageHasATaker, [Next]_vars
  PROVE  EveryMessageHasATaker'
<1> DEFINE Here == {"take_lock", "test", "woken", "timed_out", "pop"}
<1>a. /\ Awake = {c \in Consumers : pc[c] \in Here}
      /\ Awake' = {c \in Consumers : pc'[c] \in Here}
  BY DEF Awake
<1>b. IsFiniteSet(Awake) /\ Cardinality(Awake) \in Nat
  BY AwakeIsFinite DEF Awake
<1>c. IsFiniteSet(Awake') /\ Cardinality(Awake') \in Nat
  BY AwakeIsFinite, <1>a
<1>d. SignalPending \in {0, 1} /\ Len(queue) \in Nat
  BY DEF SignalPending, IInv, TypeOK
<1>e. ASSUME NEW c \in Consumers, pc[c] \notin Here,
             Awake' = Awake \cup {c}
      PROVE  Cardinality(Awake') = Cardinality(Awake) + 1
  BY <1>e, <1>a, <1>b, FS_AddElement
<1>f. pc \in [Threads -> PushPC \cup TakePC]
  BY DEF IInv, TypeOK
<1> HIDE DEF Here
<1>1. CASE /\ Awake' = Awake /\ queue' = queue
           /\ SignalPending' = SignalPending /\ waiting' \subseteq waiting
  BY <1>1 DEF EveryMessageHasATaker
<1>2. ASSUME NEW c \in Consumers, pc[c] \notin Here, Awake' = Awake \cup {c},
             queue' = queue, SignalPending' = SignalPending, waiting' \subseteq waiting
      PROVE  EveryMessageHasATaker'
  <2>1. Cardinality(Awake') = Cardinality(Awake) + 1
    BY <1>2, <1>e
  <2> QED
    BY <1>2, <2>1, <1>b, <1>d DEF EveryMessageHasATaker
<1>3. ASSUME NEW n \in Payloads, Push(n) PROVE EveryMessageHasATaker'
  BY <1>3, <1>1, <1>a, <1>f, ThreadsAssumption
  DEF Push, Goto, SignalPending, Threads
<1>4. CASE PushLock \/ PushUnlock
  BY <1>4, <1>1, <1>a, <1>f, ThreadsAssumption
  DEF PushLock, PushUnlock, Goto, SignalPending, Threads
<1>5. CASE PushAppend
  <2>1. Awake' = Awake /\ waiting' = waiting
    BY <1>5, <1>a, <1>f, ThreadsAssumption DEF PushAppend, Goto, Threads
  <2>2. SignalPending = 0 /\ SignalPending' = 1
    BY <1>5, <1>f DEF PushAppend, Goto, SignalPending, Threads
  <2>3. pushed + 1 \in 1..MaxMessages
    BY <1>5, RoomToPush
  <2>4. Len(queue') = Len(queue) + 1
    BY <1>5, <2>3, AppendProperties DEF PushAppend, IInv, TypeOK
  <2> QED
    BY <2>1, <2>2, <2>4, <1>b, <1>d DEF EveryMessageHasATaker
<1>6. CASE PushSignal
  <2>1. CASE waiting' = {}
    BY <2>1 DEF EveryMessageHasATaker
  <2>2. CASE waiting' # {}
    <3>1. PICK c \in waiting : /\ pc' = [pc EXCEPT ![Loop] = "push_unlock", ![c] = "woken"]
                               /\ queue' = queue /\ pc[Loop] = "signal"
      BY <1>6, <2>2 DEF PushSignal
    <3>2. c \in Consumers /\ pc[c] = "waiting"
      BY DEF IInv, WaitSet
    <3>3. pc[c] \notin Here
      BY <3>2 DEF Here
    <3>4. Awake' = Awake \cup {c}
      BY <3>1, <3>2, <1>a, <1>f, ThreadsAssumption DEF Threads, Here
    <3>5. SignalPending = 1 /\ SignalPending' = 0
      BY <3>1, <3>2, <1>f, ThreadsAssumption DEF SignalPending, Threads
    <3>6. Cardinality(Awake') = Cardinality(Awake) + 1
      BY <1>e, <3>2, <3>3, <3>4
    <3> QED
      BY <3>1, <3>5, <3>6, <1>b, <1>d DEF EveryMessageHasATaker
  <2> QED
    BY <2>1, <2>2
<1>7. ASSUME NEW c \in Consumers, Take(c) \/ SpuriousWakeUp(c) \/ TimeOut(c)
      PROVE  EveryMessageHasATaker'
  <2>1. pc[c] \notin Here
    BY <1>7 DEF Take, SpuriousWakeUp, TimeOut, Goto, Here
  <2>2. Awake' = Awake \cup {c}
    BY <1>7, <1>a, <1>f, ThreadsAssumption
    DEF Take, SpuriousWakeUp, TimeOut, Goto, Threads, Here
  <2>3. /\ queue' = queue /\ SignalPending' = SignalPending
        /\ waiting' \subseteq waiting
    BY <1>7, <1>f, ThreadsAssumption
    DEF Take, SpuriousWakeUp, TimeOut, Goto, SignalPending, Threads
  <2> QED
    BY <1>2, <2>1, <2>2, <2>3
<1>8. ASSUME NEW c \in Consumers,
             TakeLock(c) \/ Test(c) \/ Reacquire(c) \/ TakeUnlock(c) \/ DeadlinePasses(c)
      PROVE  EveryMessageHasATaker'
  <2>1. Awake' = Awake
    BY <1>8, <1>a, <1>f, ThreadsAssumption
    DEF TakeLock, Test, Reacquire, TakeUnlock, DeadlinePasses, Goto, Threads, Here
  <2>2. queue' = queue /\ SignalPending' = SignalPending /\ waiting' = waiting
    BY <1>8, <1>f, ThreadsAssumption
    DEF TakeLock, Test, Reacquire, TakeUnlock, DeadlinePasses, Goto, SignalPending, Threads
  <2> QED
    BY <1>1, <2>1, <2>2
<1>9. ASSUME NEW c \in Consumers, TimedWait(c) PROVE EveryMessageHasATaker'
  <2>1. Len(queue') = 0
    BY <1>9 DEF TimedWait
  <2>2. SignalPending' \in Nat
    BY DEF SignalPending
  <2> QED
    BY <2>1, <2>2, <1>c DEF EveryMessageHasATaker
<1>10. ASSUME NEW c \in Consumers, Pop(c) PROVE EveryMessageHasATaker'
  <2>1. SignalPending' = SignalPending /\ waiting' = waiting
    BY <1>10, <1>f, ThreadsAssumption DEF Pop, Goto, SignalPending, Threads
  <2>2. CASE queue = <<>>
    <3>1. Len(queue') = 0
      BY <1>10, <2>2 DEF Pop
    <3> QED
      BY <2>1, <3>1, <1>c, <1>d DEF EveryMessageHasATaker
  <2>3. CASE queue # <<>>
    <3>1. Len(queue') = Len(queue) - 1
      BY <1>10, <2>3, PopProperties DEF Pop, IInv, TypeOK
    <3>2. c \in Awake /\ Awake' = Awake \ {c}
      BY <1>10, <1>a, <1>f, ThreadsAssumption DEF Pop, Goto, Threads, Here
    <3>3. Cardinality(Awake') = Cardinality(Awake) - 1
      BY <3>2, <1>b, FS_RemoveElement
    <3> QED
      BY <2>1, <3>1, <3>3, <1>b, <1>d DEF EveryMessageHasATaker
  <2> QED
    BY <2>2, <2>3
<1>11. CASE UNCHANGED vars
  BY <1>11, <1>1 DEF vars, Awake, SignalPending
<1> QED
  BY <1>3, <1>4, <1>5, <1>6, <1>7, <1>8, <1>9, <1>10, <1>11
  DEF Next, PushStep, TakeStep

(* cometd_inbox_push_msg signals often enough: for any number of listeners *)
(* no message is left in the queue to threads that all sleep.              *)
THEOREM NoLostWakeUp == Spec => []EveryMessageHasATaker
<1>1. Init => EveryMessageHasATaker
  BY DEF Init, EveryMessageHasATaker
<1>2. IInv /\ EveryMessageHasATaker /\ [Next]_vars => EveryMessageHasATaker'
  BY WakeStep
<1> QED
  BY <1>1, <1>2, Invariance, PTL DEF Spec

-----------------------------------------------------------------------------
(* The inbox implements the mailbox.                                       *)

LEMMA MailboxStep ==
  ASSUME IInv, [Next]_vars
  PROVE  [M!Next]_<<pushed, taken, result>>
<1>1. CASE PushAppend
  <2>1. pushed < MaxMessages
    BY <1>1, RoomToPush
  <2> QED
    BY <1>1, <2>1 DEF PushAppend, M!Next, M!Push
<1>2. ASSUME NEW c \in Consumers, Pop(c) PROVE M!Next
  <2>1. CASE queue = <<>>
    <3>1. taken = pushed
      BY <2>1 DEF IInv, TypeOK, NothingIsLost
    <3> QED
      BY <1>2, <2>1, <3>1 DEF Pop, M!Next, M!TakeNothing, M!NULL, NULL
  <2>2. CASE queue # <<>>
    <3>1. Len(queue) > 0 /\ Head(queue) = queue[1]
      BY <2>2 DEF IInv, TypeOK
    <3>2. taken < pushed /\ Head(queue) = taken + 1
      BY <3>1 DEF IInv, TypeOK, NothingIsLost
    <3> QED
      BY <1>2, <2>2, <3>2 DEF Pop, M!Next, M!Take
  <2> QED
    BY <2>1, <2>2
<1>3. CASE UNCHANGED <<pushed, taken, result>>
  BY <1>3
<1> QED
  BY <1>1, <1>2, <1>3
  DEF Next, PushStep, TakeStep, Push, PushLock, PushSignal, PushUnlock, Take,
      TakeLock, Test, TimedWait, SpuriousWakeUp, DeadlinePasses, TimeOut, Reacquire,
      TakeUnlock, vars

(* Every behaviour of the inbox is one of the mailbox: whatever its        *)
(* threads do with mutex and condition, the messages come out in order,    *)
(* once, and NULL means there was none.                                    *)
THEOREM Refinement == Spec => MailboxSpec
<1>1. Init => M!Init
  BY DEF Init, M!Init, NULL, M!NULL
<1>2. IInv /\ [Next]_vars => [M!Next]_<<pushed, taken, result>>
  BY MailboxStep
<1> QED
  BY <1>1, <1>2, Invariance, PTL DEF Spec, MailboxSpec, M!Spec

=============================================================================
