------------------------------- MODULE Inbox -------------------------------
(***************************************************************************)
(* src/inbox.c: the queue between the receive thread and the listeners, a  *)
(* GQueue under a GMutex with a GCond that cometd_inbox_take waits on for  *)
(* at most 100 ms.  A message is its number in the order of the pushes.    *)
(*                                                                         *)
(* The GLib primitives are modelled as documented: unlocking and starting  *)
(* to wait are one step, a wait ends by a signal, by itself (spuriously)   *)
(* or at its deadline, and always gets the mutex back before it returns.   *)
(***************************************************************************)
EXTENDS Integers, Sequences, FiniteSets

CONSTANTS
  Loop,         \* the receive thread, the one thread that pushes
  Consumers,    \* the threads that take: those in cometd_listen
  Free,         \* the owner of an unlocked mutex
  MaxMessages,  \* how many messages are pushed in all
  Payloads      \* how many messages a payload may hold

ASSUME ThreadsAssumption ==
  /\ Loop \notin Consumers
  /\ Free \notin Consumers \cup {Loop}
  /\ IsFiniteSet(Consumers)

ASSUME SizesAssumption == MaxMessages \in Nat /\ Payloads \subseteq Nat

Threads == {Loop} \cup Consumers

NULL == 0

VARIABLES
  queue,     \* inbox->queue
  owner,     \* the thread that holds inbox->m
  waiting,   \* the threads that wait on inbox->c
  pc,        \* where each thread stands
  left,      \* messages of its payload the receive thread has still to push
  late,      \* whether the deadline of a consumer's take has passed
  pushed,    \* messages pushed so far
  taken,     \* messages taken so far
  result     \* what the last take of a consumer returned

vars == <<queue, owner, waiting, pc, left, late, pushed, taken, result>>

Init ==
  /\ queue = <<>>
  /\ owner = Free
  /\ waiting = {}
  /\ pc = [t \in Threads |-> "idle"]
  /\ left = 0
  /\ late = [c \in Consumers |-> FALSE]
  /\ pushed = 0
  /\ taken = 0
  /\ result = [c \in Consumers |-> NULL]

Goto(t, from, to) == pc[t] = from /\ pc' = [pc EXCEPT ![t] = to]

Lock(t)   == owner = Free /\ owner' = t
Unlock(t) == owner = t /\ owner' = Free

-----------------------------------------------------------------------------
(* cometd_inbox_push: one cometd_inbox_push_msg for every message of the   *)
(* payload, so that other threads may get the mutex between two of them.   *)

Push(n) ==
  /\ pushed + n <= MaxMessages
  /\ Goto(Loop, "idle", IF n = 0 THEN "idle" ELSE "push_lock")
  /\ left' = n
  /\ UNCHANGED <<queue, owner, waiting, late, pushed, taken, result>>

(* Mutant: the queue is used without its mutex.                            *)
PushLock_Missing ==
  /\ Goto(Loop, "push_lock", "append")
  /\ UNCHANGED <<queue, owner, waiting, left, late, pushed, taken, result>>

PushLock ==
  /\ Goto(Loop, "push_lock", "append")
  /\ Lock(Loop)
  /\ UNCHANGED <<queue, waiting, left, late, pushed, taken, result>>

(* Mutants: the same message again and again; last in, first out.          *)
PushAppend_NoNext ==
  /\ Goto(Loop, "append", "signal")
  /\ queue' = Append(queue, pushed + 1)
  /\ pushed' = pushed + 1
  /\ UNCHANGED <<owner, waiting, left, late, taken, result>>

PushAppend_AtHead ==
  /\ Goto(Loop, "append", "signal")
  /\ queue' = <<pushed + 1>> \o queue
  /\ pushed' = pushed + 1
  /\ left' = left - 1
  /\ UNCHANGED <<owner, waiting, late, taken, result>>

PushAppend ==
  /\ Goto(Loop, "append", "signal")
  /\ queue' = Append(queue, pushed + 1)
  /\ pushed' = pushed + 1
  /\ left' = left - 1
  /\ UNCHANGED <<owner, waiting, late, taken, result>>

(* Mutants: no signal; a signal only when the queue was empty.             *)
PushSignal_Missing ==
  /\ Goto(Loop, "signal", "push_unlock")
  /\ UNCHANGED <<queue, owner, waiting, left, late, pushed, taken, result>>

PushSignal_OnlyFirst ==
  /\ pc[Loop] = "signal"
  /\ \/ /\ waiting = {} \/ Len(queue) > 1
        /\ pc' = [pc EXCEPT ![Loop] = "push_unlock"]
        /\ UNCHANGED waiting
     \/ /\ Len(queue) = 1
        /\ \E c \in waiting :
             /\ waiting' = waiting \ {c}
             /\ pc' = [pc EXCEPT ![Loop] = "push_unlock", ![c] = "woken"]
  /\ UNCHANGED <<queue, owner, left, late, pushed, taken, result>>

PushSignal ==
  /\ pc[Loop] = "signal"
  /\ \/ /\ waiting = {}
        /\ pc' = [pc EXCEPT ![Loop] = "push_unlock"]
        /\ UNCHANGED waiting
     \/ \E c \in waiting :
          /\ waiting' = waiting \ {c}
          /\ pc' = [pc EXCEPT ![Loop] = "push_unlock", ![c] = "woken"]
  /\ UNCHANGED <<queue, owner, left, late, pushed, taken, result>>

PushUnlock ==
  /\ Goto(Loop, "push_unlock", IF left = 0 THEN "idle" ELSE "push_lock")
  /\ Unlock(Loop)
  /\ UNCHANGED <<queue, waiting, left, late, pushed, taken, result>>

-----------------------------------------------------------------------------
(* cometd_inbox_take *)

Take(c) ==
  /\ Goto(c, "idle", "take_lock")
  /\ UNCHANGED <<queue, owner, waiting, left, late, pushed, taken, result>>

(* The deadline is computed once, under the mutex.                         *)
TakeLock(c) ==
  /\ Goto(c, "take_lock", "test")
  /\ Lock(c)
  /\ late' = [late EXCEPT ![c] = FALSE]
  /\ UNCHANGED <<queue, waiting, left, pushed, taken, result>>

Test(c) ==
  /\ queue # <<>>
  /\ Goto(c, "test", "pop")
  /\ UNCHANGED <<queue, owner, waiting, left, late, pushed, taken, result>>

TimedWait(c) ==
  /\ queue = <<>>
  /\ Goto(c, "test", "waiting")
  /\ Unlock(c)
  /\ waiting' = waiting \cup {c}
  /\ UNCHANGED <<queue, left, late, pushed, taken, result>>

SpuriousWakeUp(c) ==
  /\ ~late[c]
  /\ Goto(c, "waiting", "woken")
  /\ waiting' = waiting \ {c}
  /\ UNCHANGED <<queue, owner, left, late, pushed, taken, result>>

DeadlinePasses(c) ==
  /\ pc[c] \in {"test", "waiting", "woken"}
  /\ ~late[c]
  /\ late' = [late EXCEPT ![c] = TRUE]
  /\ UNCHANGED <<queue, owner, waiting, pc, left, pushed, taken, result>>

TimeOut(c) ==
  /\ late[c]
  /\ Goto(c, "waiting", "timed_out")
  /\ waiting' = waiting \ {c}
  /\ UNCHANGED <<queue, owner, left, late, pushed, taken, result>>

(* Mutant: `if` for `while`.                                               *)
Reacquire_If(c) ==
  /\ Goto(c, "woken", "pop") \/ Goto(c, "timed_out", "pop")
  /\ Lock(c)
  /\ UNCHANGED <<queue, waiting, left, late, pushed, taken, result>>

(* g_cond_timed_wait returns: TRUE goes round the loop, FALSE leaves it.   *)
Reacquire(c) ==
  /\ Goto(c, "woken", "test") \/ Goto(c, "timed_out", "pop")
  /\ Lock(c)
  /\ UNCHANGED <<queue, waiting, left, late, pushed, taken, result>>

(* Mutant: the newest message is taken.                                    *)
Pop_Last(c) ==
  /\ Goto(c, "pop", "take_unlock")
  /\ IF queue # <<>>
     THEN /\ result' = [result EXCEPT ![c] = queue[Len(queue)]]
          /\ queue' = SubSeq(queue, 1, Len(queue) - 1)
          /\ taken' = taken + 1
     ELSE /\ result' = [result EXCEPT ![c] = NULL]
          /\ UNCHANGED <<queue, taken>>
  /\ UNCHANGED <<owner, waiting, left, late, pushed>>

Pop(c) ==
  /\ Goto(c, "pop", "take_unlock")
  /\ IF queue # <<>>
     THEN /\ result' = [result EXCEPT ![c] = Head(queue)]
          /\ queue' = Tail(queue)
          /\ taken' = taken + 1
     ELSE /\ result' = [result EXCEPT ![c] = NULL]
          /\ UNCHANGED <<queue, taken>>
  /\ UNCHANGED <<owner, waiting, left, late, pushed>>

TakeUnlock(c) ==
  /\ Goto(c, "take_unlock", "idle")
  /\ Unlock(c)
  /\ UNCHANGED <<queue, waiting, left, late, pushed, taken, result>>

-----------------------------------------------------------------------------

PushStep == PushLock \/ PushAppend \/ PushSignal \/ PushUnlock

TakeStep(c) == \/ TakeLock(c) \/ Test(c) \/ TimedWait(c) \/ Reacquire(c)
               \/ Pop(c) \/ TakeUnlock(c)

Next == \/ PushStep
        \/ \E n \in Payloads : Push(n)
        \/ \E c \in Consumers : \/ TakeStep(c) \/ Take(c) \/ SpuriousWakeUp(c)
                                \/ DeadlinePasses(c) \/ TimeOut(c)

Spec == Init /\ [][Next]_vars

(* A thread that can go on does, and cometd_listen takes again and again.  *)
(* Nothing is assumed of the order in which the mutex is handed over.      *)
ThreadsRun ==
  /\ WF_vars(PushStep)
  /\ \A c \in Consumers : WF_vars(TakeStep(c)) /\ WF_vars(Take(c))

SignalSpec == Spec /\ ThreadsRun

-----------------------------------------------------------------------------
(* Properties *)

PushPC == {"idle", "push_lock", "append", "signal", "push_unlock"}
TakePC == {"idle", "take_lock", "test", "waiting", "woken", "timed_out", "pop",
           "take_unlock"}

(* Every variable has its type.                                            *)
TypeOK ==
  /\ queue \in Seq(1..MaxMessages)
  /\ owner \in Threads \cup {Free}
  /\ waiting \subseteq Consumers
  /\ pc \in [Threads -> PushPC \cup TakePC]
  /\ pc[Loop] \in PushPC
  /\ \A c \in Consumers : pc[c] \in TakePC
  /\ left \in Nat /\ pushed + left <= MaxMessages
  /\ late \in [Consumers -> BOOLEAN]
  /\ pushed \in 0..MaxMessages
  /\ taken \in 0..MaxMessages
  /\ result \in [Consumers -> 0..MaxMessages]

Critical == {"append", "signal", "push_unlock", "test", "pop", "take_unlock"}

(* A thread touches the queue, and releases the mutex, only as its owner:  *)
(* also after a wait that ended by a signal, spuriously or by time-out.    *)
QueueIsGuarded ==
  \A t \in Threads : pc[t] \in Critical <=> owner = t

(* The queue holds exactly the messages that were pushed and not yet       *)
(* taken, in the order of the pushes, whatever number of threads take.     *)
NothingIsLost ==
  /\ Len(queue) = pushed - taken
  /\ \A i \in 1..Len(queue) : queue[i] = taken + i

Awake == {c \in Consumers : pc[c] \in {"take_lock", "test", "woken", "timed_out", "pop"}}

SignalPending == IF pc[Loop] = "signal" THEN 1 ELSE 0

(* No wake-up is lost: while a consumer waits, there is for every message  *)
(* in the queue a consumer awake to take it, or a signal about to be sent. *)
EveryMessageHasATaker ==
  waiting # {} => Len(queue) <= Cardinality(Awake) + SignalPending

(* cometd_inbox_take returns NULL only once its 100 ms are over.           *)
NullOnlyWhenLate ==
  \A c \in Consumers :
    pc[c] = "take_unlock" /\ result[c] = NULL => late[c]

(* The inbox is a mailbox.                                                 *)
M == INSTANCE Mailbox
MailboxSpec == M!Spec

(* Every pushed message is taken, by the signals alone: no wait has to end *)
(* by its deadline for that.                                               *)
EveryMessageIsTaken ==
  \A n \in 1..MaxMessages : pushed >= n ~> taken >= n

=============================================================================
