------------------------------ MODULE Mailbox ------------------------------
(***************************************************************************)
(* What the inbox of a client handle promises to those who use it: the     *)
(* messages, numbered in the order of their arrival, are handed out in     *)
(* that order, each of them once, and a take comes back empty-handed only  *)
(* when there is nothing to take.                                          *)
(***************************************************************************)
EXTENDS Integers

CONSTANTS
  Consumers,    \* the threads that take
  MaxMessages   \* how many messages arrive

VARIABLES
  pushed,       \* messages that have arrived
  taken,        \* messages that have been handed out
  result        \* what the last take of each consumer returned, 0 for NULL

NULL == 0

Init ==
  /\ pushed = 0
  /\ taken = 0
  /\ result = [c \in Consumers |-> NULL]

Push ==
  /\ pushed < MaxMessages
  /\ pushed' = pushed + 1
  /\ UNCHANGED <<taken, result>>

Take(c) ==
  /\ taken < pushed
  /\ taken' = taken + 1
  /\ result' = [result EXCEPT ![c] = taken + 1]
  /\ UNCHANGED pushed

TakeNothing(c) ==
  /\ taken = pushed
  /\ result' = [result EXCEPT ![c] = NULL]
  /\ UNCHANGED <<pushed, taken>>

Next == Push \/ \E c \in Consumers : Take(c) \/ TakeNothing(c)

Spec == Init /\ [][Next]_<<pushed, taken, result>>

=============================================================================
