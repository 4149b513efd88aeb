------------------------------ MODULE Backoff ------------------------------
(***************************************************************************)
(* The retry arithmetic of src/cometd.c: how long cometd_handshake and the *)
(* receive loop wait before the next attempt, and when they give up.       *)
(*                                                                         *)
(* A delay is a number of milliseconds; GiveUp stands for the code's -1.   *)
(* Server advice (cometd_advice, include/cometd/conn.h) is a record; the   *)
(* NULL pointer is the record NoAdvice.                                    *)
(***************************************************************************)
EXTENDS Integers

CONSTANTS
  BackoffIncrement,  \* config->backoff_increment
  MaxBackoff,        \* config->max_backoff
  Intervals          \* the values of advice->interval the server may send

ASSUME ConfigAssumption ==
  /\ BackoffIncrement \in Nat
  /\ MaxBackoff \in Nat
  /\ Intervals \subseteq Int    \* nothing checks what the server sends

NoAdvice == [reconnect |-> "NULL", interval |-> 0]

Offer  == [reconnect : {"none", "retry", "handshake"}, interval : Intervals]
Advice == Offer \cup {NoAdvice}

IsHandshake(a) == a.reconnect = "handshake"
IsRetry(a)     == a.reconnect = "retry"
IsNone(a)      == a.reconnect = "none"

GiveUp == -1

(* What the two loops may be told to wait.                                 *)
Delays == {GiveUp, 0} \cup 0..(MaxBackoff - 1) \cup Intervals

(* Mutant: max_backoff is not looked at.                                   *)
ComputeBackoff_Unbounded(attempt) == attempt * BackoffIncrement

(* A linear delay, as long as it stays below max_backoff; a zero increment *)
(* or a zero maximum switches retrying off.                                *)
ComputeBackoff(attempt) ==
  LET backoff == attempt * BackoffIncrement
  IN  IF BackoffIncrement # 0 /\ MaxBackoff # 0 /\ backoff < MaxBackoff
      THEN backoff
      ELSE GiveUp

(* Advice that names no interval falls back to the linear delay, but only  *)
(* from the second attempt on.                                             *)
ShouldBackoff(a, attempt) ==
  ~IsNone(a) /\ a.interval = 0 /\ attempt > 1

(* Mutant: the offset is applied without advice, too.                      *)
GetBackoff_OffsetAlways(a, attempt) ==
  IF a = NoAdvice THEN ComputeBackoff(attempt - 1)
  ELSE IF ShouldBackoff(a, attempt) THEN ComputeBackoff(attempt - 1)
  ELSE IF IsNone(a) THEN GiveUp
  ELSE a.interval

GetBackoff(a, attempt) ==
  IF a = NoAdvice THEN ComputeBackoff(attempt)
  ELSE IF ShouldBackoff(a, attempt) THEN ComputeBackoff(attempt - 1)
  ELSE IF IsNone(a) THEN GiveUp
  ELSE a.interval

============================================================================
