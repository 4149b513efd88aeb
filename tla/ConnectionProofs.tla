-------------------------- MODULE ConnectionProofs --------------------------
(***************************************************************************)
(* Proofs about Connection, for every configuration of the retry limits    *)
(* and every number of connects.                                           *)
(***************************************************************************)
EXTENDS Connection, TLAPS

(* A product of naturals is monotone: the arithmetic the solver needs to   *)
(* be told.                                                                *)
LEMMA ProductGrows ==
  ASSUME NEW b \in Nat, NEW m \in Int, NEW n \in Int, n >= m
  PROVE  n * b >= m * b
<1>1. (n - m) * b >= 0
  OBVIOUS
<1>2. (n - m) * b = n * b - m * b
  OBVIOUS
<1> QED
  BY <1>1, <1>2

(* From the saturated attempt on, the linear delay is exhausted.           *)
LEMMA ExhaustedDelay ==
  ASSUME NEW n \in Nat, n >= MaxAttempt - 1
  PROVE  ComputeBackoff(n) = GiveUp
<1>1. CASE BackoffIncrement = 0
  BY <1>1 DEF ComputeBackoff
<1>2. CASE BackoffIncrement # 0
  <2>1. n * BackoffIncrement >= (MaxAttempt - 1) * BackoffIncrement
    BY ProductGrows, ConfigAssumption, BoundsAssumption
  <2>2. (MaxAttempt - 1) * BackoffIncrement >= MaxBackoff
    BY <1>2, SaturationAssumption
  <2>3. n * BackoffIncrement \in Int /\ (MaxAttempt - 1) * BackoffIncrement \in Int
    BY ConfigAssumption, BoundsAssumption
  <2>4. ~(n * BackoffIncrement < MaxBackoff)
    BY <2>1, <2>2, <2>3, ConfigAssumption
  <2> QED
    BY <2>4 DEF ComputeBackoff
<1> QED
  BY <1>1, <1>2

(* Capping the attempt counter changes no delay: what cometd_get_backoff   *)
(* returns for an attempt beyond MaxAttempt it returns for MaxAttempt.     *)
THEOREM SaturationIsExact ==
  ASSUME NEW a \in Advice, NEW n \in Nat, n >= MaxAttempt
  PROVE  GetBackoff(a, n) = GetBackoff(a, MaxAttempt)
<1>1. /\ ComputeBackoff(n) = GiveUp
      /\ ComputeBackoff(n - 1) = GiveUp
      /\ ComputeBackoff(MaxAttempt) = GiveUp
      /\ ComputeBackoff(MaxAttempt - 1) = GiveUp
  BY ExhaustedDelay, BoundsAssumption
<1>2. ShouldBackoff(a, n) <=> ShouldBackoff(a, MaxAttempt)
  BY BoundsAssumption DEF ShouldBackoff
<1> QED
  BY <1>1, <1>2 DEF GetBackoff

(* Retrying is bounded: whatever increment and maximum are configured,     *)
(* cometd_get_backoff gives up at the latest at attempt MaxAttempt, unless *)
(* the server asked for a pause of its own.                                *)
THEOREM RetriesAreBounded ==
  ASSUME NEW a \in Advice, a.interval = 0, NEW n \in Nat, n >= MaxAttempt
  PROVE  GetBackoff(a, n) = GiveUp
<1>1. ComputeBackoff(n) = GiveUp /\ ComputeBackoff(n - 1) = GiveUp
  BY ExhaustedDelay, BoundsAssumption
<1>2. CASE IsNone(a)
  BY <1>1, <1>2 DEF GetBackoff, ShouldBackoff
<1>3. CASE ~IsNone(a)
  <2>1. n > 1
    BY BoundsAssumption
  <2>2. ShouldBackoff(a, n)
    BY <1>3, <2>1 DEF ShouldBackoff
  <2> QED
    BY <1>1, <2>2 DEF GetBackoff
<1> QED
  BY <1>2, <1>3

(* Every delay is one the configuration allows or the server asked for.    *)
LEMMA DelayTypes ==
  ASSUME NEW a \in Advice, NEW n \in Nat \ {0}
  PROVE  GetBackoff(a, n) \in Delays
<1>1. ASSUME NEW k \in Nat
      PROVE  ComputeBackoff(k) \in Delays
  <2>1. k * BackoffIncrement \in Nat
    BY ConfigAssumption
  <2> QED
    BY <2>1, ConfigAssumption DEF ComputeBackoff, Delays, GiveUp
<1>2. n - 1 \in Nat
  OBVIOUS
<1>3. ComputeBackoff(n) \in Delays /\ ComputeBackoff(n - 1) \in Delays
  BY <1>1, <1>2
<1>4. a # NoAdvice => a.interval \in Delays
  BY DEF Advice, Offer, Delays
<1>5. GiveUp \in Delays
  BY DEF Delays
<1> QED
  BY <1>3, <1>4, <1>5 DEF GetBackoff

-----------------------------------------------------------------------------
(* Type correctness *)

LEMMA InitTypes == Init => TypeOK
<1> SUFFICES ASSUME Init PROVE TypeOK
  OBVIOUS
<1>1. /\ state \in States /\ advice \in Advice /\ transport \in {NULL, LongPolling}
      /\ clientId \in {NULL, "id"} /\ pc \in [app : AppPC, loop : LoopPC]
      /\ server \in {"up", "down"}
      /\ posts \in [Threads -> 0..MaxAttempt] /\ polls \in 0..MaxAttempt
  BY BoundsAssumption DEF Init, States, Advice, AppPC, LoopPC, UNINITIALIZED
<1>2. IdleHandshake \in [attempt : 1..MaxAttempt, backoff : Delays, code : Codes]
  BY BoundsAssumption DEF IdleHandshake, Delays, Codes
<1>3. BadConnect \in {r \in Reply : r.kind = "connect"}
  BY DEF BadConnect, NoReply, Reply, Advice, NULL
<1>4. IdleLoop \in [attempt : 1..MaxAttempt, backoff : Delays,
                    connect : {r \in Reply : r.kind = "connect"}]
  BY <1>3, BoundsAssumption DEF IdleLoop, Delays
<1>5. connects \in 0..MaxConnects
  BY BoundsAssumption DEF Init
<1> QED
  BY <1>1, <1>2, <1>4, <1>5 DEF Init, TypeOK

LEMMA NextTypes == TypeOK /\ [Next]_vars => TypeOK'
<1> SUFFICES ASSUME TypeOK, [Next]_vars PROVE TypeOK'
  OBVIOUS
<1> DEFINE HsLocals   == [attempt : 1..MaxAttempt, backoff : Delays, code : Codes]
           Messages   == {r \in Reply : r.kind = "connect"}
           LoopLocals == [attempt : 1..MaxAttempt, backoff : Delays, connect : Messages]
<1>a. TypeOK <=> /\ state \in States
                 /\ advice \in Advice
                 /\ transport \in {NULL, LongPolling}
                 /\ clientId \in {NULL, "id"}
                 /\ pc \in [app : AppPC, loop : LoopPC]
                 /\ hs \in [Threads -> HsLocals]
                 /\ loop \in LoopLocals
                 /\ connects \in 0..MaxConnects
                 /\ server \in {"up", "down"}
                 /\ posts \in [Threads -> 0..MaxAttempt]
                 /\ polls \in 0..MaxAttempt
  BY DEF TypeOK
<1>b. IdleHandshake \in HsLocals
  BY BoundsAssumption DEF IdleHandshake, Delays, Codes
<1>c. BadConnect \in Messages
  BY DEF BadConnect, NoReply, Reply, Advice, NULL
<1>d. IdleLoop \in LoopLocals
  BY <1>c, BoundsAssumption DEF IdleLoop, Delays
<1>e. ASSUME NEW n \in 1..MaxAttempt PROVE NextAttempt(n) \in 1..MaxAttempt
  BY BoundsAssumption DEF NextAttempt
<1>f. ASSUME NEW n \in 0..MaxAttempt PROVE Counted(n) \in 0..MaxAttempt
  BY BoundsAssumption DEF Counted
<1>1. ASSUME NEW t \in Threads, HandshakeCheck(t) PROVE TypeOK'
  BY <1>1 DEF TypeOK, HandshakeCheck, Goto, conn, history, Threads, AfterHandshake, AppPC, LoopPC
<1>2. ASSUME NEW t \in Threads, NEW r \in Reply, HandshakeSend(t, r) PROVE TypeOK'
  <2>1. /\ state' \in States
        /\ advice' \in Advice
        /\ transport' \in {NULL, LongPolling}
        /\ clientId' \in {NULL, "id"}
    <3>1. CASE r.kind = "handshake"
      BY <1>2, <3>1 DEF TypeOK, HandshakeSend, ProcessHandshake, Reply, States,
                        HANDSHAKE_SUCCESS
    <3>2. CASE r.kind # "handshake"
      BY <1>2, <3>2 DEF TypeOK, HandshakeSend, conn
    <3> QED
      BY <3>1, <3>2
  <2>2. pc' \in [app : AppPC, loop : LoopPC]
    BY <1>2 DEF TypeOK, HandshakeSend, Threads, AfterHandshake, AppPC, LoopPC
  <2>3. hs' \in [Threads -> HsLocals]
    <3> DEFINE delay == GetBackoff(advice', hs[t].attempt)
    <3>1. hs[t].attempt \in 1..MaxAttempt
      BY DEF TypeOK
    <3>2. delay \in Delays
      BY <2>1, <3>1, DelayTypes, BoundsAssumption
    <3>3. ImplHandshakeCode(r) \in Codes
      BY DEF ImplHandshakeCode, Codes
    <3>4. NextAttempt(hs[t].attempt) \in 1..MaxAttempt
      BY <3>1, <1>e
    <3>5. hs' = [hs EXCEPT ![t] = [attempt |-> NextAttempt(hs[t].attempt),
                                   backoff |-> delay,
                                   code    |-> ImplHandshakeCode(r)]]
      BY <1>2 DEF HandshakeSend
    <3> HIDE DEF delay
    <3> QED
      BY <3>2, <3>3, <3>4, <3>5 DEF TypeOK
  <2> QED
    BY <1>2, <1>a, <1>f, <2>1, <2>2, <2>3 DEF HandshakeSend, TypeOK
<1>3. CASE AppConnect
  BY <1>3, BoundsAssumption DEF TypeOK, AppConnect, Goto, conn, history, AppPC
<1>4. CASE AppHandshakeReturn
  BY <1>4, <1>b, BoundsAssumption
  DEF TypeOK, AppHandshakeReturn, Goto, conn, AppPC, Threads
<1>5. CASE AppLoopStart
  BY <1>5, <1>d, BoundsAssumption DEF TypeOK, AppLoopStart, conn, AppPC, LoopPC
<1>6. CASE AppLoopStartFails
  BY <1>6 DEF TypeOK, AppLoopStartFails, Goto, conn, history, AppPC
<1>7. CASE AppSetConnected
  BY <1>7 DEF TypeOK, AppSetConnected, Goto, history, AppPC, States
<1>8. CASE AppDisconnect \/ AppDisconnectWait
  BY <1>8 DEF TypeOK, AppDisconnect, AppDisconnectWait, Goto, conn, history, AppPC, States
<1>9. CASE AppJoin
  BY <1>9 DEF TypeOK, AppJoin, conn, history, AppPC, LoopPC
<1>10. CASE LoopShouldRecv
  BY <1>10 DEF TypeOK, LoopShouldRecv, Goto, conn, history, LoopPC
<1>11. ASSUME NEW r \in Reply, LoopRecv(r) PROVE TypeOK'
  <2>1. (IF r.kind = "connect" THEN r ELSE BadConnect) \in Messages
    BY <1>c
  <2>2. loop' \in LoopLocals
    BY <1>11, <2>1 DEF TypeOK, LoopRecv
  <2> QED
    BY <1>11, <2>2 DEF TypeOK, LoopRecv, Goto, conn, history, LoopPC
<1>12. CASE LoopProcessConnect
  BY <1>12 DEF TypeOK, LoopProcessConnect, Goto, conn, history, LoopPC
<1>13. CASE LoopSetState
  BY <1>13 DEF TypeOK, LoopSetState, Goto, history, LoopPC, States, Reply
<1>14. CASE LoopShouldRetry
  <2> DEFINE delay == IF ShouldRetryRecv THEN GetBackoff(advice, loop.attempt) ELSE 0
  <2>1. delay \in Delays
    BY DelayTypes, BoundsAssumption DEF TypeOK, Delays
  <2>2. loop' = [attempt |-> IF ShouldRetryRecv THEN NextAttempt(loop.attempt) ELSE 1,
                 backoff |-> delay, connect |-> BadConnect]
    BY <1>14 DEF LoopShouldRetry
  <2>3. (IF ShouldRetryRecv THEN NextAttempt(loop.attempt) ELSE 1) \in 1..MaxAttempt
    BY <1>e, BoundsAssumption DEF TypeOK
  <2>4. pc' \in [app : AppPC, loop : LoopPC]
    BY <1>14 DEF TypeOK, LoopShouldRetry, Goto, LoopPC
  <2> HIDE DEF delay
  <2>5. loop' \in LoopLocals
    BY <2>1, <2>2, <2>3, <1>c
  <2> QED
    BY <1>14, <1>b, <1>f, <2>4, <2>5, BoundsAssumption
    DEF TypeOK, LoopShouldRetry, conn, Threads
<1>15. CASE LoopExit
  BY <1>15 DEF TypeOK, LoopExit, Goto, history, LoopPC, States
<1>16. CASE ServerDown
  BY <1>16 DEF TypeOK, ServerDown, conn, history
<1>17. CASE UNCHANGED vars
  BY <1>17 DEF TypeOK, vars, conn, history
<1> QED
  BY <1>1, <1>2, <1>3, <1>4, <1>5, <1>6, <1>7, <1>8, <1>9, <1>10, <1>11, <1>12,
     <1>13, <1>14, <1>15, <1>16, <1>17
  DEF Next, AppStep, LoopStep, Handshake, Finished, Threads

(* Every field of the connection and every local of the two threads keeps  *)
(* its type, and no delay is ever outside what cometd_get_backoff allows.  *)
THEOREM TypeCorrect == Spec => []TypeOK
  BY InitTypes, NextTypes, PTL DEF Spec

-----------------------------------------------------------------------------
(* The safety invariants.  What each needs beyond itself is a part of the  *)
(* inductive invariant of its own.                                         *)

(* An order that the application keeps, not the library: it connects only  *)
(* after the receive thread of the last connection was joined.             *)
NoLoopWhileConnecting ==
  pc["app"] \in {"idle", "handshake", "handshake_send", "handshake_return",
                 "loop_start"} => pc["loop"] = "none"

(* A transport and a client id, once negotiated, are never taken back, and *)
(* cometd_handshake reports success only when there are some.              *)
TransportIsKept ==
  /\ transport # NULL => clientId # NULL
  /\ hs["app"].code = "SUCCESS" => transport # NULL
  /\ pc["app"] \in {"loop_start", "set_connected", "connected", "join"} =>
       transport # NULL
  /\ pc["loop"] # "none" => transport # NULL

(* The locals of a call of cometd_handshake are fresh when it starts, and  *)
(* the receive thread leaves its loop in the round that gave up.           *)
LocalsAreFresh ==
  /\ pc["app"] \notin {"handshake", "handshake_send", "handshake_return"} =>
       hs["app"] = IdleHandshake
  /\ pc["loop"] \notin {"handshake", "handshake_send", "should_retry"} =>
       hs["loop"] = IdleHandshake
  /\ \A t \in Threads : pc[t] \in {"handshake", "handshake_send"} =>
                          hs[t].backoff # GiveUp
  /\ pc["loop"] \notin {"exit", "done", "none"} => loop.backoff # GiveUp

(* The counters of the two loops count requests, and the delay of a round  *)
(* is that of the requests made before it, under the advice stored now.    *)
Waits(backoff, n) == backoff = IF n = 0 THEN 0 ELSE GetBackoff(advice, n)

CountersAgree ==
  /\ \A t \in Threads : hs[t].attempt = NextAttempt(posts[t])
  /\ loop.attempt = NextAttempt(polls)
  /\ \A t \in Threads : pc[t] \in {"handshake", "handshake_send"} =>
                          Waits(hs[t].backoff, posts[t])
  /\ pc["loop"] \in {"should_recv", "recv"} => Waits(loop.backoff, polls)

(* Until the first receive thread starts, the state follows the transport: *)
(* nobody but cometd_process_handshake has written either.                 *)
FirstSession ==
  /\ connects = 0 => pc["app"] = "idle"
  /\ connects = 0 \/ (connects = 1 /\ pc["app"] \in
       {"handshake", "handshake_send", "handshake_return", "loop_start"}) =>
       state = IF transport = NULL THEN UNINITIALIZED ELSE HANDSHAKE_SUCCESS
  /\ connects = 1 /\ pc["app"] # "join" /\ pc["loop"] \notin {"none", "exit", "done"} =>
       state \in {CONNECTED, HANDSHAKE_SUCCESS, UNCONNECTED}

IInv == /\ TypeOK
        /\ NoLoopWhileConnecting
        /\ TransportIsKept
        /\ LocalsAreFresh
        /\ CountersAgree
        /\ FirstSession
        /\ ExitHasAReason

LEMMA InitInvariant == Init => IInv
<1> SUFFICES ASSUME Init PROVE IInv
  OBVIOUS
<1>1. TypeOK
  BY InitTypes
<1>2. NoLoopWhileConnecting /\ TransportIsKept /\ FirstSession /\ ExitHasAReason
  BY DEF Init, NoLoopWhileConnecting, TransportIsKept, FirstSession, ExitHasAReason,
         IdleHandshake, Threads
<1>3. LocalsAreFresh
  BY DEF Init, LocalsAreFresh, Threads
<1>4. CountersAgree
  BY BoundsAssumption
  DEF Init, CountersAgree, Threads, IdleHandshake, IdleLoop, NextAttempt
<1> QED
  BY <1>1, <1>2, <1>3, <1>4 DEF IInv

(* Only AppLoopStart and AppJoin change which threads there are.           *)
LEMMA OwnerStep ==
  ASSUME TypeOK, NoLoopWhileConnecting, [Next]_vars
  PROVE  NoLoopWhileConnecting'
<1> USE DEF TypeOK, NoLoopWhileConnecting, Goto
<1>1. ASSUME NEW t \in Threads, Handshake(t) PROVE NoLoopWhileConnecting'
  <2>1. CASE t = "app"
    BY <1>1, <2>1 DEF Handshake, HandshakeCheck, HandshakeSend
  <2>2. CASE t = "loop"
    BY <1>1, <2>2 DEF Handshake, HandshakeCheck, HandshakeSend, AfterHandshake
  <2> QED
    BY <1>1, <2>1, <2>2 DEF Threads
<1>2. CASE AppConnect \/ AppHandshakeReturn
  BY <1>2 DEF AppConnect, AppHandshakeReturn
<1>3. CASE AppLoopStart
  BY <1>3 DEF AppLoopStart
<1>8. CASE AppLoopStartFails \/ AppSetConnected
  BY <1>8 DEF AppLoopStartFails, AppSetConnected
<1>4. CASE AppDisconnect \/ AppDisconnectWait \/ AppJoin
  BY <1>4 DEF AppDisconnect, AppDisconnectWait, AppJoin
<1>5. CASE LoopShouldRecv \/ (\E r \in Reply : LoopRecv(r)) \/ LoopProcessConnect
  BY <1>5 DEF LoopShouldRecv, LoopRecv, LoopProcessConnect
<1>6. CASE LoopSetState \/ LoopShouldRetry \/ LoopExit
  BY <1>6 DEF LoopSetState, LoopShouldRetry, LoopExit
<1>7. CASE ServerDown \/ UNCHANGED vars
  BY <1>7 DEF ServerDown, vars
<1> QED
  BY <1>1, <1>2, <1>3, <1>4, <1>5, <1>6, <1>7, <1>8
  DEF Next, AppStep, LoopStep, Finished, Threads

(* Only cometd_process_handshake writes the transport, and cometd_connect  *)
(* goes past cometd_handshake only with the success it reported.           *)
LEMMA TransportStep ==
  ASSUME TypeOK, TransportIsKept, [Next]_vars
  PROVE  TransportIsKept'
<1> USE DEF TypeOK, TransportIsKept, Goto
<1>1. ASSUME NEW t \in Threads, HandshakeCheck(t) PROVE TransportIsKept'
  BY <1>1 DEF HandshakeCheck, AfterHandshake, conn, Threads
<1>2. ASSUME NEW t \in Threads, NEW r \in Reply, HandshakeSend(t, r)
      PROVE  TransportIsKept'
  <2>1. /\ transport # NULL => transport' # NULL
        /\ transport' # NULL => clientId' # NULL
    BY <1>2 DEF HandshakeSend, ProcessHandshake, conn, NULL
  <2>2. ImplHandshakeCode(r) = "SUCCESS" => transport' # NULL
    BY DEF ImplHandshakeCode
  <2>3. hs'["app"].code = "SUCCESS" => transport' # NULL
    BY <1>2, <2>1, <2>2 DEF HandshakeSend, Threads
  <2> QED
    BY <1>2, <2>1, <2>3 DEF HandshakeSend, AfterHandshake, Threads
<1>3. CASE AppConnect \/ AppHandshakeReturn
  BY <1>3 DEF AppConnect, AppHandshakeReturn, conn, IdleHandshake, Threads
<1>4. CASE AppLoopStart
  <2>1. /\ pc["app"] = "loop_start"
        /\ transport' = transport /\ clientId' = clientId /\ hs' = hs
    BY <1>4 DEF AppLoopStart, conn
  <2> QED
    BY <2>1
<1>9. CASE AppLoopStartFails \/ AppSetConnected
  BY <1>9 DEF AppLoopStartFails, AppSetConnected, conn
<1>5. CASE AppDisconnect \/ AppDisconnectWait \/ AppJoin
  BY <1>5 DEF AppDisconnect, AppDisconnectWait, AppJoin, conn
<1>6. CASE LoopShouldRecv \/ (\E r \in Reply : LoopRecv(r)) \/ LoopProcessConnect
  BY <1>6 DEF LoopShouldRecv, LoopRecv, LoopProcessConnect, conn
<1>7. CASE LoopSetState \/ LoopShouldRetry \/ LoopExit
  BY <1>7 DEF LoopSetState, LoopShouldRetry, LoopExit, conn, Threads
<1>8. CASE ServerDown \/ UNCHANGED vars
  BY <1>8 DEF ServerDown, vars, conn
<1> QED
  BY <1>1, <1>2, <1>3, <1>4, <1>5, <1>6, <1>7, <1>8, <1>9
  DEF Next, AppStep, LoopStep, Handshake, Finished, Threads

(* A round that ends with GiveUp leaves its loop in the same step.         *)
LEMMA LocalsStep ==
  ASSUME TypeOK, NoLoopWhileConnecting, LocalsAreFresh, [Next]_vars
  PROVE  LocalsAreFresh'
<1> USE DEF TypeOK, LocalsAreFresh, Goto, Threads
<1>1. ASSUME NEW t \in Threads, HandshakeCheck(t) PROVE LocalsAreFresh'
  BY <1>1 DEF HandshakeCheck, AfterHandshake
<1>2. ASSUME NEW t \in Threads, NEW r \in Reply, HandshakeSend(t, r)
      PROVE  LocalsAreFresh'
  <2> DEFINE delay == GetBackoff(advice', hs[t].attempt)
             after == [attempt |-> NextAttempt(hs[t].attempt), backoff |-> delay,
                       code |-> ImplHandshakeCode(r)]
  <2>1. /\ pc[t] = "handshake_send"
        /\ pc' = [pc EXCEPT ![t] = IF delay = GiveUp THEN AfterHandshake(t)
                                                     ELSE "handshake"]
        /\ hs' = [hs EXCEPT ![t] = after]
        /\ loop' = loop
    BY <1>2 DEF HandshakeSend
  <2>2. after.backoff = delay
    OBVIOUS
  <2> HIDE DEF delay, after
  <2>3. CASE t = "app"
    BY <2>1, <2>2, <2>3 DEF AfterHandshake
  <2>4. CASE t = "loop"
    BY <2>1, <2>2, <2>4 DEF AfterHandshake
  <2> QED
    BY <2>3, <2>4
<1>3. CASE AppConnect \/ AppHandshakeReturn
  BY <1>3 DEF AppConnect, AppHandshakeReturn, IdleHandshake, GiveUp
<1>4. CASE AppLoopStart
  <2>1. /\ pc["app"] = "loop_start"
        /\ pc'["app"] = "set_connected" /\ pc'["loop"] = "should_recv"
        /\ loop'.backoff = 0 /\ hs' = hs
    BY <1>4 DEF AppLoopStart, IdleLoop
  <2>2. hs["app"] = IdleHandshake /\ hs["loop"] = IdleHandshake
    BY <2>1 DEF NoLoopWhileConnecting
  <2> QED
    BY <2>1, <2>2 DEF GiveUp, IdleHandshake
<1>5. CASE AppLoopStartFails \/ AppSetConnected
  BY <1>5 DEF AppLoopStartFails, AppSetConnected
<1>6. CASE AppDisconnect \/ AppDisconnectWait \/ AppJoin
  BY <1>6 DEF AppDisconnect, AppDisconnectWait, AppJoin
<1>7. CASE LoopShouldRecv
  BY <1>7 DEF LoopShouldRecv
<1>8. ASSUME NEW r \in Reply, LoopRecv(r) PROVE LocalsAreFresh'
  <2>1. loop'.backoff = loop.backoff
    BY <1>8 DEF LoopRecv
  <2> QED
    BY <1>8, <2>1 DEF LoopRecv
<1>9. CASE LoopProcessConnect
  BY <1>9 DEF LoopProcessConnect
<1>10. CASE LoopSetState
  BY <1>10 DEF LoopSetState, IdleHandshake, GiveUp
<1>11. CASE LoopShouldRetry
  <2> DEFINE delay == IF ShouldRetryRecv THEN GetBackoff(advice, loop.attempt) ELSE 0
  <2>1. /\ pc' = [pc EXCEPT !["loop"] = IF delay = GiveUp THEN "exit" ELSE "should_recv"]
        /\ loop'.backoff = delay
        /\ hs' = [hs EXCEPT !["loop"] = IdleHandshake]
    BY <1>11 DEF LoopShouldRetry
  <2> HIDE DEF delay
  <2> QED
    BY <2>1
<1>12. CASE LoopExit
  BY <1>12 DEF LoopExit
<1>13. CASE ServerDown \/ UNCHANGED vars
  BY <1>13 DEF ServerDown, vars
<1> QED
  BY <1>1, <1>2, <1>3, <1>4, <1>5, <1>6, <1>7, <1>8, <1>9, <1>10, <1>11, <1>12, <1>13
  DEF Next, AppStep, LoopStep, Handshake, Finished

(* Every request counts one up, every reset sets both counters back, and   *)
(* while a thread is in a loop whose delay is computed nobody else writes  *)
(* the advice.                                                             *)
LEMMA CountersStep ==
  ASSUME TypeOK, NoLoopWhileConnecting, LocalsAreFresh, CountersAgree, [Next]_vars
  PROVE  CountersAgree'
<1> USE DEF TypeOK, CountersAgree, Goto, Threads
<1>a. ASSUME NEW n \in 0..MaxAttempt
      PROVE  /\ Counted(n) \in 1..MaxAttempt
             /\ NextAttempt(n) = Counted(n)
             /\ NextAttempt(NextAttempt(n)) = NextAttempt(Counted(n))
             /\ NextAttempt(n) = 1 => n = 0
             /\ NextAttempt(0) = 1
  BY BoundsAssumption DEF Counted, NextAttempt
<1>b. \A t \in Threads : posts[t] \in 0..MaxAttempt
  OBVIOUS
<1>c. \A t \in Threads : hs[t] = IdleHandshake => Waits(hs[t].backoff, posts[t])
  BY <1>a, <1>b DEF Waits, IdleHandshake
<1>1. ASSUME NEW t \in Threads, HandshakeCheck(t) PROVE CountersAgree'
  BY <1>1 DEF HandshakeCheck, AfterHandshake, conn, history, Waits
<1>2. ASSUME NEW t \in Threads, NEW r \in Reply, HandshakeSend(t, r)
      PROVE  CountersAgree'
  <2> DEFINE delay == GetBackoff(advice', hs[t].attempt)
             after == [attempt |-> NextAttempt(hs[t].attempt), backoff |-> delay,
                       code |-> ImplHandshakeCode(r)]
  <2>1. /\ pc[t] = "handshake_send"
        /\ pc' = [pc EXCEPT ![t] = IF delay = GiveUp THEN AfterHandshake(t)
                                                     ELSE "handshake"]
        /\ hs' = [hs EXCEPT ![t] = after]
        /\ loop' = loop /\ polls' = polls
        /\ posts' = [posts EXCEPT ![t] = Counted(posts[t])]
    BY <1>2 DEF HandshakeSend
  <2>2. hs[t].attempt = Counted(posts[t])
    BY <1>a, <1>b
  <2>3. /\ after.attempt = NextAttempt(Counted(posts[t]))
        /\ Counted(posts[t]) # 0
        /\ after.backoff = GetBackoff(advice', Counted(posts[t]))
    BY <1>a, <1>b, <2>2
  <2> HIDE DEF delay, after
  <2>4. /\ hs'[t].attempt = NextAttempt(posts'[t])
        /\ hs'[t].backoff = IF posts'[t] = 0 THEN 0 ELSE GetBackoff(advice', posts'[t])
    BY <2>1, <2>3
  <2>5. \A u \in Threads \ {t} : hs'[u] = hs[u] /\ posts'[u] = posts[u]
    BY <2>1
  <2>6. \A u \in Threads : hs'[u].attempt = NextAttempt(posts'[u])
    BY <2>4, <2>5
  <2>7. CASE t = "app"
    <3>1. pc'["loop"] = "none"
      BY <2>1, <2>7 DEF NoLoopWhileConnecting
    <3> QED
      BY <2>1, <2>4, <2>6, <2>7, <3>1 DEF Waits
  <2>8. CASE t = "loop"
    <3>1. /\ pc'["app"] \notin {"handshake", "handshake_send"}
          /\ pc'["loop"] \in {"handshake", "should_retry"}
      BY <2>1, <2>8 DEF NoLoopWhileConnecting, AfterHandshake
    <3> QED
      BY <2>1, <2>4, <2>6, <2>8, <3>1 DEF Waits
  <2> QED
    BY <2>7, <2>8
<1>3. CASE AppConnect
  <2>1. hs["app"] = IdleHandshake
    BY <1>3 DEF AppConnect, LocalsAreFresh
  <2> QED
    BY <1>3, <1>c, <2>1 DEF AppConnect, conn, history, Waits
<1>4. CASE AppHandshakeReturn
  BY <1>4, <1>a DEF AppHandshakeReturn, conn, IdleHandshake, Waits
<1>5. CASE AppLoopStart
  BY <1>5, <1>a DEF AppLoopStart, conn, IdleLoop, Waits
<1>6. CASE AppLoopStartFails \/ AppSetConnected
  BY <1>6 DEF AppLoopStartFails, AppSetConnected, conn, history, Waits
<1>7. CASE AppDisconnect \/ AppDisconnectWait \/ AppJoin
  BY <1>7 DEF AppDisconnect, AppDisconnectWait, AppJoin, conn, history, Waits
<1>8. CASE LoopShouldRecv
  BY <1>8 DEF LoopShouldRecv, conn, history, Waits
<1>9. ASSUME NEW r \in Reply, LoopRecv(r) PROVE CountersAgree'
  <2>1. loop'.attempt = loop.attempt
    BY <1>9 DEF LoopRecv
  <2> QED
    BY <1>9, <2>1 DEF LoopRecv, conn, history, Waits
<1>10. CASE LoopProcessConnect
  BY <1>10 DEF LoopProcessConnect, conn, history, Waits
<1>11. CASE LoopSetState
  <2>1. /\ pc["loop"] = "set_state" /\ pc'["loop"] \in {"handshake", "should_retry"}
        /\ pc'["app"] = pc["app"]
        /\ hs' = hs /\ loop' = loop /\ posts' = posts /\ polls' = polls
    BY <1>11 DEF LoopSetState, history
  <2>2. hs["loop"] = IdleHandshake
    BY <2>1 DEF LocalsAreFresh
  <2>3. posts["loop"] = 0 /\ hs["loop"].backoff = 0
    BY <1>a, <1>b, <2>2 DEF IdleHandshake
  <2> QED
    BY <2>1, <2>3 DEF NoLoopWhileConnecting, Waits
<1>12. CASE LoopShouldRetry
  <2> DEFINE delay == IF ShouldRetryRecv THEN GetBackoff(advice, loop.attempt) ELSE 0
             next  == IF ShouldRetryRecv THEN NextAttempt(loop.attempt) ELSE 1
  <2>1. /\ pc["loop"] = "should_retry" /\ pc'["loop"] \in {"exit", "should_recv"}
        /\ pc'["app"] = pc["app"] /\ advice' = advice
        /\ loop'.attempt = next /\ loop'.backoff = delay
        /\ hs' = [hs EXCEPT !["loop"] = IdleHandshake]
        /\ posts' = [posts EXCEPT !["loop"] = 0]
        /\ polls' = IF ShouldRetryRecv THEN Counted(polls) ELSE 0
    BY <1>12 DEF LoopShouldRetry, conn
  <2>2. next = NextAttempt(polls')
    BY <1>a, <2>1
  <2>3. delay = IF polls' = 0 THEN 0 ELSE GetBackoff(advice, polls')
    BY <1>a, <2>1
  <2> HIDE DEF delay, next
  <2> QED
    BY <1>a, <2>1, <2>2, <2>3 DEF IdleHandshake, Waits
<1>13. CASE LoopExit
  BY <1>13 DEF LoopExit, history, Waits
<1>14. CASE ServerDown \/ UNCHANGED vars
  BY <1>14 DEF ServerDown, vars, conn, history, Waits
<1> QED
  BY <1>1, <1>2, <1>3, <1>4, <1>5, <1>6, <1>7, <1>8, <1>9, <1>10, <1>11, <1>12, <1>13,
     <1>14
  DEF Next, AppStep, LoopStep, Handshake, Finished

(* While the first session is being set up nothing but a handshake reply   *)
(* writes the state, and afterwards only a disconnect takes it out of the  *)
(* states in which the receive thread goes on.                             *)
LEMMA FirstSessionStep ==
  ASSUME TypeOK, NoLoopWhileConnecting, TransportIsKept, FirstSession, [Next]_vars
  PROVE  FirstSession'
<1> USE DEF TypeOK, FirstSession, Goto, Threads
<1>1. ASSUME NEW t \in Threads, HandshakeCheck(t) PROVE FirstSession'
  BY <1>1 DEF HandshakeCheck, AfterHandshake, conn
<1>2. ASSUME NEW t \in Threads, NEW r \in Reply, HandshakeSend(t, r)
      PROVE  FirstSession'
  <2>1. connects' = connects
    BY <1>2 DEF HandshakeSend
  <2>2. \/ state' = HANDSHAKE_SUCCESS /\ transport' # NULL
        \/ state' = state /\ transport' = transport
    BY <1>2 DEF HandshakeSend, ProcessHandshake, conn
  <2>3. CASE t = "app"
    <3>1. /\ pc["app"] = "handshake_send" /\ pc'["loop"] = pc["loop"]
          /\ pc'["app"] \in {"handshake", "handshake_return"}
      BY <1>2, <2>3 DEF HandshakeSend, AfterHandshake
    <3> QED
      BY <2>1, <2>2, <3>1
  <2>4. CASE t = "loop"
    <3>1. /\ pc["loop"] = "handshake_send" /\ pc'["app"] = pc["app"]
          /\ pc'["loop"] \in {"handshake", "should_retry"}
      BY <1>2, <2>4 DEF HandshakeSend, AfterHandshake
    <3> QED
      BY <2>1, <2>2, <3>1 DEF NoLoopWhileConnecting
  <2> QED
    BY <2>3, <2>4
<1>3. CASE AppConnect
  BY <1>3 DEF AppConnect, conn, NoLoopWhileConnecting
<1>4. CASE AppHandshakeReturn
  BY <1>4 DEF AppHandshakeReturn, conn
<1>5. CASE AppLoopStart
  <2>1. /\ pc["app"] = "loop_start"
        /\ pc'["app"] = "set_connected" /\ pc'["loop"] = "should_recv"
        /\ state' = state /\ connects' = connects
    BY <1>5 DEF AppLoopStart, conn
  <2> QED
    BY <2>1 DEF TransportIsKept
<1>6. CASE AppLoopStartFails \/ AppSetConnected
  BY <1>6 DEF AppLoopStartFails, AppSetConnected, conn
<1>7. CASE AppDisconnect \/ AppDisconnectWait
  BY <1>7 DEF AppDisconnect, AppDisconnectWait, conn
<1>8. CASE AppJoin
  <2>1. /\ pc["app"] = "join" /\ pc'["app"] = "idle" /\ pc'["loop"] = "none"
        /\ connects' = connects
    BY <1>8 DEF AppJoin
  <2> QED
    BY <2>1
<1>9. CASE LoopShouldRecv \/ (\E r \in Reply : LoopRecv(r)) \/ LoopProcessConnect
  BY <1>9 DEF LoopShouldRecv, LoopRecv, LoopProcessConnect, conn, NoLoopWhileConnecting
<1>10. CASE LoopSetState
  BY <1>10 DEF LoopSetState, NoLoopWhileConnecting
<1>11. CASE LoopShouldRetry \/ LoopExit
  BY <1>11 DEF LoopShouldRetry, LoopExit, conn, NoLoopWhileConnecting
<1>12. CASE ServerDown \/ UNCHANGED vars
  BY <1>12 DEF ServerDown, vars, conn
<1> QED
  BY <1>1, <1>2, <1>3, <1>4, <1>5, <1>6, <1>7, <1>8, <1>9, <1>10, <1>11, <1>12
  DEF Next, AppStep, LoopStep, Handshake, Finished

(* The loop is left from its guard only in a state the application set, or *)
(* from its end only with GiveUp.                                          *)
LEMMA ExitStep ==
  ASSUME TypeOK, NoLoopWhileConnecting, FirstSession, ExitHasAReason, [Next]_vars
  PROVE  ExitHasAReason'
<1> USE DEF TypeOK, ExitHasAReason, Goto, Threads
<1>1. ASSUME NEW t \in Threads, HandshakeCheck(t) PROVE ExitHasAReason'
  BY <1>1 DEF HandshakeCheck, AfterHandshake
<1>2. ASSUME NEW t \in Threads, NEW r \in Reply, HandshakeSend(t, r)
      PROVE  ExitHasAReason'
  BY <1>2 DEF HandshakeSend, AfterHandshake
<1>3. CASE AppConnect \/ AppHandshakeReturn
  BY <1>3 DEF AppConnect, AppHandshakeReturn, NoLoopWhileConnecting
<1>4. CASE AppLoopStart
  BY <1>4 DEF AppLoopStart
<1>5. CASE AppLoopStartFails \/ AppSetConnected
  BY <1>5 DEF AppLoopStartFails, AppSetConnected
<1>6. CASE AppDisconnect \/ AppDisconnectWait
  BY <1>6 DEF AppDisconnect, AppDisconnectWait
<1>7. CASE AppJoin
  BY <1>7 DEF AppJoin
<1>8. CASE LoopShouldRecv
  BY <1>8 DEF LoopShouldRecv, ShouldRecv, IsState, FirstSession
<1>9. CASE (\E r \in Reply : LoopRecv(r)) \/ LoopProcessConnect \/ LoopSetState
  BY <1>9 DEF LoopRecv, LoopProcessConnect, LoopSetState
<1>10. CASE LoopShouldRetry
  <2> DEFINE delay == IF ShouldRetryRecv THEN GetBackoff(advice, loop.attempt) ELSE 0
  <2>1. /\ pc' = [pc EXCEPT !["loop"] = IF delay = GiveUp THEN "exit" ELSE "should_recv"]
        /\ loop'.backoff = delay
    BY <1>10 DEF LoopShouldRetry
  <2> HIDE DEF delay
  <2> QED
    BY <2>1
<1>11. CASE LoopExit
  BY <1>11 DEF LoopExit
<1>12. CASE ServerDown \/ UNCHANGED vars
  BY <1>12 DEF ServerDown, vars
<1> QED
  BY <1>1, <1>2, <1>3, <1>4, <1>5, <1>6, <1>7, <1>8, <1>9, <1>10, <1>11, <1>12
  DEF Next, AppStep, LoopStep, Handshake, Finished

LEMMA NextInvariant == IInv /\ [Next]_vars => IInv'
<1> SUFFICES ASSUME IInv, [Next]_vars PROVE IInv'
  OBVIOUS
<1> QED
  BY NextTypes, OwnerStep, TransportStep, LocalsStep, CountersStep, FirstSessionStep,
     ExitStep
  DEF IInv

LEMMA Invariance == Spec => []IInv
  BY InitInvariant, NextInvariant, PTL DEF Spec

(* cometd_recv never runs into its assertion.                              *)
THEOREM PollSafety == Spec => []PollsOverATransport
<1>1. IInv => PollsOverATransport
  BY DEF IInv, TransportIsKept, PollsOverATransport, LoopRunning
<1> QED
  BY <1>1, Invariance, PTL

(* What cometd_get_backoff returns short of giving up.                     *)
LEMMA PauseOf ==
  ASSUME NEW a \in Advice, NEW n \in Nat \ {0}, GetBackoff(a, n) # GiveUp
  PROVE  GetBackoff(a, n) = Pause(n, a)
<1>1. CASE a = NoAdvice
  BY <1>1 DEF GetBackoff, ComputeBackoff, Pause, NoAdvice
<1>2. CASE a # NoAdvice /\ ShouldBackoff(a, n)
  BY <1>2 DEF GetBackoff, ComputeBackoff, Pause, ShouldBackoff
<1>3. CASE a # NoAdvice /\ ~ShouldBackoff(a, n)
  <2>1. ~IsNone(a) /\ GetBackoff(a, n) = a.interval
    BY <1>3 DEF GetBackoff
  <2>2. CASE a.interval # 0
    BY <2>1, <2>2 DEF Pause
  <2>3. CASE a.interval = 0
    <3>1. n = 1
      BY <1>3, <2>1, <2>3 DEF ShouldBackoff
    <3>2. (n - 1) * BackoffIncrement = 0
      BY <3>1, ConfigAssumption
    <3> QED
      BY <1>3, <2>1, <2>3, <3>2 DEF Pause
  <2> QED
    BY <2>2, <2>3
<1> QED
  BY <1>1, <1>2, <1>3

(* For every configuration and any replies, the k-th request of a loop is  *)
(* preceded by the pause that k - 1 requests call for, and none by a -1.   *)
THEOREM PausesHold == Spec => []PausesGrow
<1>1. IInv => PausesGrow
  <2> SUFFICES ASSUME IInv PROVE PausesGrow
    OBVIOUS
  <2>1. /\ advice \in Advice
        /\ \A t \in Threads : posts[t] \in 0..MaxAttempt
        /\ polls \in 0..MaxAttempt
    BY DEF IInv, TypeOK
  <2>2. ASSUME NEW t \in Threads, pc[t] = "handshake_send"
        PROVE  /\ hs[t].backoff # GiveUp
               /\ hs[t].backoff = IF posts[t] = 0 THEN 0 ELSE Pause(posts[t], advice)
    <3>1. hs[t].backoff # GiveUp /\ Waits(hs[t].backoff, posts[t])
      BY <2>2 DEF IInv, LocalsAreFresh, CountersAgree
    <3> QED
      BY <2>1, <3>1, PauseOf, BoundsAssumption DEF Waits
  <2>3. ASSUME pc["loop"] = "recv"
        PROVE  /\ loop.backoff # GiveUp
               /\ loop.backoff = IF polls = 0 THEN 0 ELSE Pause(polls, advice)
    <3>1. loop.backoff # GiveUp /\ Waits(loop.backoff, polls)
      BY <2>3 DEF IInv, LocalsAreFresh, CountersAgree
    <3> QED
      BY <2>1, <3>1, PauseOf, BoundsAssumption DEF Waits
  <2> QED
    BY <2>2, <2>3 DEF PausesGrow
<1> QED
  BY <1>1, Invariance, PTL

(* The receive thread of a first session ends for one of the two reasons   *)
(* its comment names.                                                      *)
THEOREM ExitReason == Spec => []ExitHasAReason
<1>1. IInv => ExitHasAReason
  BY DEF IInv
<1> QED
  BY <1>1, Invariance, PTL

(* A first session starts only from a completed handshake.                 *)
THEOREM HandshakeFirst == Spec => []HandshakeBeforeLoop
<1>1. IInv => HandshakeBeforeLoop
  BY DEF IInv, TransportIsKept, FirstSession, HandshakeBeforeLoop
<1> QED
  BY <1>1, Invariance, PTL

-----------------------------------------------------------------------------
(* The connection implements Link *)

LEMMA InitRefines == Init => K!Init
  BY DEF Init, K!Init, AppPhase, LoopPhase, AppPhaseOf, LoopPhaseOf, UNINITIALIZED

(* A round of cometd_handshake, in either thread: a step of Link, or none  *)
(* when the state is as it was.                                            *)
LEMMA HandshakeRefines ==
  ASSUME TypeOK, NEW t \in Threads, Handshake(t)
  PROVE  [K!Next]_<<state, AppPhase, LoopPhase, connects>>
<1> DEFINE from == {"handshake", "handshake_send"}
<1>1. /\ pc[t] \in from
      /\ pc' = [pc EXCEPT ![t] = pc'[t]]
      /\ pc'[t] \in from \cup {AfterHandshake(t)}
      /\ state' \in {state, "HANDSHAKE_SUCCESS"}
      /\ connects' = connects
  <2>1. CASE HandshakeCheck(t)
    BY <2>1 DEF TypeOK, HandshakeCheck, Goto, conn, Threads
  <2>2. ASSUME NEW r \in Reply, HandshakeSend(t, r) PROVE <1>1!:
    <3>1. state' \in {state, "HANDSHAKE_SUCCESS"}
      BY <2>2 DEF HandshakeSend, ProcessHandshake, conn, HANDSHAKE_SUCCESS
    <3> QED
      BY <2>2, <3>1 DEF TypeOK, HandshakeSend, Goto, Threads
  <2> QED
    BY <2>1, <2>2 DEF Handshake
<1>2. CASE t = "app"
  <2>1. AppPhase = "connecting" /\ AppPhase' = "connecting" /\ LoopPhase' = LoopPhase
    BY <1>1, <1>2 DEF TypeOK, AppPhase, LoopPhase, AppPhaseOf, LoopPhaseOf, AfterHandshake
  <2>2. CASE state' = state
    BY <1>1, <2>1, <2>2
  <2>3. CASE state' = "HANDSHAKE_SUCCESS"
    BY <1>1, <2>1, <2>3 DEF K!Next, K!AppStep, K!AppHandshake, K!AppGoes
  <2> QED
    BY <1>1, <2>2, <2>3
<1>3. CASE t = "loop"
  <2>1. /\ LoopPhase = "handshaking" /\ LoopPhase' \in {"handshaking", "retrying"}
        /\ AppPhase' = AppPhase
    BY <1>1, <1>3 DEF TypeOK, AppPhase, LoopPhase, AppPhaseOf, LoopPhaseOf, AfterHandshake
  <2> QED
    BY <1>1, <2>1 DEF K!Next, K!LoopStep, K!LoopHandshake, K!LoopGoes
<1> QED
  BY <1>2, <1>3 DEF Threads

LEMMA AppRefines ==
  ASSUME TypeOK, NoLoopWhileConnecting,
         \/ AppConnect \/ AppDisconnect \/ AppDisconnectWait \/ AppHandshakeReturn
         \/ AppLoopStart \/ AppLoopStartFails \/ AppSetConnected \/ AppJoin
  PROVE  [K!Next]_<<state, AppPhase, LoopPhase, connects>>
<1> USE DEF TypeOK, AppPhase, LoopPhase, AppPhaseOf, LoopPhaseOf, Goto, conn, K!AppGoes
<1>1. CASE AppConnect
  BY <1>1 DEF AppConnect, K!Next, K!Connect
<1>2. CASE AppDisconnect
  <2>1. K!Disconnect(FALSE)
    BY <1>2 DEF AppDisconnect, K!Disconnect, DISCONNECTED
  <2> QED
    BY <2>1 DEF K!Next
<1>3. CASE AppDisconnectWait
  <2>1. K!Disconnect(TRUE)
    BY <1>3 DEF AppDisconnectWait, K!Disconnect
  <2> QED
    BY <2>1 DEF K!Next
<1>4. CASE AppHandshakeReturn
  <2>1. CASE pc'["app"] = "loop_start"
    BY <1>4, <2>1 DEF AppHandshakeReturn
  <2>2. CASE pc'["app"] = "idle"
    BY <1>4, <2>2 DEF AppHandshakeReturn, K!Next, K!AppStep, K!ConnectFails
  <2> QED
    BY <1>4, <2>1, <2>2 DEF AppHandshakeReturn
<1>5. CASE AppLoopStart
  BY <1>5 DEF AppLoopStart, NoLoopWhileConnecting, K!Next, K!AppStep, K!Start
<1>6. CASE AppLoopStartFails
  BY <1>6 DEF AppLoopStartFails, K!Next, K!AppStep, K!ConnectFails
<1>7. CASE AppSetConnected
  BY <1>7 DEF AppSetConnected, CONNECTED, K!Next, K!AppStep, K!SetConnected
<1>8. CASE AppJoin
  BY <1>8 DEF AppJoin, K!Next, K!AppStep, K!Join
<1> QED
  BY <1>1, <1>2, <1>3, <1>4, <1>5, <1>6, <1>7, <1>8

LEMMA LoopRefines ==
  ASSUME TypeOK,
         \/ LoopShouldRecv \/ (\E r \in Reply : LoopRecv(r)) \/ LoopProcessConnect
         \/ LoopSetState \/ LoopShouldRetry \/ LoopExit
  PROVE  K!LoopStep
<1> USE DEF TypeOK, AppPhase, LoopPhase, AppPhaseOf, LoopPhaseOf, Goto, conn, K!LoopGoes
<1>1. CASE LoopShouldRecv
  BY <1>1 DEF LoopShouldRecv, ShouldRecv, IsState, CONNECTED, HANDSHAKE_SUCCESS,
              UNCONNECTED, K!LoopStep, K!Decide, K!Receiving
<1>2. ASSUME NEW r \in Reply, LoopRecv(r) PROVE K!LoopStep
  BY <1>2 DEF LoopRecv, K!LoopStep, K!Receive
<1>3. CASE LoopProcessConnect
  BY <1>3 DEF LoopProcessConnect, IsState, DISCONNECTED, DISCONNECTING,
              K!LoopStep, K!Process, K!Over
<1>4. CASE LoopSetState
  <2>1. CASE loop.connect.successful
    BY <1>4, <2>1 DEF LoopSetState, CONNECTED, K!LoopStep, K!Update
  <2>2. CASE ~loop.connect.successful
    BY <1>4, <2>2 DEF LoopSetState, UNCONNECTED, K!LoopStep, K!Update
  <2> QED
    BY <2>1, <2>2
<1>5. CASE LoopShouldRetry
  <2>1. CASE ShouldRetryRecv
    BY <1>5, <2>1 DEF LoopShouldRetry, ShouldRetryRecv, IsState, UNCONNECTED,
                      K!LoopStep, K!Retry
  <2>2. CASE ~ShouldRetryRecv
    <3>1. pc' = [pc EXCEPT !["loop"] = "should_recv"]
      BY <1>5, <2>2 DEF LoopShouldRetry, GiveUp
    <3> QED
      BY <1>5, <3>1 DEF LoopShouldRetry, K!LoopStep, K!Retry
  <2> QED
    BY <2>1, <2>2
<1>6. CASE LoopExit
  BY <1>6 DEF LoopExit, DISCONNECTED, K!LoopStep, K!Exit
<1> QED
  BY <1>1, <1>2, <1>3, <1>4, <1>5, <1>6

(* The connection keeps to Link: what Delivery shows of listening and of   *)
(* the shutdown it shows of this connection, for every configuration.      *)
THEOREM Refinement == Spec => LinkSpec
<1>1. IInv /\ [Next]_vars => [K!Next]_<<state, AppPhase, LoopPhase, connects>>
  <2> SUFFICES ASSUME IInv, [Next]_vars
               PROVE  [K!Next]_<<state, AppPhase, LoopPhase, connects>>
    OBVIOUS
  <2>1. TypeOK /\ NoLoopWhileConnecting
    BY DEF IInv
  <2>2. CASE ServerDown \/ UNCHANGED vars
    BY <2>2 DEF ServerDown, vars, conn, AppPhase, LoopPhase
  <2>3. ASSUME NEW t \in Threads, Handshake(t)
        PROVE  [K!Next]_<<state, AppPhase, LoopPhase, connects>>
    BY <2>1, <2>3, HandshakeRefines
  <2>4. K!LoopStep => K!Next
    BY DEF K!Next
  <2> QED
    BY <2>1, <2>2, <2>3, <2>4, AppRefines, LoopRefines
    DEF Next, AppStep, LoopStep, Finished, Threads
<1> QED
  BY <1>1, InitRefines, Invariance, PTL DEF Spec, LinkSpec, K!Spec, K!linkVars

=============================================================================
