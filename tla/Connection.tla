----------------------------- MODULE Connection -----------------------------
(***************************************************************************)
(* The connection of a client handle: the application thread that calls    *)
(* cometd_connect and cometd_disconnect (src/cometd.c) and the receive     *)
(* thread that cometd_connect starts (src/loops/gthread.c), sharing one    *)
(* cometd_conn (src/conn.c) without a lock.                                *)
(*                                                                         *)
(* A step of a thread makes at most one access to conn->state, the one     *)
(* field both threads use while both run, so every order in which those    *)
(* accesses can happen is a behaviour.  A blocking call (a POST, a sleep,  *)
(* a join) ends a step.  The server and the network are nondeterministic   *)
(* replies; once ServerDown happens every request fails.                   *)
(***************************************************************************)
EXTENDS Backoff

CONSTANTS
  MaxAttempt,   \* attempt counters saturate here (see SaturationAssumption)
  MaxConnects,  \* how often the application calls cometd_connect
  LoopStart     \* what the loop's start may return: TRUE started, FALSE failed

ASSUME BoundsAssumption ==
  /\ MaxAttempt \in Nat /\ MaxAttempt >= 2
  /\ MaxConnects \in Nat
  /\ LoopStart \subseteq BOOLEAN

(* From MaxAttempt on, the linear delay has passed max_backoff, so a       *)
(* larger attempt gives the same delay (ConnectionProofs!SaturationIsExact). *)
ASSUME SaturationAssumption ==
  (MaxAttempt - 1) * BackoffIncrement >= MaxBackoff \/ BackoffIncrement = 0

VARIABLES
  state,      \* conn->state
  advice,     \* conn->advice
  transport,  \* conn->transport
  clientId,   \* conn->client_id: NULL or set
  pc,         \* where each thread stands
  hs,         \* the locals of cometd_handshake in each thread
  loop,       \* the locals of cometd_loop_gthread_run
  connects,   \* calls of cometd_connect so far
  server,     \* "up", or "down" for good
  posts,      \* history: requests in the present cometd_handshake of each thread
  polls       \* history: polls in a row after which the loop retried

conn == <<state, advice, transport, clientId>>
history == <<posts, polls>>
vars == <<conn, pc, hs, loop, connects, server, history>>

Threads == {"app", "loop"}

UNINITIALIZED     == "UNINITIALIZED"
DISCONNECTED      == "DISCONNECTED"
HANDSHAKE_SUCCESS == "HANDSHAKE_SUCCESS"
CONNECTED         == "CONNECTED"
DISCONNECTING     == "DISCONNECTING"
UNCONNECTED       == "UNCONNECTED"

States == {UNINITIALIZED, DISCONNECTED, HANDSHAKE_SUCCESS, CONNECTED,
           DISCONNECTING, UNCONNECTED}

NULL        == "NULL"
LongPolling == "long-polling"

Codes == {"SUCCESS", "UNKNOWN", "SEND", "UNSUCCESSFUL", "NO_TRANSPORT"}

-----------------------------------------------------------------------------
(* Replies.  transport is what cometd_transport_negotiate makes of the     *)
(* connection types in a handshake reply, and a reply with one we support  *)
(* is taken to name a client id (strdup(NULL) would end the program).      *)
(* successful is the field of the payload's first message for a handshake, *)
(* whatever the handshake message itself says, and of the connect message  *)
(* for a poll.                                                             *)

Reply == [kind : {"lost", "other", "handshake", "connect"},
          successful : BOOLEAN,
          transport : {NULL, LongPolling},
          advice : Advice]

NoReply == [kind |-> "lost", successful |-> FALSE,
            transport |-> NULL, advice |-> NoAdvice]

(* A payload without the message that was waited for, such as [].          *)
OtherReplies == {[NoReply EXCEPT !.kind = "other", !.successful = b] : b \in BOOLEAN}

(* cometd_msg_bad_connect_new: stands in for the reply of a failed recv.   *)
BadConnect == [NoReply EXCEPT !.kind = "connect"]

Answers(replies) ==
  IF server = "up" THEN replies \cup OtherReplies \cup {NoReply} ELSE {NoReply}

HandshakeReplies == Answers({r \in Reply : r.kind = "handshake"})

ConnectReplies ==
  Answers({r \in Reply : r.kind = "connect" /\ r.transport = NULL})

-----------------------------------------------------------------------------
(* The guards of src/cometd.c *)

IsState(S) == state \in S

ShouldHandshake ==
  /\ ~IsState({HANDSHAKE_SUCCESS, CONNECTED})
  /\ advice = NoAdvice \/ IsHandshake(advice)

(* Mutants: a failed poll, or a disconnect, is treated like the other.     *)
ShouldRecv_NotUnconnected == IsState({CONNECTED, HANDSHAKE_SUCCESS})
ShouldRecv_Disconnected ==
  IsState({CONNECTED, HANDSHAKE_SUCCESS, UNCONNECTED, DISCONNECTED})

ShouldRecv == IsState({CONNECTED, HANDSHAKE_SUCCESS, UNCONNECTED})

(* Mutant: the attempts go on when a poll succeeds.                        *)
ShouldRetryRecv_AnyState == IsRetry(advice)

ShouldRetryRecv == IsState({UNCONNECTED}) /\ IsRetry(advice)

(* Mutant: the attempts are not counted.                                   *)
NextAttempt_Stuck(n) == n

NextAttempt(n) == IF n < MaxAttempt THEN n + 1 ELSE n

Goto(t, from, to) == pc[t] = from /\ pc' = [pc EXCEPT ![t] = to]

(* A number of requests, as far as it is told apart.                       *)
Counted(n) == IF n < MaxAttempt THEN n + 1 ELSE MaxAttempt

IdleHandshake == [attempt |-> 1, backoff |-> 0, code |-> "UNKNOWN"]
IdleLoop      == [attempt |-> 1, backoff |-> 0, connect |-> BadConnect]

Init ==
  /\ state = UNINITIALIZED
  /\ advice = NoAdvice
  /\ transport = NULL
  /\ clientId = NULL
  /\ pc = [app |-> "idle", loop |-> "none"]
  /\ hs = [t \in Threads |-> IdleHandshake]
  /\ loop = IdleLoop
  /\ connects = 0
  /\ server = "up"
  /\ posts = [t \in Threads |-> 0]
  /\ polls = 0

-----------------------------------------------------------------------------
(* cometd_handshake, run by the application in cometd_connect and by the   *)
(* receive thread when a failed connect carries handshake advice.          *)

AfterHandshake(t) == IF t = "app" THEN "handshake_return" ELSE "should_retry"

HandshakeCheck(t) ==
  /\ Goto(t, "handshake",
          IF ShouldHandshake THEN "handshake_send" ELSE AfterHandshake(t))
  /\ UNCHANGED <<conn, hs, loop, connects, server, history>>

(* Mutant: the state is not set.                                           *)
ProcessHandshake_NoState(r) ==
  /\ advice' = r.advice
  /\ IF r.transport # NULL
     THEN transport' = r.transport /\ clientId' = "id" /\ UNCHANGED state
     ELSE UNCHANGED <<transport, clientId, state>>

(* cometd_process_handshake: the reply's transport and client id are taken *)
(* only when a transport was negotiated, its advice always (even NULL).    *)
ProcessHandshake(r) ==
  IF r.transport # NULL
  THEN /\ transport' = r.transport
       /\ clientId' = "id"
       /\ state' = HANDSHAKE_SUCCESS
       /\ advice' = r.advice
  ELSE /\ advice' = r.advice
       /\ UNCHANGED <<transport, clientId, state>>

(* Mutant: a missing transport is no error.                                *)
ImplHandshakeCode_AnyTransport(r) ==
  IF r.kind = "lost" THEN "SEND"
  ELSE IF ~r.successful THEN "UNSUCCESSFUL" ELSE "SUCCESS"

ImplHandshakeCode(r) ==
  IF r.kind = "lost" THEN "SEND"
  ELSE IF ~r.successful THEN "UNSUCCESSFUL"
  ELSE IF transport' = NULL THEN "NO_TRANSPORT"
  ELSE "SUCCESS"

(* One round of the loop in cometd_handshake: sleep, POST, process the     *)
(* reply, compute the next delay and give up when there is none.           *)
HandshakeSend(t, r) ==
  /\ pc[t] = "handshake_send"
  /\ r \in HandshakeReplies
  /\ IF r.kind = "handshake" THEN ProcessHandshake(r) ELSE UNCHANGED conn
  /\ LET delay == GetBackoff(advice', hs[t].attempt)
     IN  /\ pc' = [pc EXCEPT ![t] = IF delay = GiveUp THEN AfterHandshake(t)
                                                      ELSE "handshake"]
         /\ hs' = [hs EXCEPT ![t] = [attempt |-> NextAttempt(@.attempt),
                                     backoff |-> delay,
                                     code    |-> ImplHandshakeCode(r)]]
  /\ posts' = [posts EXCEPT ![t] = Counted(@)]
  /\ UNCHANGED <<loop, connects, server, polls>>

-----------------------------------------------------------------------------
(* The application *)

AppConnect ==
  /\ connects < MaxConnects
  /\ Goto("app", "idle", "handshake")
  /\ connects' = connects + 1
  /\ UNCHANGED <<conn, hs, loop, server, history>>

AppHandshakeReturn ==
  /\ Goto("app", "handshake_return",
          IF hs["app"].code = "SUCCESS" THEN "loop_start" ELSE "idle")
  /\ hs' = [hs EXCEPT !["app"] = IdleHandshake]
  /\ posts' = [posts EXCEPT !["app"] = 0]
  /\ UNCHANGED <<conn, loop, connects, server, polls>>

AppLoopStart ==
  /\ TRUE \in LoopStart
  /\ pc["app"] = "loop_start"
  /\ pc' = [app |-> "set_connected", loop |-> "should_recv"]
  /\ loop' = IdleLoop
  /\ polls' = 0
  /\ UNCHANGED <<conn, hs, connects, server, posts>>

AppLoopStartFails ==
  /\ FALSE \in LoopStart
  /\ Goto("app", "loop_start", "idle")
  /\ UNCHANGED <<conn, hs, loop, connects, server, history>>

AppSetConnected ==
  /\ Goto("app", "set_connected", "connected")
  /\ state' = CONNECTED
  /\ UNCHANGED <<advice, transport, clientId, hs, loop, connects, server, history>>

(* cometd_disconnect(h, 0), up to the join of the receive thread           *)
AppDisconnect ==
  /\ Goto("app", "connected", "join")
  /\ state' = DISCONNECTED
  /\ UNCHANGED <<advice, transport, clientId, hs, loop, connects, server, history>>

(* cometd_disconnect(h, 1) leaves the state alone and joins                *)
AppDisconnectWait ==
  /\ Goto("app", "connected", "join")
  /\ UNCHANGED <<conn, hs, loop, connects, server, history>>

AppJoin ==
  /\ pc["app"] = "join"
  /\ pc["loop"] = "done"
  /\ pc' = [app |-> "idle", loop |-> "none"]
  /\ UNCHANGED <<conn, hs, loop, connects, server, history>>

-----------------------------------------------------------------------------
(* The receive thread *)

LoopShouldRecv ==
  /\ Goto("loop", "should_recv", IF ShouldRecv THEN "recv" ELSE "exit")
  /\ UNCHANGED <<conn, hs, loop, connects, server, history>>

(* Sleep for the backoff, poll, and take the connect message out of the    *)
(* payload; without one there is nothing to process.                       *)
LoopRecv(r) ==
  /\ Goto("loop", "recv",
          IF r.kind = "other" THEN "should_retry" ELSE "process_connect")
  /\ r \in ConnectReplies
  /\ loop' = [loop EXCEPT !.connect = IF r.kind = "connect" THEN r ELSE BadConnect]
  /\ UNCHANGED <<conn, hs, connects, server, history>>

(* cometd_process_connect: the guard ...                                   *)
LoopProcessConnect ==
  /\ Goto("loop", "process_connect",
          IF IsState({DISCONNECTING, DISCONNECTED})
          THEN "should_retry" ELSE "set_state")
  /\ UNCHANGED <<conn, hs, loop, connects, server, history>>

(* ... and the update that follows it, with cometd_handle_advice.          *)
LoopSetState ==
  LET msg == loop.connect
  IN  /\ Goto("loop", "set_state",
              IF ~msg.successful /\ IsHandshake(msg.advice)
              THEN "handshake" ELSE "should_retry")
      /\ advice' = IF msg.advice # NoAdvice THEN msg.advice ELSE advice
      /\ state' = IF msg.successful THEN CONNECTED ELSE UNCONNECTED
      /\ UNCHANGED <<transport, clientId, hs, loop, connects, server, history>>

(* What cometd_handshake returned, if it was called, is not looked at.     *)
LoopShouldRetry ==
  LET delay == IF ShouldRetryRecv THEN GetBackoff(advice, loop.attempt) ELSE 0
  IN  /\ Goto("loop", "should_retry",
              IF delay = GiveUp THEN "exit" ELSE "should_recv")
      /\ loop' = [attempt |-> IF ShouldRetryRecv THEN NextAttempt(loop.attempt)
                                                 ELSE 1,
                  backoff |-> delay,
                  connect |-> BadConnect]
      /\ hs' = [hs EXCEPT !["loop"] = IdleHandshake]
      /\ posts' = [posts EXCEPT !["loop"] = 0]
      /\ polls' = IF ShouldRetryRecv THEN Counted(polls) ELSE 0
      /\ UNCHANGED <<conn, connects, server>>

LoopExit ==
  /\ Goto("loop", "exit", "done")
  /\ state' = DISCONNECTED
  /\ UNCHANGED <<advice, transport, clientId, hs, loop, connects, server, history>>

-----------------------------------------------------------------------------

ServerDown ==
  /\ server = "up"
  /\ server' = "down"
  /\ UNCHANGED <<conn, pc, hs, loop, connects, history>>

(* The application has made its last call: a legitimate end.               *)
Finished ==
  /\ pc["app"] = "idle"
  /\ connects = MaxConnects
  /\ UNCHANGED vars

Handshake(t) == HandshakeCheck(t) \/ \E r \in Reply : HandshakeSend(t, r)

AppStep == \/ Handshake("app") \/ AppHandshakeReturn \/ AppLoopStart
           \/ AppLoopStartFails \/ AppSetConnected \/ AppJoin

LoopStep == \/ Handshake("loop") \/ LoopShouldRecv \/ \E r \in Reply : LoopRecv(r)
            \/ LoopProcessConnect \/ LoopSetState \/ LoopShouldRetry \/ LoopExit

Next == \/ AppConnect \/ AppDisconnect \/ AppDisconnectWait \/ AppStep
        \/ LoopStep \/ ServerDown \/ Finished

Spec == Init /\ [][Next]_vars

(* A started thread keeps running, a POST ends (CURLOPT_TIMEOUT_MS) and a  *)
(* sleep ends; when to connect or disconnect is up to the caller.          *)
FairSpec == Spec /\ WF_vars(AppStep) /\ WF_vars(LoopStep)

-----------------------------------------------------------------------------
(* Properties *)

AppPC  == {"idle", "handshake", "handshake_send", "handshake_return",
           "loop_start", "set_connected", "connected", "join"}
LoopPC == {"none", "should_recv", "recv", "process_connect", "set_state",
           "handshake", "handshake_send", "should_retry", "exit", "done"}

(* Every variable has its type; a delay is one that the configuration      *)
(* allows or the server asked for.                                         *)
TypeOK ==
  /\ state \in States
  /\ advice \in Advice
  /\ transport \in {NULL, LongPolling}
  /\ clientId \in {NULL, "id"}
  /\ pc \in [app : AppPC, loop : LoopPC]
  /\ hs \in [Threads -> [attempt : 1..MaxAttempt, backoff : Delays, code : Codes]]
  /\ loop \in [attempt : 1..MaxAttempt, backoff : Delays,
               connect : {r \in Reply : r.kind = "connect"}]
  /\ connects \in 0..MaxConnects
  /\ server \in {"up", "down"}
  /\ posts \in [Threads -> 0..MaxAttempt]
  /\ polls \in 0..MaxAttempt

LoopRunning == pc["loop"] \notin {"none", "done"}

(* The receive thread polls only over a negotiated transport and with a    *)
(* client id: the assertion of cometd_recv, and the dereference in         *)
(* cometd_msg_connect_new, whatever failed before.                         *)
PollsOverATransport ==
  LoopRunning => transport # NULL /\ clientId # NULL

(* The pause after n requests in a row that brought a loop no further:     *)
(* what the server asked for, or one increment more each time, counted     *)
(* from the first request, or from the second if the server sent advice.   *)
Pause(n, a) ==
  IF a.interval # 0 THEN a.interval
  ELSE IF a = NoAdvice THEN n * BackoffIncrement
  ELSE (n - 1) * BackoffIncrement

(* Before each request a loop has slept for the pause that the number of   *)
(* its requests calls for: the attempt counters of both loops, with their  *)
(* resets and the offset of cometd_get_backoff, count those requests, the  *)
(* first request is made at once, and no request follows the -1 that ends  *)
(* a loop (cometd_loop_wait would take it for "do not wait").              *)
PausesGrow ==
  /\ \A t \in Threads : pc[t] = "handshake_send" =>
       /\ hs[t].backoff # GiveUp
       /\ hs[t].backoff = IF posts[t] = 0 THEN 0 ELSE Pause(posts[t], advice)
  /\ pc["loop"] = "recv" =>
       /\ loop.backoff # GiveUp
       /\ loop.backoff = IF polls = 0 THEN 0 ELSE Pause(polls, advice)

(* On the first connection the receive thread ends only because retrying   *)
(* was given up or the application is disconnecting: the two reasons       *)
(* named in cometd_loop_gthread_run.  (A later cometd_connect may start    *)
(* it on a handshake that never happened, see HandshakeBeforeLoop.)        *)
ExitHasAReason ==
  connects = 1 /\ pc["loop"] = "exit" =>
    loop.backoff = GiveUp \/ pc["app"] = "join"

(* The first time, cometd_connect starts the receive thread only from      *)
(* HANDSHAKE_SUCCESS.  Later the transport of an earlier session can make  *)
(* cometd_handshake return success for a reply that negotiated nothing.    *)
HandshakeBeforeLoop ==
  connects = 1 /\ pc["app"] = "loop_start" => state = HANDSHAKE_SUCCESS

RetryAtOnce == [reconnect |-> "retry", interval |-> 0]

(* A server that is gone for good is given up: while the stored advice is  *)
(* retry without an interval the receive thread ends.                      *)
GivesUp ==
  (server = "down" /\ LoopRunning /\ advice = RetryAtOnce)
    ~> (~LoopRunning \/ advice # RetryAtOnce)

InHandshake(t) == pc[t] \in {"handshake", "handshake_send"}

(* cometd_handshake against a server that is gone returns, in either       *)
(* thread, unless the server had asked for a pause between handshakes.  An *)
(* interval of -1 reads as "give up".                                      *)
HandshakeReturns ==
  \A t \in Threads :
    (server = "down" /\ InHandshake(t) /\ advice.interval \in {0, GiveUp})
      ~> ~InHandshake(t)

PausedHandshake == IsHandshake(advice) /\ advice.interval \notin {0, GiveUp}

(* cometd_disconnect returns while the server goes on answering, as long   *)
(* as nobody overwrites DISCONNECTED and the receive thread is not held in *)
(* a handshake that has no limit.                                          *)
DisconnectReturns ==
  (pc["app"] = "join" /\ state = DISCONNECTED)
    ~> (pc["app"] # "join" \/ state # DISCONNECTED \/ PausedHandshake)

AppPhaseOf == [idle |-> "idle", handshake |-> "connecting",
               handshake_send |-> "connecting", handshake_return |-> "connecting",
               loop_start |-> "connecting", set_connected |-> "starting",
               connected |-> "connected", join |-> "stopping"]

LoopPhaseOf == [none |-> "none", should_recv |-> "deciding", recv |-> "receiving",
                process_connect |-> "processing", set_state |-> "updating",
                handshake |-> "handshaking", handshake_send |-> "handshaking",
                should_retry |-> "retrying", exit |-> "exiting", done |-> "done"]

AppPhase  == AppPhaseOf[pc["app"]]
LoopPhase == LoopPhaseOf[pc["loop"]]

(* Whatever the server answers, conn->state is written by the threads, and *)
(* in the phases, that Link allows: Delivery relies on no more than that.  *)
K == INSTANCE Link WITH app <- AppPhase, loop <- LoopPhase
LinkSpec == K!Spec

(* src/cometd.c:513: a response that arrives while we disconnect does not  *)
(* reset the status.  Not so: see the README.                              *)
DisconnectIsNotReset ==
  [][pc["app"] = "join" /\ state = DISCONNECTED => state' = DISCONNECTED]_vars

(* src/loops/gthread.c:71: once the receive thread has given up, the state *)
(* says so, for the inbox to stop waiting.  Not so: see the README.        *)
GivingUpIsVisible == pc["loop"] = "done" => state = DISCONNECTED

(* src/cometd.c:518: without new advice the old advice is reused, so an    *)
(* unsuccessful connect under handshake advice leads to a handshake.  Not  *)
(* so: see the README.                                                     *)
OldAdviceIsReused ==
  [][LoopSetState /\ ~loop.connect.successful /\ IsHandshake(advice')
       => pc'["loop"] = "handshake"]_vars

=============================================================================
