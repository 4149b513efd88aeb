-------------------------------- MODULE Link --------------------------------
(***************************************************************************)
(* What the connection of a client handle promises to the rest of the      *)
(* library: which thread may write conn->state, when, and what the receive *)
(* thread makes of it.  Advice, delays and the contents of replies are     *)
(* left open, so are the reasons for which a connect fails or a thread     *)
(* gives up.  Connection implements this; Delivery builds on it.           *)
(***************************************************************************)
EXTENDS Naturals

CONSTANT MaxConnects   \* how often the application calls cometd_connect

VARIABLES
  state,      \* conn->state
  app,        \* the application inside cometd_connect and cometd_disconnect
  loop,       \* the receive thread
  connects    \* calls of cometd_connect so far

linkVars == <<state, app, loop, connects>>

States == {"UNINITIALIZED", "DISCONNECTED", "HANDSHAKE_SUCCESS", "CONNECTED",
           "DISCONNECTING", "UNCONNECTED"}

(* The states in which the receive thread polls, and the states in which   *)
(* it, and cometd_listen, take the connection to be over.                  *)
Receiving == {"CONNECTED", "HANDSHAKE_SUCCESS", "UNCONNECTED"}
Over      == {"DISCONNECTED", "DISCONNECTING"}

AppPhases  == {"idle", "connecting", "starting", "connected", "stopping"}
LoopPhases == {"none", "deciding", "receiving", "processing", "updating",
               "handshaking", "retrying", "exiting", "done"}

Init ==
  /\ state = "UNINITIALIZED"
  /\ app = "idle"
  /\ loop = "none"
  /\ connects = 0

AppGoes(from, to)  == app = from /\ app' = to /\ UNCHANGED loop
LoopGoes(from, to) == loop = from /\ loop' \in to /\ UNCHANGED <<app, connects>>

-----------------------------------------------------------------------------
(* The application *)

Connect ==
  /\ connects < MaxConnects
  /\ AppGoes("idle", "connecting")
  /\ connects' = connects + 1
  /\ UNCHANGED state

(* A handshake changes the state only by succeeding, and may have to go on *)
(* even then.                                                              *)
AppHandshake ==
  /\ AppGoes("connecting", "connecting")
  /\ state' = "HANDSHAKE_SUCCESS"
  /\ UNCHANGED connects

ConnectFails ==
  /\ AppGoes("connecting", "idle")
  /\ UNCHANGED <<state, connects>>

Start ==
  /\ app = "connecting" /\ app' = "starting"
  /\ loop = "none" /\ loop' = "deciding"
  /\ UNCHANGED <<state, connects>>

SetConnected ==
  /\ AppGoes("starting", "connected")
  /\ state' = "CONNECTED"
  /\ UNCHANGED connects

(* A disconnect that waits for the server leaves the state alone.          *)
Disconnect(wait) ==
  /\ AppGoes("connected", "stopping")
  /\ state' = IF wait THEN state ELSE "DISCONNECTED"
  /\ UNCHANGED connects

Join ==
  /\ app = "stopping" /\ app' = "idle"
  /\ loop = "done" /\ loop' = "none"
  /\ UNCHANGED <<state, connects>>

-----------------------------------------------------------------------------
(* The receive thread *)

Decide ==
  /\ LoopGoes("deciding", {IF state \in Receiving THEN "receiving" ELSE "exiting"})
  /\ UNCHANGED state

(* A payload without a connect message leaves nothing to process.          *)
Receive ==
  /\ LoopGoes("receiving", {"processing", "retrying"})
  /\ UNCHANGED state

Process ==
  /\ LoopGoes("processing", {IF state \in Over THEN "retrying" ELSE "updating"})
  /\ UNCHANGED state

Update ==
  \/ LoopGoes("updating", {"retrying"}) /\ state' = "CONNECTED"
  \/ LoopGoes("updating", {"retrying", "handshaking"}) /\ state' = "UNCONNECTED"

LoopHandshake ==
  /\ LoopGoes("handshaking", {"handshaking", "retrying"})
  /\ state' \in {state, "HANDSHAKE_SUCCESS"}

(* Only a failing connection is given up.                                  *)
Retry ==
  /\ LoopGoes("retrying", IF state = "UNCONNECTED" THEN {"deciding", "exiting"}
                                                   ELSE {"deciding"})
  /\ UNCHANGED state

(* Mutant: the state is left as it was when retrying was given up.         *)
Exit_SetsNothing ==
  /\ LoopGoes("exiting", {"done"})
  /\ UNCHANGED state

Exit ==
  /\ LoopGoes("exiting", {"done"})
  /\ state' = "DISCONNECTED"

-----------------------------------------------------------------------------

AppStep  == AppHandshake \/ ConnectFails \/ Start \/ SetConnected \/ Join
LoopStep == Decide \/ Receive \/ Process \/ Update \/ LoopHandshake \/ Retry \/ Exit

Next == Connect \/ (\E wait \in BOOLEAN : Disconnect(wait)) \/ AppStep \/ LoopStep

Spec == Init /\ [][Next]_linkVars

=============================================================================
