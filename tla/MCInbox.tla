------------------------------ MODULE MCInbox ------------------------------
(* Inbox on small instances: the receive thread and the listeners.         *)
EXTENDS Inbox

CONSTANTS listen1, listen2

MCTwoConsumers == {listen1, listen2}
=============================================================================
