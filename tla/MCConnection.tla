---------------------------- MODULE MCConnection ----------------------------
(* Connection on a small instance.  The configurations give the linear     *)
(* delay two steps before it gives up (1 ms, then max_backoff = 2), and    *)
(* servers that ask for no pause, for one of 3 ms, or for one of -1 ms.    *)
EXTENDS Connection

ServerIntervals == {-1, 0, 3}
=============================================================================
