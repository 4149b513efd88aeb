---------------------------- MODULE MCTransports ----------------------------
(* Transports on a small instance: two names to register under, a server   *)
(* that may also list a third, and one address fewer than registrations.   *)
EXTENDS Transports, TLC

CONSTANTS t1, t2, t3

MCAddresses == {t1, t2, t3}
MCNames     == {"long-polling", "test-transport"}
MCTypes     == MCNames \cup {"made-up-transport"}
MCSymmetry  == Permutations(MCAddresses)
=============================================================================
