----------------------------- MODULE MCDelivery -----------------------------
(* Delivery on a small instance: one listener, as programs have.           *)
EXTENDS Delivery

CONSTANT listen1

MCConsumers == {listen1}
=============================================================================
