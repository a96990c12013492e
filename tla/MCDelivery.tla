----------------------------- MODULE MCDelivery -----------------------------
(* Delivery on small sets of messages, threads and queue rows. *)
EXTENDS Delivery
=============================================================================
