----------------------------- MODULE MCDelivery -----------------------------
(* Delivery with the deliveries and bounds that its configurations give. *)
EXTENDS Delivery
=============================================================================
