----------------------------- MODULE MCDelivery -----------------------------
(* The smallest instance of Delivery: what one message meets.              *)
EXTENDS Delivery

CONSTANT k1

(* No attachments.                                                         *)
NoFiles == [k \in Keys |-> {}]
=============================================================================
