----------------------------- MODULE MCDelivery -----------------------------
(* Two jobs and four deliveries: two faults may each return the job that is *)
(* leased, while the handler of its earlier delivery still runs.            *)
EXTENDS Delivery
=============================================================================
