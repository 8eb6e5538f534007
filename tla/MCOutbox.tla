------------------------------ MODULE MCOutbox ------------------------------
(* Instances of Outbox for TLC: times in ticks, scaled from the code's. *)
EXTENDS Outbox

Delays == <<1, 2>>
=============================================================================
