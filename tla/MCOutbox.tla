------------------------------ MODULE MCOutbox ------------------------------
(* Instances of Outbox for TLC: three rows, two delivery jobs that overlap. *)
EXTENDS Outbox

MCEntry  == 1..3
MCBlocks == {2}
=============================================================================
