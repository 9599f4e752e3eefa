------------------------------ MODULE MCOutbox ------------------------------
(* Finite instances of Outbox for TLC. *)
EXTENDS Outbox

CONSTANTS e1, e2, w1, w2
=============================================================================
