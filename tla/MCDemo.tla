------------------------------- MODULE MCDemo -------------------------------
(* Finite instance of Demo for TLC. *)
EXTENDS Demo, TLC

CONSTANTS o1, o2, r1, r2, s1, s2
=============================================================================
