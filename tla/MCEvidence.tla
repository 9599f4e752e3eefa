---------------------------- MODULE MCEvidence ----------------------------
(* Finite instance of Evidence for TLC. *)
EXTENDS Evidence, TLC

CONSTANTS u1, u2, none, p1, a1

Symmetry == Permutations(Uses)
=============================================================================
