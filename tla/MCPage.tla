------------------------------- MODULE MCPage -------------------------------
(* Finite instance of Page for TLC. *)
EXTENDS Page
=============================================================================
