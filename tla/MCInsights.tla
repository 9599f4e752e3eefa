----------------------------- MODULE MCInsights -----------------------------
(* Finite instance of Insights for TLC. *)
EXTENDS Insights

CONSTANTS t1, c1, c2

\* One request beyond the limit is a repeated probe already.
Thresholds == [overLimit |-> 1]
=============================================================================
