------------------------------ MODULE MCWallet ------------------------------
(* Finite instances of Wallet for TLC. *)
EXTENDS Wallet, TLC

CONSTANTS f1, f2, o1, o2, o3

\* All calls of one page, or each of a page of its own.
OnePage  == [f \in Flows |-> "page"]
OwnPages == [f \in Flows |-> f]

Symmetry == Permutations(Flows) \cup Permutations(Ops)

\* Where the flows differ in what they may do.
SameFlows == Permutations(Ops)
=============================================================================
