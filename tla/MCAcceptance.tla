---------------------------- MODULE MCAcceptance ----------------------------
(* Finite instances of Acceptance for TLC. *)
EXTENDS Acceptance, TLC

CONSTANTS r1, r2, r3, k1, o1, o2, o3, i1, i2, c1, c2, c3

Symmetry == Permutations(Requests)

\* Each challenge is requested for its own operation.
ThreeOperations == [c \in Challenges |->
  [op |-> CASE c = c1 -> o1 [] c = c2 -> o2 [] c = c3 -> o3, intent |-> i1]]

\* Both challenges are requested for one operation, as a wallet does when it
\* refreshes an expired presentation.
OneOperation == [c \in Challenges |-> [op |-> o1, intent |-> i1]]

Send(slot, op, intent, ch) ==
  [cred |-> k1, slot |-> slot, op |-> op, intent |-> intent, ch |-> ch]

\* Rivals for one slot, rivals for one operation, the over-limit slot, and an
\* operation whose content was changed.
RivalPresentations ==
  {Send(0, o1, i1, c1), Send(0, o2, i1, c2), Send(1, o1, i1, c1),
   Send(1, o2, i1, c2), Send(L, o3, i1, c3), Send(0, o1, i2, c1)}

\* One operation presented with its first and with a fresh challenge.
RefreshedPresentations == {Send(0, o1, i1, c1), Send(0, o1, i1, c2)}

OnePresentation == {Send(0, o1, i1, c1)}
=============================================================================
