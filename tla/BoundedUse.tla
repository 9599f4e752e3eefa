----------------------------- MODULE BoundedUse -----------------------------
(***************************************************************************)
(* What the verifier promises, with no requests, challenges, clocks or     *)
(* transactions: a ledger of accepted uses.  A slot of a credential is     *)
(* spent at most once and only below the bound, an operation is accepted   *)
(* at most once, a use settles once and keeps its result, and the only     *)
(* way out of the ledger is a reset of all of it.                          *)
(***************************************************************************)
EXTENDS Integers, FiniteSets

CONSTANTS UseIds, Credentials, Operations, Intents, L

VARIABLE ledger

Use == [id: UseIds, cred: Credentials, slot: 0..(L - 1), op: Operations,
        intent: Intents,
        status: {"ACCEPTED_PENDING_ACTION", "SUCCEEDED", "FAILED_FINAL"}]

Clash(u, v) == \/ u.id = v.id
               \/ u.cred = v.cred /\ u.slot = v.slot
               \/ u.op = v.op

Init == ledger = {}

\* canTransitionUse(UNSEEN, ACCEPTED_PENDING_ACTION, ACCEPT)
Accept ==
  \E u \in Use :
    /\ u.status = "ACCEPTED_PENDING_ACTION"
    /\ \A v \in ledger : ~Clash(u, v)
    /\ ledger' = ledger \cup {u}

\* canTransitionUse(ACCEPTED_PENDING_ACTION, SUCCEEDED or FAILED_FINAL, ...)
Settle ==
  \E u \in ledger, result \in {"SUCCEEDED", "FAILED_FINAL"} :
    /\ u.status = "ACCEPTED_PENDING_ACTION"
    /\ ledger' = (ledger \ {u}) \cup {[u EXCEPT !.status = result]}

Reset == ledger' = {}

Next == Accept \/ Settle \/ Reset

Spec == Init /\ [][Next]_ledger
=============================================================================
