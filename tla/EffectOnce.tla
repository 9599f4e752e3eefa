----------------------------- MODULE EffectOnce -----------------------------
(***************************************************************************)
(* What the verifier, its workers and the destination promise together of  *)
(* the uses of a demo run, with no outbox, leases, retries or network: the *)
(* destination commits the action of a use at most once, and only of an    *)
(* accepted one; a use succeeds only after that; once the destination has  *)
(* fenced the run it commits nothing more, and only then is the run        *)
(* deleted.  A use may fail although its action is committed, or will be.  *)
(***************************************************************************)
CONSTANT Events

VARIABLES
  use,        \* use_records.status
  committed,  \* events whose action the destination has committed
  fenced, erased

vars == <<use, committed, fenced, erased>>

Init ==
  /\ use = [e \in Events |-> "UNSEEN"]
  /\ committed = {}
  /\ fenced = FALSE
  /\ erased = FALSE

Accept(e) ==
  /\ use[e] = "UNSEEN" /\ ~erased
  /\ use' = [use EXCEPT ![e] = "ACCEPTED_PENDING_ACTION"]
  /\ UNCHANGED <<committed, fenced, erased>>

\* The action key is a primary key, read under the run's fence.
Commit(e) ==
  /\ use[e] \in {"ACCEPTED_PENDING_ACTION", "FAILED_FINAL"}
  /\ e \notin committed /\ ~fenced
  /\ committed' = committed \cup {e}
  /\ UNCHANGED <<use, fenced, erased>>

\* canTransitionUse(ACCEPTED_PENDING_ACTION, ...): a success needs the effect.
Settle(e, status) ==
  /\ use[e] = "ACCEPTED_PENDING_ACTION"
  /\ status = "SUCCEEDED" => e \in committed
  /\ use' = [use EXCEPT ![e] = status]
  /\ UNCHANGED <<committed, fenced, erased>>

Fence ==
  /\ ~fenced
  /\ fenced' = TRUE
  /\ UNCHANGED <<use, committed, erased>>

Erase ==
  /\ fenced /\ ~erased
  /\ erased' = TRUE
  /\ use' = [e \in Events |-> IF use[e] = "UNSEEN" THEN "UNSEEN" ELSE "DELETED"]
  /\ UNCHANGED <<committed, fenced>>

Next ==
  \/ \E e \in Events :
       \/ Accept(e) \/ Commit(e)
       \/ \E status \in {"SUCCEEDED", "FAILED_FINAL"} : Settle(e, status)
  \/ Fence \/ Erase

Spec == Init /\ [][Next]_vars
=============================================================================
