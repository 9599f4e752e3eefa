------------------------------- MODULE Outbox -------------------------------
(***************************************************************************)
(* From an accepted use to its external effect: the leased outbox of       *)
(* worker-repository.ts, the delivery loop of apps/worker, and the         *)
(* idempotent Action Simulator, for the uses of one demo run.  Workers     *)
(* stop, are slow and lose responses, requests reach the destination after *)
(* their sender gave up, leases lapse, and the demo reset cuts across.     *)
(*                                                                         *)
(* Times are kept only as far as the code compares them: `due` is          *)
(* next_attempt_at <= clock_timestamp(), `lease` says whether lease_until  *)
(* is null, ahead or past.  attempt_count is only ever compared with       *)
(* maxAttempts, so it stops counting there.                                *)
(***************************************************************************)
EXTENDS Integers, FiniteSets

CONSTANTS
  Events,       \* uses of the run, each with its outbox event and action key
  Conflicting,  \* events whose action key the destination holds with another
                \* payload digest
  Workers,      \* worker processes
  BatchLimit,   \* the limit of claimOutboxBatch
  MaxAttempts,  \* the maxAttempts of retryOutbox
  MaxCrashes    \* bound: how often worker processes stop

ASSUME ConstantsAssumption ==
  /\ IsFiniteSet(Events)
  /\ Conflicting \subseteq Events
  /\ BatchLimit \in Nat \ {0}
  /\ MaxAttempts \in Nat \ {0}
  /\ MaxCrashes \in Nat

VARIABLES
  use,      \* use_records.status
  outbox,   \* outbox_events: state, due, lease, attempts
  action,   \* action_results: is there a row under the action key
  fenced,   \* reset_demo_runs: has the run a tombstone at the destination
  erased,   \* has the verifier deleted the run
  worker,   \* each worker's place in its loop
  wire,     \* delivery requests sent and not yet handled
  crashes,  \* how often worker processes have stopped
  effects   \* history: how often the destination committed the action

vars == <<use, outbox, action, fenced, erased, worker, wire, crashes, effects>>

-----------------------------------------------------------------------------
UseStates == {"UNSEEN", "ACCEPTED_PENDING_ACTION", "SUCCEEDED", "FAILED_FINAL",
              "DELETED"}

Terminal == {"SUCCEEDED", "FAILED_FINAL"}

OutboxRows ==
  [state: {"NONE", "READY", "LEASED", "DELIVERED", "DEAD_LETTER", "DELETED"},
   due: BOOLEAN, lease: {"none", "live", "lapsed"}, attempts: 0..MaxAttempts]

\* cur is the event being delivered; result is what deliverAction returned.
WorkerStates ==
  [pc: {"idle", "deliver", "waiting", "settle"}, batch: SUBSET Events,
   cur: Events, result: {"NONE", "SUCCESS", "INTEGRITY", "RETRYABLE"}]

Init ==
  /\ use = [e \in Events |-> "UNSEEN"]
  /\ outbox = [e \in Events |-> [state |-> "NONE", due |-> FALSE,
                                 lease |-> "none", attempts |-> 0]]
  /\ action = [e \in Events |-> FALSE]
  /\ fenced = FALSE
  /\ erased = FALSE
  /\ worker \in [Workers -> {w \in WorkerStates :
                              w.pc = "idle" /\ w.batch = {} /\ w.result = "NONE"
                              /\ w.cur = CHOOSE e \in Events : TRUE}]
  /\ wire = {}
  /\ crashes = 0
  /\ effects = [e \in Events |-> 0]

-----------------------------------------------------------------------------
(* The acceptance transaction and the two halves of the demo reset.        *)

\* acceptPresentation inserts the use and its READY event together.
Accept(e) ==
  /\ use[e] = "UNSEEN"
  /\ ~erased
  /\ use' = [use EXCEPT ![e] = "ACCEPTED_PENDING_ACTION"]
  /\ outbox' = [outbox EXCEPT ![e] = [state |-> "READY", due |-> TRUE,
                                      lease |-> "none", attempts |-> 0]]
  /\ UNCHANGED <<action, fenced, erased, worker, wire, crashes, effects>>

\* The destination fences the run first: a tombstone, and its results go.
FenceActions ==
  /\ ~erased
  /\ fenced' = TRUE
  /\ action' = [e \in Events |-> FALSE]
  /\ UNCHANGED <<use, outbox, erased, worker, wire, crashes, effects>>

\* Mutant: the verifier's half of the reset does not wait for the destination's.
EraseRun_Unfenced ==
  /\ ~erased
  /\ erased' = TRUE
  /\ use' = [e \in Events |-> IF use[e] = "UNSEEN" THEN "UNSEEN" ELSE "DELETED"]
  /\ outbox' = [e \in Events |-> IF use[e] = "UNSEEN" THEN outbox[e]
                                 ELSE [outbox[e] EXCEPT !.state = "DELETED"]]
  /\ UNCHANGED <<action, fenced, worker, wire, crashes, effects>>

\* Then the verifier deletes the run.  If this fails the run stays active.
EraseRun ==
  /\ fenced /\ ~erased
  /\ erased' = TRUE
  /\ use' = [e \in Events |-> IF use[e] = "UNSEEN" THEN "UNSEEN" ELSE "DELETED"]
  /\ outbox' = [e \in Events |-> IF use[e] = "UNSEEN" THEN outbox[e]
                                 ELSE [outbox[e] EXCEPT !.state = "DELETED"]]
  /\ UNCHANGED <<action, fenced, worker, wire, crashes, effects>>

-----------------------------------------------------------------------------
(* Time.                                                                   *)

LeaseLapses(e) ==
  /\ outbox[e].lease = "live"
  /\ outbox' = [outbox EXCEPT ![e].lease = "lapsed"]
  /\ UNCHANGED <<use, action, fenced, erased, worker, wire, crashes, effects>>

BackoffElapses(e) ==
  /\ outbox[e].state = "READY" /\ ~outbox[e].due
  /\ outbox' = [outbox EXCEPT ![e].due = TRUE]
  /\ UNCHANGED <<use, action, fenced, erased, worker, wire, crashes, effects>>

-----------------------------------------------------------------------------
(* The destination.                                                        *)

\* Mutant: the tombstone of the run is not looked at.
Reply_NoFence(e) == IF e \in Conflicting THEN "INTEGRITY" ELSE "SUCCESS"

\* What commitAction answers.
Reply(e) == IF fenced THEN "RETRYABLE"             \* 410 DEMO_RUN_RESET
            ELSE IF e \in Conflicting THEN "INTEGRITY"
            ELSE "SUCCESS"

Awaits(w, e) == worker[w].pc = "waiting" /\ worker[w].cur = e

\* commitAction handles a request: it fences, replays or inserts, and commits.
\* The answer reaches the worker if it still waits for it, or is lost on the way.
HandleRequest(w, e) ==
  /\ <<w, e>> \in wire
  /\ wire' = wire \ {<<w, e>>}
  /\ IF Reply(e) = "SUCCESS" /\ ~action[e]
       THEN /\ action' = [action EXCEPT ![e] = TRUE]
            /\ effects' = [effects EXCEPT ![e] = @ + 1]
       ELSE UNCHANGED <<action, effects>>
  /\ IF Awaits(w, e)
       THEN \E result \in {Reply(e), "RETRYABLE"} :
              worker' = [worker EXCEPT ![w].pc = "settle",
                                       ![w].result = result]
       ELSE UNCHANGED worker
  /\ UNCHANGED <<use, outbox, fenced, erased, crashes>>

\* Mutant: an answer that is not a receipt counts as one.
DropRequest_AnyBody(w, e) ==
  /\ <<w, e>> \in wire
  /\ wire' = wire \ {<<w, e>>}
  /\ IF Awaits(w, e)
       THEN worker' = [worker EXCEPT ![w].pc = "settle",
                                     ![w].result = "SUCCESS"]
       ELSE UNCHANGED worker
  /\ UNCHANGED <<use, outbox, action, fenced, erased, crashes, effects>>

\* The request never arrives, or the destination fails before it commits.
DropRequest(w, e) ==
  /\ <<w, e>> \in wire
  /\ wire' = wire \ {<<w, e>>}
  /\ IF Awaits(w, e)
       THEN worker' = [worker EXCEPT ![w].pc = "settle",
                                     ![w].result = "RETRYABLE"]
       ELSE UNCHANGED worker
  /\ UNCHANGED <<use, outbox, action, fenced, erased, crashes, effects>>

\* fetch fails although the request is still on its way.
GiveUp(w) ==
  /\ worker[w].pc = "waiting"
  /\ worker' = [worker EXCEPT ![w].pc = "settle", ![w].result = "RETRYABLE"]
  /\ UNCHANGED <<use, outbox, action, fenced, erased, wire, crashes, effects>>

-----------------------------------------------------------------------------
(* The worker's loop.                                                      *)

\* Mutant: a lapsed lease is never taken over.
Claimable_UnleasedOnly(e) ==
  outbox[e].state \in {"READY", "LEASED"} /\ outbox[e].due /\ outbox[e].lease = "none"

Claimable(e) ==
  /\ outbox[e].state \in {"READY", "LEASED"}
  /\ outbox[e].due
  /\ outbox[e].lease # "live"

AttemptsAfter(n) == IF n < MaxAttempts THEN n + 1 ELSE n

\* claimOutboxBatch: rows locked by another transaction are skipped, so any
\* nonempty set of claimable rows within the limit may be the batch.
Claim(w, S) ==
  /\ worker[w].pc = "idle"
  /\ S # {} /\ Cardinality(S) <= BatchLimit
  /\ \A e \in S : Claimable(e)
  /\ outbox' = [e \in Events |->
                  IF e \in S
                  THEN [outbox[e] EXCEPT !.state = "LEASED", !.lease = "live",
                                         !.attempts = AttemptsAfter(@)]
                  ELSE outbox[e]]
  /\ worker' = [worker EXCEPT ![w].pc = "deliver", ![w].batch = S]
  /\ UNCHANGED <<use, action, fenced, erased, wire, crashes, effects>>

\* deliverAction for the next event of the batch.
Send(w, e) ==
  /\ worker[w].pc = "deliver"
  /\ e \in worker[w].batch
  /\ wire' = wire \cup {<<w, e>>}
  /\ worker' = [worker EXCEPT ![w].pc = "waiting", ![w].cur = e]
  /\ UNCHANGED <<use, outbox, action, fenced, erased, crashes, effects>>

\* The transaction returned: on with the batch, or back to the poll delay.
NextOfBatch(w) ==
  LET rest == worker[w].batch \ {worker[w].cur} IN
  worker' = [worker EXCEPT
               ![w] = [@ EXCEPT !.pc = IF rest = {} THEN "idle" ELSE "deliver",
                                !.batch = rest,
                                !.result = "NONE"]]

\* The transaction threw: the loop's catch gives up the rest of the batch,
\* whose rows stay leased.
AbandonBatch(w) ==
  worker' = [worker EXCEPT ![w] = [@ EXCEPT !.pc = "idle", !.batch = {},
                                            !.result = "NONE"]]

Settles(w, result) == worker[w].pc = "settle" /\ worker[w].result = result

SettleUse(e, status) ==
  use' = [use EXCEPT ![e] = IF @ = "ACCEPTED_PENDING_ACTION" THEN status ELSE @]

Close(e, state) ==
  outbox' = [outbox EXCEPT ![e].state = state, ![e].lease = "none"]

\* Mutant: a late success is recorded whatever the use has become.
CompleteOutboxSuccess_Late(w) ==
  LET e == worker[w].cur IN
  /\ Settles(w, "SUCCESS")
  /\ use[e] # "DELETED"
  /\ use' = [use EXCEPT ![e] = "SUCCEEDED"]
  /\ IF outbox[e].state = "LEASED" THEN Close(e, "DELIVERED") ELSE UNCHANGED outbox
  /\ NextOfBatch(w)
  /\ UNCHANGED <<action, fenced, erased, wire, crashes, effects>>

\* completeOutboxSuccess
CompleteOutboxSuccess(w) ==
  LET e == worker[w].cur IN
  /\ Settles(w, "SUCCESS")
  /\ \/ /\ use[e] \in {"DELETED", "FAILED_FINAL"}
        /\ AbandonBatch(w)
        /\ UNCHANGED <<use, outbox>>
     \/ /\ use[e] = "SUCCEEDED"
        /\ NextOfBatch(w)
        /\ UNCHANGED <<use, outbox>>
     \/ /\ use[e] = "ACCEPTED_PENDING_ACTION"
        /\ SettleUse(e, "SUCCEEDED")
        /\ IF outbox[e].state = "LEASED" THEN Close(e, "DELIVERED")
                                         ELSE UNCHANGED outbox
        /\ NextOfBatch(w)
  /\ UNCHANGED <<action, fenced, erased, wire, crashes, effects>>

\* failOutbox, on an integrity conflict
FailOutbox(w) ==
  LET e == worker[w].cur IN
  /\ Settles(w, "INTEGRITY")
  /\ \/ /\ use[e] = "DELETED"
        /\ AbandonBatch(w)
        /\ UNCHANGED <<use, outbox>>
     \/ /\ use[e] = "FAILED_FINAL"
        /\ NextOfBatch(w)
        /\ UNCHANGED <<use, outbox>>
     \/ /\ use[e] \in {"ACCEPTED_PENDING_ACTION", "SUCCEEDED"}
        /\ SettleUse(e, "FAILED_FINAL")
        /\ Close(e, "DEAD_LETTER")
        /\ NextOfBatch(w)
  /\ UNCHANGED <<action, fenced, erased, wire, crashes, effects>>

\* Mutant: the last claim is given up before it was tried.
RetryOutbox_TooEarly(w) ==
  LET e == worker[w].cur IN
  /\ Settles(w, "RETRYABLE")
  /\ outbox[e].state = "LEASED"
  /\ IF outbox[e].attempts + 1 >= MaxAttempts
       THEN SettleUse(e, "FAILED_FINAL") /\ Close(e, "DEAD_LETTER")
       ELSE /\ outbox' = [outbox EXCEPT ![e].state = "READY", ![e].lease = "none",
                                        ![e].due = FALSE]
            /\ UNCHANGED use
  /\ NextOfBatch(w)
  /\ UNCHANGED <<action, fenced, erased, wire, crashes, effects>>

\* Mutant: an exhausted event is dead-lettered and its use forgotten.
RetryOutbox_UseForgotten(w) ==
  LET e == worker[w].cur IN
  /\ Settles(w, "RETRYABLE")
  /\ outbox[e].state = "LEASED"
  /\ IF outbox[e].attempts >= MaxAttempts
       THEN Close(e, "DEAD_LETTER")
       ELSE outbox' = [outbox EXCEPT ![e].state = "READY", ![e].lease = "none",
                                     ![e].due = FALSE]
  /\ NextOfBatch(w)
  /\ UNCHANGED <<use, action, fenced, erased, wire, crashes, effects>>

\* retryOutbox
RetryOutbox(w) ==
  LET e == worker[w].cur IN
  /\ Settles(w, "RETRYABLE")
  /\ \/ /\ outbox[e].state # "LEASED"
        /\ AbandonBatch(w)
        /\ UNCHANGED <<use, outbox>>
     \/ /\ outbox[e].state = "LEASED"
        /\ outbox[e].attempts >= MaxAttempts
        /\ SettleUse(e, "FAILED_FINAL")
        /\ Close(e, "DEAD_LETTER")
        /\ NextOfBatch(w)
     \/ /\ outbox[e].state = "LEASED"
        /\ outbox[e].attempts < MaxAttempts
        /\ outbox' = [outbox EXCEPT ![e] = [@ EXCEPT !.state = "READY",
                                                     !.lease = "none",
                                                     !.due = FALSE]]
        /\ NextOfBatch(w)
        /\ UNCHANGED use
  /\ UNCHANGED <<action, fenced, erased, wire, crashes, effects>>

\* The process stops, or a query of the loop fails and its transaction rolls
\* back; requests already sent stay on the wire.
Crash(w) ==
  /\ worker[w].pc # "idle"
  /\ crashes < MaxCrashes
  /\ crashes' = crashes + 1
  /\ AbandonBatch(w)
  /\ UNCHANGED <<use, outbox, action, fenced, erased, wire, effects>>

-----------------------------------------------------------------------------
WorkerStep(w) ==
  \/ \E S \in SUBSET Events : Claim(w, S)
  \/ \E e \in Events : Send(w, e)
  \/ CompleteOutboxSuccess(w) \/ FailOutbox(w) \/ RetryOutbox(w)

Network ==
  \E w \in Workers, e \in Events : HandleRequest(w, e) \/ DropRequest(w, e)

Next ==
  \/ \E e \in Events : Accept(e) \/ LeaseLapses(e) \/ BackoffElapses(e)
  \/ FenceActions \/ EraseRun
  \/ Network
  \/ \E w \in Workers : WorkerStep(w) \/ GiveUp(w) \/ Crash(w)

Spec == Init /\ [][Next]_vars

\* Worker processes keep polling and time keeps passing; the destination need
\* not answer, since fetch fails by itself in the end.  A claim takes the oldest
\* claimable rows, so with at most BatchLimit rows the workers that keep claiming
\* do not keep passing over one of them.
FairSpec ==
  /\ Spec
  /\ \A w \in Workers : WF_vars(WorkerStep(w)) /\ WF_vars(GiveUp(w))
  /\ \A e \in Events :
       /\ WF_vars(LeaseLapses(e))
       /\ WF_vars(BackoffElapses(e))
       /\ SF_vars(\E w \in Workers, S \in SUBSET Events :
                    e \in S /\ Claim(w, S))

-----------------------------------------------------------------------------
(* Properties.                                                             *)

\* Every variable stays within its type.
TypeOK ==
  /\ use \in [Events -> UseStates]
  /\ outbox \in [Events -> OutboxRows]
  /\ action \in [Events -> BOOLEAN]
  /\ fenced \in BOOLEAN /\ erased \in BOOLEAN
  /\ worker \in [Workers -> WorkerStates]
  /\ wire \subseteq Workers \X Events
  /\ crashes \in 0..MaxCrashes
  /\ effects \in [Events -> Nat]

\* rules.md, product invariant 5: an accepted use causes at most one committed
\* effect, although workers deliver it repeatedly and concurrently, requests
\* arrive late, and the reset deletes the destination's results.
AtMostOneEffect == \A e \in Events : effects[e] <= 1

\* A success is reported only for an action the destination did commit.
SuccessHasEffect == \A e \in Events : use[e] = "SUCCEEDED" => effects[e] = 1

\* rules.md, product invariant 6: while a use is pending its outbox event can
\* still be claimed, now or when its lease or its backoff has run out.
PendingIsRecoverable ==
  \A e \in Events : use[e] = "ACCEPTED_PENDING_ACTION" =>
                      outbox[e].state \in {"READY", "LEASED"}

\* rules.md section 13: exhausted work becomes a visible DEAD_LETTER and is never
\* silently discarded.  A use fails for good only together with its event, and
\* only on a conflict or when all its claims, by whatever workers, are used up.
FailureIsVisible ==
  \A e \in Events : use[e] = "FAILED_FINAL" =>
    /\ outbox[e].state = "DEAD_LETTER"
    /\ e \in Conflicting \/ outbox[e].attempts = MaxAttempts

\* Once the reset has deleted the run, the destination holds no result of it,
\* and no request still under way brings one back.
ResetLeavesNoEffect ==
  erased => \A e \in Events : ~action[e]

\* rules.md section 14: a terminal result is never replaced, by whatever worker
\* answers late; only the reset removes it.
TerminalIsImmutable ==
  [][\A e \in Events : use[e] \in Terminal => use'[e] \in {use[e], "DELETED"}]_vars

\* rules.md section 13: successful completion marks the use SUCCEEDED and its
\* outbox event DELIVERED atomically.
CompletionDelivers ==
  \A e \in Events : use[e] = "SUCCEEDED" => outbox[e].state = "DELIVERED"

Abstract == INSTANCE EffectOnce WITH committed <- {e \in Events : effects[e] = 1}

\* rules.md, product invariants 5 and 6, and section 14: with all their leases,
\* retries, crashes and late answers the workers and the destination implement
\* EffectOnce: every step is one of its transitions or changes nothing.
ImplementsEffectOnce == Abstract!Spec

\* An accepted use gets a terminal result, unless the reset deletes it, if
\* worker processes stop only finitely often.
EventuallySettled ==
  \A e \in Events : use[e] = "ACCEPTED_PENDING_ACTION"
                      ~> use[e] \in Terminal \cup {"DELETED"}
=============================================================================
