---------------------------- MODULE OutboxProofs ----------------------------
(***************************************************************************)
(* Proofs about Outbox, for every number of events and workers, every      *)
(* batch and attempt limit, and any number of process stops: what the      *)
(* destination commits, what a success, a failure and a reset mean, that   *)
(* it all implements EffectOnce, and what holds with one worker only.      *)
(***************************************************************************)
EXTENDS Outbox, TLAPS

-----------------------------------------------------------------------------
(* The inductive invariant.                                                *)

\* What the destination has done: with no tombstone its row and the commit go
\* together, with one no row is left; no action was committed twice; and the
\* verifier's half of a reset follows the destination's.
DestinationInv ==
  /\ \A e \in Events : effects[e] \in {0, 1}
  /\ fenced => \A e \in Events : ~action[e]
  /\ ~fenced => \A e \in Events : action[e] <=> effects[e] = 1
  /\ erased => fenced

\* A worker that is about to report a success has the destination's word, and a
\* use that succeeded was reported by such a worker.
SuccessInv ==
  /\ \A w \in Workers :
       worker[w].pc = "settle" /\ worker[w].result = "SUCCESS" =>
         effects[worker[w].cur] = 1
  /\ SuccessHasEffect

IInv == TypeOK /\ DestinationInv /\ SuccessInv /\ PendingIsRecoverable

LEMMA InitInv == Init => IInv
<1> SUFFICES ASSUME Init PROVE IInv
  OBVIOUS
<1> USE ConstantsAssumption DEF Init
<1>1. TypeOK
  <2>1. outbox \in [Events -> OutboxRows]
    BY DEF OutboxRows
  <2>2. worker \in [Workers -> WorkerStates]
    OBVIOUS
  <2>3. use \in [Events -> UseStates] /\ effects \in [Events -> Nat]
    BY DEF UseStates
  <2>4. fenced \in BOOLEAN /\ erased \in BOOLEAN /\ action \in [Events -> BOOLEAN]
    OBVIOUS
  <2>5. wire \subseteq Workers \X Events /\ crashes \in 0..MaxCrashes
    OBVIOUS
  <2> QED
    BY <2>1, <2>2, <2>3, <2>4, <2>5 DEF TypeOK
<1>2. DestinationInv /\ SuccessInv /\ PendingIsRecoverable
  BY DEF DestinationInv, SuccessInv, SuccessHasEffect, PendingIsRecoverable
<1> QED
  BY <1>1, <1>2 DEF IInv

-----------------------------------------------------------------------------
(* Acceptance, reset and time.                                             *)

LEMMA AcceptKeepsInv ==
  ASSUME IInv, NEW e \in Events, Accept(e)
  PROVE  IInv'
<1>1. TypeOK'
  BY ConstantsAssumption DEF IInv, TypeOK, Accept, UseStates, OutboxRows
<1>2. (DestinationInv /\ SuccessInv /\ PendingIsRecoverable)'
  BY DEF IInv, TypeOK, Accept, DestinationInv, SuccessInv, SuccessHasEffect,
         PendingIsRecoverable
<1> QED
  BY <1>1, <1>2 DEF IInv

LEMMA FenceKeepsInv ==
  ASSUME IInv, FenceActions
  PROVE  IInv'
BY DEF IInv, TypeOK, FenceActions, DestinationInv, SuccessInv,
       SuccessHasEffect, PendingIsRecoverable

LEMMA EraseKeepsInv ==
  ASSUME IInv, EraseRun
  PROVE  IInv'
<1>1. outbox' \in [Events -> OutboxRows]
  BY DEF IInv, TypeOK, EraseRun, OutboxRows
<1>2. use' \in [Events -> UseStates]
  BY DEF IInv, TypeOK, EraseRun, UseStates
<1>3. TypeOK'
  BY <1>1, <1>2 DEF IInv, TypeOK, EraseRun
<1>4. (DestinationInv /\ SuccessInv /\ PendingIsRecoverable)'
  BY DEF IInv, TypeOK, EraseRun, DestinationInv, SuccessInv, SuccessHasEffect,
         PendingIsRecoverable
<1> QED
  BY <1>3, <1>4 DEF IInv

LEMMA TimeKeepsInv ==
  ASSUME IInv, NEW e \in Events, LeaseLapses(e) \/ BackoffElapses(e)
  PROVE  IInv'
<1>1. \/ outbox' = [outbox EXCEPT ![e].lease = "lapsed"]
      \/ outbox' = [outbox EXCEPT ![e].due = TRUE]
  BY DEF LeaseLapses, BackoffElapses
<1>2. UNCHANGED <<use, action, fenced, erased, worker, wire, crashes, effects>>
  BY DEF LeaseLapses, BackoffElapses
<1>3. /\ outbox' \in [Events -> OutboxRows]
      /\ \A f \in Events : outbox'[f].state = outbox[f].state
  <2>1. CASE outbox' = [outbox EXCEPT ![e].lease = "lapsed"]
    BY <2>1 DEF IInv, TypeOK, OutboxRows
  <2>2. CASE outbox' = [outbox EXCEPT ![e].due = TRUE]
    BY <2>2 DEF IInv, TypeOK, OutboxRows
  <2> QED
    BY <1>1, <2>1, <2>2
<1> QED
  BY <1>2, <1>3 DEF IInv, TypeOK, DestinationInv, SuccessInv,
     SuccessHasEffect, PendingIsRecoverable

-----------------------------------------------------------------------------
(* The destination and the network.                                        *)

\* The answer to a worker, if it awaits one, is a success only when the action
\* has been committed.
Answered(w, f) ==
  \/ worker' = worker
  \/ \E result \in {"SUCCESS", "INTEGRITY", "RETRYABLE"} :
       /\ result = "SUCCESS" => effects'[worker[w].cur] = 1
       /\ worker' = [worker EXCEPT ![w].pc = "settle", ![w].result = result]

LEMMA AnsweredKeepsInv ==
  ASSUME IInv, NEW w \in Workers, NEW f \in Events, Answered(w, f),
         wire' \subseteq wire, UNCHANGED <<use, outbox, fenced, erased, crashes>>,
         action' \in [Events -> BOOLEAN], effects' \in [Events -> Nat],
         DestinationInv', \A e \in Events : effects[e] = 1 => effects'[e] = 1
  PROVE  IInv'
<1>1. worker' \in [Workers -> WorkerStates]
  BY DEF Answered, IInv, TypeOK, WorkerStates
<1>2. SuccessInv'
  BY DEF Answered, IInv, TypeOK, WorkerStates, SuccessInv, SuccessHasEffect
<1> QED
  BY <1>1, <1>2 DEF IInv, TypeOK, PendingIsRecoverable

LEMMA HandleKeepsInv ==
  ASSUME IInv, NEW w \in Workers, NEW e \in Events, HandleRequest(w, e)
  PROVE  IInv'
<1>1. /\ action' \in [Events -> BOOLEAN] /\ effects' \in [Events -> Nat]
      /\ \A f \in Events : effects[f] = 1 => effects'[f] = 1
      /\ Reply(e) = "SUCCESS" => effects'[e] = 1
      /\ DestinationInv'
  <2>1. CASE Reply(e) = "SUCCESS" /\ ~action[e]
    <3>1. /\ action' = [action EXCEPT ![e] = TRUE]
          /\ effects' = [effects EXCEPT ![e] = effects[e] + 1]
          /\ UNCHANGED <<fenced, erased>>
      BY <2>1 DEF HandleRequest
    <3>2. ~fenced /\ effects[e] = 0
      BY <2>1 DEF Reply, IInv, DestinationInv
    <3> QED
      BY <3>1, <3>2 DEF IInv, TypeOK, DestinationInv
  <2>2. CASE ~(Reply(e) = "SUCCESS" /\ ~action[e])
    BY <2>2 DEF HandleRequest, Reply, IInv, TypeOK, DestinationInv
  <2> QED
    BY <2>1, <2>2
<1>2. Answered(w, e)
  <2>1. CASE Awaits(w, e)
    <3>1. PICK result \in {Reply(e), "RETRYABLE"} :
            worker' = [worker EXCEPT ![w].pc = "settle", ![w].result = result]
      BY <2>1 DEF HandleRequest
    <3>2. worker[w].cur = e /\ Reply(e) \in {"SUCCESS", "INTEGRITY", "RETRYABLE"}
      BY <2>1 DEF Awaits, Reply
    <3> QED
      BY <1>1, <3>1, <3>2 DEF Answered
  <2>2. CASE ~Awaits(w, e)
    BY <2>2 DEF HandleRequest, Answered
  <2> QED
    BY <2>1, <2>2
<1>3. wire' \subseteq wire /\ UNCHANGED <<use, outbox, fenced, erased, crashes>>
  BY DEF HandleRequest
<1> QED
  BY <1>1, <1>2, <1>3, AnsweredKeepsInv

LEMMA LossKeepsInv ==
  ASSUME IInv, NEW w \in Workers, NEW e \in Events,
         DropRequest(w, e) \/ GiveUp(w)
  PROVE  IInv'
<1>1. /\ wire' \subseteq wire
      /\ UNCHANGED <<use, outbox, action, fenced, erased, crashes, effects>>
  BY DEF DropRequest, GiveUp
<1>2. Answered(w, e)
  BY DEF DropRequest, GiveUp, Answered
<1> QED
  BY <1>1, <1>2, AnsweredKeepsInv DEF IInv, TypeOK, DestinationInv

-----------------------------------------------------------------------------
(* The worker's loop.                                                      *)

\* A step of worker w that reports no success of its own and touches neither the
\* destination nor the reset.
OwnStep(w) ==
  /\ worker' \in [Workers -> WorkerStates]
  /\ worker'[w].pc # "settle"
  /\ \A v \in Workers \ {w} : worker'[v] = worker[v]
  /\ UNCHANGED <<action, fenced, erased, effects>>

LEMMA OwnStepKeepsInv ==
  ASSUME IInv, NEW w \in Workers, OwnStep(w),
         use' \in [Events -> UseStates], outbox' \in [Events -> OutboxRows],
         wire' \subseteq Workers \X Events, crashes' \in 0..MaxCrashes,
         SuccessHasEffect', PendingIsRecoverable'
  PROVE  IInv'
<1>1. TypeOK' /\ DestinationInv'
  BY DEF OwnStep, IInv, TypeOK, DestinationInv
<1>2. SuccessInv'
  BY DEF OwnStep, IInv, SuccessInv
<1> QED
  BY <1>1, <1>2 DEF IInv

LEMMA ClaimKeepsInv ==
  ASSUME IInv, NEW w \in Workers, NEW S \in SUBSET Events, Claim(w, S)
  PROVE  IInv'
<1>1. outbox' \in [Events -> OutboxRows]
  <2>1. ASSUME NEW e \in Events PROVE outbox'[e] \in OutboxRows
    <3>1. outbox[e] \in OutboxRows
      BY DEF IInv, TypeOK
    <3>2. AttemptsAfter(outbox[e].attempts) \in 0..MaxAttempts
      BY <3>1, ConstantsAssumption DEF OutboxRows, AttemptsAfter
    <3> QED
      BY <3>1, <3>2 DEF Claim, OutboxRows
  <2> QED
    BY <2>1 DEF Claim
<1>2. PendingIsRecoverable'
  <2>1. \A e \in Events : outbox'[e].state \in {outbox[e].state, "LEASED"}
    BY DEF Claim, IInv, TypeOK, OutboxRows
  <2> QED
    BY <2>1 DEF Claim, IInv, PendingIsRecoverable
<1>3. OwnStep(w)
  BY DEF Claim, OwnStep, IInv, TypeOK, WorkerStates
<1> QED
  BY <1>1, <1>2, <1>3, OwnStepKeepsInv
     DEF Claim, IInv, TypeOK, SuccessInv, SuccessHasEffect

LEMMA SendKeepsInv ==
  ASSUME IInv, NEW w \in Workers, NEW e \in Events, Send(w, e)
  PROVE  IInv'
<1>1. OwnStep(w)
  BY DEF Send, OwnStep, IInv, TypeOK, WorkerStates
<1>2. wire' \subseteq Workers \X Events
  BY DEF Send, IInv, TypeOK
<1> QED
  BY <1>1, <1>2, OwnStepKeepsInv
     DEF Send, IInv, TypeOK, SuccessInv, SuccessHasEffect, PendingIsRecoverable

LEMMA LoopGoesOn ==
  ASSUME IInv, NEW w \in Workers, NextOfBatch(w) \/ AbandonBatch(w),
         UNCHANGED <<action, fenced, erased, effects>>
  PROVE  OwnStep(w)
<1>1. PICK state \in WorkerStates :
        worker' = [worker EXCEPT ![w] = state] /\ state.pc # "settle"
  <2>0. worker[w] \in WorkerStates
    BY DEF IInv, TypeOK
  <2>1. CASE NextOfBatch(w)
    <3> DEFINE rest == worker[w].batch \ {worker[w].cur}
               state == [worker[w] EXCEPT
                           !.pc = IF rest = {} THEN "idle" ELSE "deliver",
                           !.batch = rest, !.result = "NONE"]
    <3>1. state \in WorkerStates /\ state.pc # "settle"
      BY <2>0 DEF WorkerStates
    <3>2. worker' = [worker EXCEPT ![w] = state]
      BY <2>1 DEF NextOfBatch
    <3> HIDE DEF state
    <3> QED
      BY <3>1, <3>2
  <2>2. CASE AbandonBatch(w)
    <3> DEFINE state == [worker[w] EXCEPT !.pc = "idle", !.batch = {},
                                          !.result = "NONE"]
    <3>1. state \in WorkerStates /\ state.pc # "settle"
      BY <2>0 DEF WorkerStates
    <3>2. worker' = [worker EXCEPT ![w] = state]
      BY <2>2 DEF AbandonBatch
    <3> HIDE DEF state
    <3> QED
      BY <3>1, <3>2
  <2> QED
    BY <2>1, <2>2
<1> QED
  BY <1>1 DEF OwnStep, IInv, TypeOK

\* One of the three transactions that end a delivery: it leaves the tables alone,
\* settles a pending use (as a success only with the destination's word) and
\* possibly closes its event, or gives a leased event back.
Concludes(w) ==
  LET e == worker[w].cur IN
  \/ UNCHANGED <<use, outbox>>
  \/ \E status \in Terminal, state \in {"DELIVERED", "DEAD_LETTER"} :
       /\ status = "SUCCEEDED" => effects[e] = 1
       /\ SettleUse(e, status)
       /\ outbox' = outbox \/ Close(e, state)
  \/ /\ outbox' = [outbox EXCEPT ![e] = [@ EXCEPT !.state = "READY",
                                                  !.lease = "none",
                                                  !.due = FALSE]]
     /\ UNCHANGED use

LEMMA ConcludesKeepsInv ==
  ASSUME IInv, NEW w \in Workers, Concludes(w),
         NextOfBatch(w) \/ AbandonBatch(w),
         UNCHANGED <<action, fenced, erased, wire, crashes, effects>>
  PROVE  IInv'
<1> DEFINE e == worker[w].cur
           Kept == /\ use' \in [Events -> UseStates]
                   /\ outbox' \in [Events -> OutboxRows]
                   /\ SuccessHasEffect' /\ PendingIsRecoverable'
<1>0. e \in Events
  BY DEF IInv, TypeOK, WorkerStates
<1>1. OwnStep(w)
  BY LoopGoesOn
<1>2. Kept
  <2> USE <1>0 DEF IInv, TypeOK, SuccessInv, SuccessHasEffect,
                   PendingIsRecoverable
  <2> HIDE DEF e
  <2>1. CASE UNCHANGED <<use, outbox>>
    BY <2>1
  <2>2. ASSUME NEW status \in Terminal, NEW state \in {"DELIVERED", "DEAD_LETTER"},
               status = "SUCCEEDED" => effects[e] = 1, SettleUse(e, status),
               outbox' = outbox \/ Close(e, state)
        PROVE  Kept
    <3>1. use' \in [Events -> UseStates]
      BY <2>2 DEF SettleUse, UseStates, Terminal
    <3>2. /\ use'[e] # "ACCEPTED_PENDING_ACTION"
          /\ use'[e] = "SUCCEEDED" => effects[e] = 1
          /\ \A f \in Events \ {e} : use'[f] = use[f]
      BY <2>2 DEF SettleUse, Terminal
    <3>3. /\ outbox' \in [Events -> OutboxRows]
          /\ \A f \in Events \ {e} : outbox'[f] = outbox[f]
      BY <2>2 DEF Close, OutboxRows
    <3> QED
      BY <3>1, <3>2, <3>3
  <2>3. CASE /\ outbox' = [outbox EXCEPT ![e] = [@ EXCEPT !.state = "READY",
                                                          !.lease = "none",
                                                          !.due = FALSE]]
             /\ UNCHANGED use
    <3> DEFINE row == [outbox[e] EXCEPT !.state = "READY", !.lease = "none",
                                        !.due = FALSE]
    <3>1. row \in OutboxRows /\ row.state = "READY"
      BY DEF OutboxRows
    <3>2. outbox' = [outbox EXCEPT ![e] = row]
      BY <2>3
    <3> HIDE DEF row
    <3> QED
      BY <2>3, <3>1, <3>2
  <2> QED
    BY <2>1, <2>2, <2>3 DEF Concludes, e
<1> QED
  BY <1>1, <1>2, OwnStepKeepsInv DEF IInv, TypeOK

LEMMA TransactionsConclude ==
  ASSUME IInv, NEW w \in Workers,
         CompleteOutboxSuccess(w) \/ FailOutbox(w) \/ RetryOutbox(w)
  PROVE  /\ Concludes(w)
         /\ NextOfBatch(w) \/ AbandonBatch(w)
         /\ UNCHANGED <<action, fenced, erased, wire, crashes, effects>>
<1>1. CASE CompleteOutboxSuccess(w)
  <2>1. effects[worker[w].cur] = 1
    BY <1>1 DEF CompleteOutboxSuccess, Settles, IInv, SuccessInv
  <2> QED
    BY <1>1, <2>1 DEF CompleteOutboxSuccess, Concludes, Terminal
<1>2. CASE FailOutbox(w)
  BY <1>2 DEF FailOutbox, Concludes, Terminal
<1>3. CASE RetryOutbox(w)
  BY <1>3 DEF RetryOutbox, Concludes, Terminal
<1> QED
  BY <1>1, <1>2, <1>3

LEMMA CrashKeepsInv ==
  ASSUME IInv, NEW w \in Workers, Crash(w)
  PROVE  IInv'
<1>1. OwnStep(w)
  BY LoopGoesOn DEF Crash
<1>2. crashes' \in 0..MaxCrashes
  BY ConstantsAssumption DEF Crash, IInv, TypeOK
<1> QED
  BY <1>1, <1>2, OwnStepKeepsInv
     DEF Crash, IInv, TypeOK, SuccessInv, SuccessHasEffect, PendingIsRecoverable

LEMMA NextKeepsInv == IInv /\ [Next]_vars => IInv'
<1> SUFFICES ASSUME IInv, [Next]_vars PROVE IInv'
  OBVIOUS
<1>1. ASSUME NEW e \in Events, Accept(e) \/ LeaseLapses(e) \/ BackoffElapses(e)
      PROVE  IInv'
  BY <1>1, AcceptKeepsInv, TimeKeepsInv
<1>2. CASE FenceActions \/ EraseRun
  BY <1>2, FenceKeepsInv, EraseKeepsInv
<1>3. CASE Network
  BY <1>3, HandleKeepsInv, LossKeepsInv DEF Network
<1>4. ASSUME NEW w \in Workers, WorkerStep(w) PROVE IInv'
  <2>1. ASSUME NEW S \in SUBSET Events, Claim(w, S) PROVE IInv'
    BY <2>1, ClaimKeepsInv
  <2>2. ASSUME NEW e \in Events, Send(w, e) PROVE IInv'
    BY <2>2, SendKeepsInv
  <2>3. CASE CompleteOutboxSuccess(w) \/ FailOutbox(w) \/ RetryOutbox(w)
    BY <2>3, TransactionsConclude, ConcludesKeepsInv
  <2> QED
    BY <1>4, <2>1, <2>2, <2>3 DEF WorkerStep
<1>5. ASSUME NEW w \in Workers, GiveUp(w) PROVE IInv'
  <2>1. worker[w].cur \in Events
    BY DEF IInv, TypeOK, WorkerStates
  <2> QED
    BY <1>5, <2>1, LossKeepsInv
<1>6. ASSUME NEW w \in Workers, Crash(w) PROVE IInv'
  BY <1>6, CrashKeepsInv
<1>7. CASE UNCHANGED vars
  BY <1>7 DEF vars, IInv, TypeOK, DestinationInv, SuccessInv, SuccessHasEffect,
              PendingIsRecoverable
<1> QED
  BY <1>1, <1>2, <1>3, <1>4, <1>5, <1>6, <1>7 DEF Next

\* The inductive invariant holds of every behaviour of workers, network,
\* destination and reset.
THEOREM Invariance == Spec => []IInv
BY InitInv, NextKeepsInv, PTL DEF Spec

-----------------------------------------------------------------------------
(* What it implies.                                                        *)

\* The outbox, the workers' loops and the requests on the wire stay within their
\* types.
THEOREM TypeCorrect == Spec => []TypeOK
<1>1. IInv => TypeOK
  BY DEF IInv
<1> QED
  BY <1>1, Invariance, PTL

\* Product invariant 5: however many workers deliver an accepted use, however
\* often and however late, the destination commits its action at most once.
THEOREM EffectIsUnique == Spec => []AtMostOneEffect
<1>1. IInv => AtMostOneEffect
  BY DEF IInv, DestinationInv, AtMostOneEffect
<1> QED
  BY <1>1, Invariance, PTL

\* A use reported as succeeded has its effect.
THEOREM SuccessIsReal == Spec => []SuccessHasEffect
<1>1. IInv => SuccessHasEffect
  BY DEF IInv, SuccessInv
<1> QED
  BY <1>1, Invariance, PTL

\* Product invariant 6: a pending use never loses its claimable outbox event.
THEOREM PendingStaysRecoverable == Spec => []PendingIsRecoverable
<1>1. IInv => PendingIsRecoverable
  BY DEF IInv
<1> QED
  BY <1>1, Invariance, PTL

\* After the reset no result of the run is left at the destination or comes back.
THEOREM ResetIsClean == Spec => []ResetLeavesNoEffect
<1>1. IInv => ResetLeavesNoEffect
  BY DEF IInv, DestinationInv, ResetLeavesNoEffect
<1> QED
  BY <1>1, Invariance, PTL

\* No worker, however late, replaces a terminal result.
THEOREM ResultsAreFinal == Spec => TerminalIsImmutable
<1>1. ASSUME IInv, [Next]_vars
      PROVE  [\A e \in Events : use[e] \in Terminal =>
                                use'[e] \in {use[e], "DELETED"}]_vars
  <2>1. ASSUME NEW w \in Workers, NEW status \in Terminal,
               SettleUse(worker[w].cur, status)
        PROVE  \A e \in Events : use[e] \in Terminal => use'[e] = use[e]
    BY <2>1 DEF SettleUse, Terminal
  <2>2. ASSUME NEW w \in Workers, Concludes(w)
        PROVE  \A e \in Events : use[e] \in Terminal => use'[e] = use[e]
    BY <2>1, <2>2 DEF Concludes
  <2>3. ASSUME NEW w \in Workers, WorkerStep(w)
        PROVE  \A e \in Events : use[e] \in Terminal => use'[e] = use[e]
    <3>1. CASE CompleteOutboxSuccess(w) \/ FailOutbox(w) \/ RetryOutbox(w)
      BY <1>1, <3>1, <2>2, TransactionsConclude
    <3>2. CASE UNCHANGED use
      BY <3>2
    <3> QED
      BY <2>3, <3>1, <3>2 DEF WorkerStep, Claim, Send
  <2>4. ASSUME NEW e \in Events, Accept(e)
        PROVE  \A f \in Events : use[f] \in Terminal => use'[f] = use[f]
    BY <2>4 DEF Accept, Terminal
  <2>5. CASE EraseRun
    BY <2>5 DEF EraseRun, Terminal
  <2>6. CASE UNCHANGED use
    BY <2>6
  <2> QED
    BY <1>1, <2>3, <2>4, <2>5, <2>6
       DEF Next, LeaseLapses, BackoffElapses, FenceActions, Network,
           HandleRequest, DropRequest, GiveUp, Crash, vars
<1> QED
  BY <1>1, Invariance, PTL DEF Spec, TerminalIsImmutable
-----------------------------------------------------------------------------
(* Only accepted uses are delivered, and only the reset deletes them.      *)

RowsFollowUses ==
  \A e \in Events : /\ use[e] = "UNSEEN" => outbox[e].state = "NONE"
                    /\ use[e] = "DELETED" => erased
                    /\ outbox[e].state = "DELETED" => use[e] = "DELETED"

\* What a worker holds or has sent is of an accepted use.
OnlyAccepted ==
  /\ \A w \in Workers :
       /\ \A e \in worker[w].batch : use[e] # "UNSEEN"
       /\ worker[w].pc \in {"waiting", "settle"} => worker[w].cur \in worker[w].batch
  /\ \A w \in Workers, e \in Events : <<w, e>> \in wire => use[e] # "UNSEEN"

DeliveryInv == RowsFollowUses /\ OnlyAccepted

\* No step forgets that a use was accepted.
StaysAccepted == \A e \in Events : use'[e] = "UNSEEN" => use[e] = "UNSEEN"

\* The worker goes on to s, with a request of its batch on the wire or not.
LEMMA OnlyAcceptedKept ==
  ASSUME TypeOK, OnlyAccepted, StaysAccepted, NEW w \in Workers, NEW s \in WorkerStates,
         worker' = [worker EXCEPT ![w] = s],
         \A e \in s.batch : use[e] # "UNSEEN",
         s.pc \in {"waiting", "settle"} => s.cur \in s.batch,
         \A v \in Workers, e \in Events :
           <<v, e>> \in wire' => <<v, e>> \in wire \/ e \in s.batch
  PROVE  OnlyAccepted'
<1>1. worker'[w] = s /\ \A v \in Workers \ {w} : worker'[v] = worker[v]
  BY DEF TypeOK
<1>2. \A v \in Workers : worker'[v].batch \subseteq Events
  BY <1>1 DEF TypeOK, WorkerStates
<1>3. ASSUME NEW v \in Workers
      PROVE  /\ \A e \in worker'[v].batch : use'[e] # "UNSEEN"
             /\ worker'[v].pc \in {"waiting", "settle"} => worker'[v].cur \in worker'[v].batch
  <2>1. CASE v = w
    BY <1>1, <1>2, <2>1 DEF StaysAccepted
  <2>2. CASE v # w
    BY <1>1, <1>2, <2>2 DEF OnlyAccepted, StaysAccepted
  <2> QED BY <2>1, <2>2
<1>4. \A v \in Workers, e \in Events : <<v, e>> \in wire' => use'[e] # "UNSEEN"
  BY DEF OnlyAccepted, StaysAccepted
<1> QED BY <1>3, <1>4 DEF OnlyAccepted

LEMMA OnlyAcceptedQuiet ==
  ASSUME TypeOK, OnlyAccepted, StaysAccepted, UNCHANGED worker, wire' \subseteq wire
  PROVE  OnlyAccepted'
<1>1. \A v \in Workers : worker[v].batch \subseteq Events
  BY DEF TypeOK, WorkerStates
<1> QED BY <1>1 DEF OnlyAccepted, StaysAccepted

LEMMA AnsweredAccepted ==
  ASSUME TypeOK, OnlyAccepted, NEW w \in Workers, NEW e \in Events,
         HandleRequest(w, e) \/ DropRequest(w, e) \/ GiveUp(w)
  PROVE  OnlyAccepted'
<1>1. UNCHANGED use /\ wire' \subseteq wire
  BY DEF HandleRequest, DropRequest, GiveUp
<1>2. StaysAccepted
  BY <1>1 DEF StaysAccepted
<1>3. CASE worker' = worker
  BY <1>1, <1>2, <1>3, OnlyAcceptedQuiet
<1>4. ASSUME NEW result \in {"SUCCESS", "INTEGRITY", "RETRYABLE"}, worker[w].pc = "waiting",
             worker' = [worker EXCEPT ![w].pc = "settle", ![w].result = result]
      PROVE  OnlyAccepted'
  <2> DEFINE s == [worker[w] EXCEPT !.pc = "settle", !.result = result]
  <2>1. worker[w] \in WorkerStates
    BY DEF TypeOK
  <2>2. s \in WorkerStates /\ s.batch = worker[w].batch /\ s.cur = worker[w].cur
    BY <2>1 DEF WorkerStates
  <2>3. worker' = [worker EXCEPT ![w] = s]
    BY <1>4
  <2> HIDE DEF s
  <2>4. s.cur \in s.batch /\ \A f \in s.batch : use[f] # "UNSEEN"
    BY <1>4, <2>2 DEF OnlyAccepted
  <2> QED BY <1>1, <1>2, <2>2, <2>3, <2>4, OnlyAcceptedKept
<1>5. Reply(e) \in {"SUCCESS", "INTEGRITY", "RETRYABLE"}
  BY DEF Reply
<1> QED BY <1>3, <1>4, <1>5 DEF HandleRequest, DropRequest, GiveUp, Awaits

LEMMA ClaimAccepted ==
  ASSUME TypeOK, DeliveryInv, NEW w \in Workers, NEW S \in SUBSET Events, Claim(w, S)
  PROVE  OnlyAccepted'
<1> DEFINE s == [worker[w] EXCEPT !.pc = "deliver", !.batch = S]
<1>1. worker[w] \in WorkerStates
  BY DEF TypeOK
<1>2. s \in WorkerStates /\ s.batch = S /\ s.pc = "deliver"
  BY <1>1 DEF WorkerStates
<1>3. worker' = [worker EXCEPT ![w] = s]
  BY DEF Claim
<1> HIDE DEF s
<1>4. \A e \in S : use[e] # "UNSEEN"
  BY DEF Claim, Claimable, DeliveryInv, RowsFollowUses
<1> QED BY <1>2, <1>3, <1>4, OnlyAcceptedKept DEF DeliveryInv, Claim, StaysAccepted

LEMMA SendAccepted ==
  ASSUME TypeOK, OnlyAccepted, NEW w \in Workers, NEW e \in Events, Send(w, e)
  PROVE  OnlyAccepted'
<1> DEFINE s == [worker[w] EXCEPT !.pc = "waiting", !.cur = e]
<1>1. worker[w] \in WorkerStates
  BY DEF TypeOK
<1>2. s \in WorkerStates /\ s.batch = worker[w].batch /\ s.cur = e
  BY <1>1 DEF WorkerStates
<1>3. worker' = [worker EXCEPT ![w] = s]
  BY DEF Send
<1> HIDE DEF s
<1>4. e \in s.batch /\ \A f \in s.batch : use[f] # "UNSEEN"
  BY <1>2 DEF Send, OnlyAccepted
<1>5. \A v \in Workers, f \in Events : <<v, f>> \in wire' => <<v, f>> \in wire \/ f \in s.batch
  BY <1>4 DEF Send
<1> QED BY <1>2, <1>3, <1>4, <1>5, OnlyAcceptedKept DEF Send, StaysAccepted

\* The state a worker goes on to after a transaction of its loop.
LEMMA LoopState ==
  ASSUME TypeOK, NEW w \in Workers, NextOfBatch(w) \/ AbandonBatch(w)
  PROVE  \E s \in WorkerStates :
           /\ worker' = [worker EXCEPT ![w] = s]
           /\ s.pc \in {"idle", "deliver"} /\ s.batch \subseteq worker[w].batch
           /\ s.batch \subseteq worker[w].batch \ {worker[w].cur} \/ s.batch = {}
<1>0. worker[w] \in WorkerStates
  BY DEF TypeOK
<1>1. CASE NextOfBatch(w)
  <2> DEFINE rest == worker[w].batch \ {worker[w].cur}
             state == [worker[w] EXCEPT
                         !.pc = IF rest = {} THEN "idle" ELSE "deliver",
                         !.batch = rest, !.result = "NONE"]
  <2>1. state \in WorkerStates /\ state.pc \in {"idle", "deliver"} /\ state.batch = rest
    BY <1>0 DEF WorkerStates
  <2>2. worker' = [worker EXCEPT ![w] = state]
    BY <1>1 DEF NextOfBatch
  <2> HIDE DEF state
  <2> QED BY <2>1, <2>2
<1>2. CASE AbandonBatch(w)
  <2> DEFINE state == [worker[w] EXCEPT !.pc = "idle", !.batch = {}, !.result = "NONE"]
  <2>1. state \in WorkerStates /\ state.pc = "idle" /\ state.batch = {}
    BY <1>0 DEF WorkerStates
  <2>2. worker' = [worker EXCEPT ![w] = state]
    BY <1>2 DEF AbandonBatch
  <2> HIDE DEF state
  <2> QED BY <2>1, <2>2
<1> QED BY <1>1, <1>2

LEMMA LoopAccepted ==
  ASSUME TypeOK, OnlyAccepted, StaysAccepted, NEW w \in Workers,
         NextOfBatch(w) \/ AbandonBatch(w), UNCHANGED wire
  PROVE  OnlyAccepted'
<1>1. PICK s \in WorkerStates :
        /\ worker' = [worker EXCEPT ![w] = s]
        /\ s.pc \in {"idle", "deliver"} /\ s.batch \subseteq worker[w].batch
  BY LoopState
<1>2. \A e \in s.batch : use[e] # "UNSEEN"
  BY <1>1 DEF OnlyAccepted
<1> QED BY <1>1, <1>2, OnlyAcceptedKept

\* What the transactions that end a delivery do to the use and its row.
Ends(e) ==
  \/ UNCHANGED <<use, outbox>>
  \/ /\ use[e] = "ACCEPTED_PENDING_ACTION" /\ use' = [use EXCEPT ![e] = "SUCCEEDED"]
     /\ outbox[e].state = "LEASED" /\ Close(e, "DELIVERED")
  \/ /\ use[e] = "ACCEPTED_PENDING_ACTION" /\ use' = [use EXCEPT ![e] = "SUCCEEDED"]
     /\ outbox[e].state # "LEASED" /\ UNCHANGED outbox
  \/ /\ use[e] = "ACCEPTED_PENDING_ACTION" /\ use' = [use EXCEPT ![e] = "FAILED_FINAL"]
     /\ Close(e, "DEAD_LETTER")
  \/ /\ use[e] = "SUCCEEDED" /\ UNCHANGED use /\ Close(e, "DEAD_LETTER")
  \/ /\ outbox[e].state = "LEASED" /\ UNCHANGED use
     /\ \/ Close(e, "DEAD_LETTER")
        \/ outbox' = [outbox EXCEPT ![e] = [@ EXCEPT !.state = "READY", !.lease = "none",
                                                     !.due = FALSE]]

LEMMA TransactionsEnd ==
  ASSUME TypeOK, NEW w \in Workers,
         CompleteOutboxSuccess(w) \/ FailOutbox(w) \/ RetryOutbox(w)
  PROVE  Ends(worker[w].cur) /\ worker[w].cur \in Events
<1>1. worker[w].cur \in Events /\ use \in [Events -> UseStates]
  BY DEF TypeOK, WorkerStates
<1>2. PICK e \in Events : worker[w].cur = e
  BY <1>1
<1>3. ASSUME NEW status, SettleUse(worker[w].cur, status)
      PROVE  \/ use[e] = "ACCEPTED_PENDING_ACTION" /\ use' = [use EXCEPT ![e] = status]
             \/ use[e] # "ACCEPTED_PENDING_ACTION" /\ UNCHANGED use
  BY <1>1, <1>2, <1>3 DEF SettleUse
<1>4. ASSUME NEW state, Close(worker[w].cur, state)
      PROVE  Close(e, state)
  BY <1>2, <1>4 DEF Close
<1>5. CASE CompleteOutboxSuccess(w)
  <2>1. CASE UNCHANGED <<use, outbox>>
    BY <1>1, <2>1 DEF Ends
  <2>2. CASE /\ use[e] = "ACCEPTED_PENDING_ACTION"
             /\ SettleUse(worker[w].cur, "SUCCEEDED")
             /\ IF outbox[e].state = "LEASED" THEN Close(worker[w].cur, "DELIVERED")
                                              ELSE UNCHANGED outbox
    <3>1. use' = [use EXCEPT ![e] = "SUCCEEDED"]
      BY <1>3, <2>2
    <3>2. CASE outbox[e].state = "LEASED"
      BY <1>2, <1>4, <2>2, <3>1, <3>2 DEF Ends
    <3>3. CASE outbox[e].state # "LEASED"
      BY <1>2, <2>2, <3>1, <3>3 DEF Ends
    <3> QED BY <3>2, <3>3
  <2> QED BY <1>1, <1>2, <1>5, <2>1, <2>2 DEF CompleteOutboxSuccess
<1>6. CASE FailOutbox(w)
  <2>1. CASE UNCHANGED <<use, outbox>>
    BY <1>1, <2>1 DEF Ends
  <2>2. CASE /\ use[e] \in {"ACCEPTED_PENDING_ACTION", "SUCCEEDED"}
             /\ SettleUse(worker[w].cur, "FAILED_FINAL")
             /\ Close(worker[w].cur, "DEAD_LETTER")
    <3>1. Close(e, "DEAD_LETTER")
      BY <1>4, <2>2
    <3>2. \/ use[e] = "ACCEPTED_PENDING_ACTION" /\ use' = [use EXCEPT ![e] = "FAILED_FINAL"]
          \/ use[e] = "SUCCEEDED" /\ UNCHANGED use
      BY <1>3, <2>2
    <3> QED BY <1>2, <3>1, <3>2 DEF Ends
  <2> QED BY <1>1, <1>2, <1>6, <2>1, <2>2 DEF FailOutbox
<1>7. CASE RetryOutbox(w)
  <2>1. CASE UNCHANGED <<use, outbox>>
    BY <1>1, <2>1 DEF Ends
  <2>2. CASE /\ outbox[e].state = "LEASED"
             /\ SettleUse(worker[w].cur, "FAILED_FINAL")
             /\ Close(worker[w].cur, "DEAD_LETTER")
    <3>1. Close(e, "DEAD_LETTER")
      BY <1>4, <2>2
    <3>2. \/ use[e] = "ACCEPTED_PENDING_ACTION" /\ use' = [use EXCEPT ![e] = "FAILED_FINAL"]
          \/ UNCHANGED use
      BY <1>3, <2>2
    <3> QED BY <1>2, <2>2, <3>1, <3>2 DEF Ends
  <2>3. CASE /\ outbox[e].state = "LEASED" /\ UNCHANGED use
             /\ outbox' = [outbox EXCEPT ![e] = [@ EXCEPT !.state = "READY",
                                                          !.lease = "none",
                                                          !.due = FALSE]]
    BY <1>2, <2>3 DEF Ends
  <2> QED BY <1>1, <1>2, <1>7, <2>1, <2>2, <2>3 DEF RetryOutbox
<1> QED BY <1>1, <1>5, <1>6, <1>7

LEMMA EndsFollow ==
  ASSUME TypeOK, RowsFollowUses, NEW e \in Events, Ends(e), UNCHANGED erased
  PROVE  RowsFollowUses' /\ StaysAccepted
<1>1. \A f \in Events \ {e} : use'[f] = use[f] /\ outbox'[f].state = outbox[f].state
  BY DEF Ends, Close, TypeOK
<1>2. outbox[e] \in OutboxRows /\ outbox \in [Events -> OutboxRows]
  BY DEF TypeOK
<1>3. CASE UNCHANGED <<use, outbox>>
  BY <1>3 DEF RowsFollowUses, StaysAccepted
<1>4. ASSUME use[e] # "UNSEEN", use'[e] \notin {"UNSEEN", "DELETED"} \/ use'[e] = use[e],
             outbox'[e].state = outbox[e].state \/ outbox'[e].state # "DELETED",
             use[e] # "DELETED"
      PROVE  RowsFollowUses' /\ StaysAccepted
  BY <1>1, <1>4 DEF RowsFollowUses, StaysAccepted
<1>5. ASSUME NEW state \in {"DELIVERED", "DEAD_LETTER"}, Close(e, state)
      PROVE  outbox'[e].state # "DELETED"
  <2>1. outbox' = [outbox EXCEPT ![e] = [@ EXCEPT !.state = state, !.lease = "none"]]
    BY <1>2, <1>5 DEF Close, OutboxRows
  <2> QED BY <1>2, <2>1 DEF OutboxRows
<1>6. CASE /\ use[e] = "ACCEPTED_PENDING_ACTION"
           /\ \/ use' = [use EXCEPT ![e] = "SUCCEEDED"]
              \/ use' = [use EXCEPT ![e] = "FAILED_FINAL"]
           /\ Close(e, "DELIVERED") \/ Close(e, "DEAD_LETTER") \/ UNCHANGED outbox
  BY <1>4, <1>5, <1>6 DEF TypeOK
<1>7. CASE use[e] = "SUCCEEDED" /\ UNCHANGED use /\ Close(e, "DEAD_LETTER")
  BY <1>4, <1>5, <1>7
<1>8. CASE /\ outbox[e].state = "LEASED" /\ UNCHANGED use
           /\ \/ Close(e, "DEAD_LETTER")
              \/ outbox' = [outbox EXCEPT ![e] = [@ EXCEPT !.state = "READY",
                                                           !.lease = "none",
                                                           !.due = FALSE]]
  <2>1. use[e] # "UNSEEN"
    BY <1>8 DEF RowsFollowUses
  <2>2. outbox'[e].state # "DELETED"
    BY <1>2, <1>5, <1>8 DEF OutboxRows
  <2> QED BY <1>1, <1>8, <2>1, <2>2 DEF RowsFollowUses, StaysAccepted
<1> QED BY <1>3, <1>6, <1>7, <1>8 DEF Ends

LEMMA DeliveryInit == Init => DeliveryInv
  BY DEF Init, DeliveryInv, RowsFollowUses, OnlyAccepted

LEMMA DeliveryStep == TypeOK /\ DeliveryInv /\ [Next]_vars => DeliveryInv'
<1> SUFFICES ASSUME TypeOK, DeliveryInv, [Next]_vars PROVE DeliveryInv'
  OBVIOUS
<1> USE DEF DeliveryInv
<1>0. ASSUME UNCHANGED <<use, erased>>,
             \A e \in Events : outbox'[e].state = outbox[e].state
      PROVE  RowsFollowUses' /\ StaysAccepted
  BY <1>0 DEF RowsFollowUses, StaysAccepted
<1>1. ASSUME NEW e \in Events, Accept(e)
      PROVE  DeliveryInv'
  <2>1. StaysAccepted /\ RowsFollowUses'
    BY <1>1 DEF Accept, TypeOK, StaysAccepted, RowsFollowUses
  <2> QED BY <1>1, <2>1, OnlyAcceptedQuiet DEF Accept
<1>2. ASSUME NEW e \in Events, LeaseLapses(e) \/ BackoffElapses(e)
      PROVE  DeliveryInv'
  <2>1. \A f \in Events : outbox'[f].state = outbox[f].state
    BY <1>2 DEF LeaseLapses, BackoffElapses, TypeOK, OutboxRows
  <2> QED BY <1>0, <1>2, <2>1, OnlyAcceptedQuiet DEF LeaseLapses, BackoffElapses
<1>3. CASE FenceActions
  BY <1>0, <1>3, OnlyAcceptedQuiet DEF FenceActions
<1>4. CASE EraseRun
  <2>1. StaysAccepted
    BY <1>4 DEF EraseRun, StaysAccepted
  <2>2. RowsFollowUses'
    BY <1>4 DEF EraseRun, RowsFollowUses, TypeOK, OutboxRows
  <2> QED BY <1>4, <2>1, <2>2, OnlyAcceptedQuiet DEF EraseRun
<1>5. ASSUME NEW w \in Workers, NEW e \in Events,
             HandleRequest(w, e) \/ DropRequest(w, e) \/ GiveUp(w)
      PROVE  DeliveryInv'
  BY <1>0, <1>5, AnsweredAccepted DEF HandleRequest, DropRequest, GiveUp
<1>6. ASSUME NEW w \in Workers, NEW S \in SUBSET Events, Claim(w, S)
      PROVE  DeliveryInv'
  <2>1. \A e \in Events : outbox'[e].state \in {outbox[e].state, "LEASED"}
    BY <1>6 DEF Claim, TypeOK, OutboxRows
  <2>2. \A e \in S : use[e] # "UNSEEN"
    BY <1>6 DEF Claim, Claimable, RowsFollowUses
  <2>3. \A e \in Events \ S : outbox'[e] = outbox[e]
    BY <1>6 DEF Claim
  <2>4. RowsFollowUses'
    BY <1>6, <2>1, <2>2, <2>3 DEF Claim, RowsFollowUses
  <2> QED BY <1>6, <2>4, ClaimAccepted
<1>7. ASSUME NEW w \in Workers, NEW e \in Events, Send(w, e)
      PROVE  DeliveryInv'
  BY <1>0, <1>7, SendAccepted DEF Send
<1>8. ASSUME NEW w \in Workers, CompleteOutboxSuccess(w) \/ FailOutbox(w) \/ RetryOutbox(w)
      PROVE  DeliveryInv'
  <2>1. (NextOfBatch(w) \/ AbandonBatch(w)) /\ UNCHANGED <<erased, wire>>
    BY <1>8 DEF CompleteOutboxSuccess, FailOutbox, RetryOutbox
  <2> QED BY <1>8, <2>1, TransactionsEnd, EndsFollow, LoopAccepted
<1>9. ASSUME NEW w \in Workers, Crash(w)
      PROVE  DeliveryInv'
  BY <1>0, <1>9, LoopAccepted DEF Crash
<1>10. CASE UNCHANGED vars
  BY <1>0, <1>10, OnlyAcceptedQuiet DEF vars
<1>11. ASSUME NEW w \in Workers, GiveUp(w)
      PROVE  DeliveryInv'
  <2>1. worker[w].cur \in Events
    BY DEF TypeOK, WorkerStates
  <2> QED BY <1>5, <1>11, <2>1
<1> QED
  BY <1>1, <1>2, <1>3, <1>4, <1>5, <1>6, <1>7, <1>8, <1>9, <1>10, <1>11
  DEF Next, Network, WorkerStep

\* The invariants together.
LEMMA DeliveryInvariance == Spec => [](IInv /\ DeliveryInv)
<1>1. Init => IInv /\ DeliveryInv
  BY InitInv, DeliveryInit
<1>2. IInv /\ DeliveryInv /\ [Next]_vars => (IInv /\ DeliveryInv)'
  BY NextKeepsInv, DeliveryStep DEF IInv
<1> QED BY <1>1, <1>2, PTL DEF Spec
-----------------------------------------------------------------------------
(* Failures are visible.                                                   *)

\* A worker reports a conflict only of an action key that has one.
FailureInv ==
  /\ \A w \in Workers :
       worker[w].pc = "settle" /\ worker[w].result = "INTEGRITY" =>
         worker[w].cur \in Conflicting
  /\ FailureIsVisible

LEMMA AnswerOfConflict ==
  ASSUME TypeOK, FailureInv, NEW w \in Workers, NEW e \in Events,
         HandleRequest(w, e) \/ DropRequest(w, e) \/ GiveUp(w)
  PROVE  FailureInv'
<1>1. UNCHANGED <<use, outbox>>
  BY DEF HandleRequest, DropRequest, GiveUp
<1>2. CASE worker' = worker
  BY <1>1, <1>2 DEF FailureInv, FailureIsVisible
<1>3. ASSUME NEW result,
             worker' = [worker EXCEPT ![w].pc = "settle", ![w].result = result],
             result = "INTEGRITY" => worker[w].cur \in Conflicting
      PROVE  FailureInv'
  <2> DEFINE s == [worker[w] EXCEPT !.pc = "settle", !.result = result]
  <2>1. worker[w] \in WorkerStates
    BY DEF TypeOK
  <2>2. s.result = result /\ s.cur = worker[w].cur
    BY <2>1 DEF WorkerStates
  <2>3. worker' = [worker EXCEPT ![w] = s]
    BY <1>3
  <2> HIDE DEF s
  <2> QED BY <1>1, <1>3, <2>2, <2>3 DEF TypeOK, FailureInv, FailureIsVisible
<1>4. Reply(e) = "INTEGRITY" => e \in Conflicting
  BY DEF Reply
<1> QED BY <1>2, <1>3, <1>4 DEF HandleRequest, DropRequest, GiveUp, Awaits

\* A worker that is back in its loop has nothing to report.
LEMMA LoopOfFailures ==
  ASSUME TypeOK, FailureInv, NEW w \in Workers, NextOfBatch(w) \/ AbandonBatch(w),
         FailureIsVisible'
  PROVE  FailureInv'
<1>1. PICK s \in WorkerStates : /\ worker' = [worker EXCEPT ![w] = s]
                                /\ s.pc \in {"idle", "deliver"}
  BY LoopState
<1> QED BY <1>1 DEF TypeOK, FailureInv

LEMMA SuccessIsNoFailure ==
  ASSUME TypeOK, FailureIsVisible, NEW w \in Workers, CompleteOutboxSuccess(w)
  PROVE  FailureIsVisible'
<1>1. PICK e \in Events : worker[w].cur = e
  BY DEF TypeOK, WorkerStates
<1>2. CASE UNCHANGED <<use, outbox>>
  BY <1>2 DEF FailureIsVisible
<1>3. CASE /\ use[e] = "ACCEPTED_PENDING_ACTION" /\ SettleUse(worker[w].cur, "SUCCEEDED")
           /\ Close(worker[w].cur, "DELIVERED") \/ UNCHANGED outbox
  <2>1. use'[e] = "SUCCEEDED" /\ \A f \in Events \ {e} : use'[f] = use[f]
    BY <1>1, <1>3 DEF SettleUse, TypeOK
  <2>2. \A f \in Events \ {e} : outbox'[f] = outbox[f]
    BY <1>1, <1>3 DEF Close, TypeOK
  <2> QED BY <2>1, <2>2 DEF FailureIsVisible
<1> QED BY <1>1, <1>2, <1>3 DEF CompleteOutboxSuccess

\* The row of a use that fails is closed, and keeps its count of claims.
LEMMA ClosedVisibly ==
  ASSUME TypeOK, FailureIsVisible, NEW e \in Events,
         SettleUse(e, "FAILED_FINAL"), Close(e, "DEAD_LETTER"),
         e \in Conflicting \/ outbox[e].attempts >= MaxAttempts
  PROVE  FailureIsVisible'
<1>1. outbox[e] \in OutboxRows /\ MaxAttempts \in Nat
  BY ConstantsAssumption DEF TypeOK
<1>2. outbox' = [outbox EXCEPT ![e] = [@ EXCEPT !.state = "DEAD_LETTER", !.lease = "none"]]
  BY <1>1 DEF Close, OutboxRows
<1>3. outbox'[e].state = "DEAD_LETTER" /\ outbox'[e].attempts = outbox[e].attempts
  BY <1>1, <1>2 DEF TypeOK, OutboxRows
<1>4. e \in Conflicting \/ outbox[e].attempts = MaxAttempts
  BY <1>1 DEF OutboxRows
<1>5. \A f \in Events \ {e} : outbox'[f] = outbox[f] /\ use'[f] = use[f]
  BY <1>2 DEF SettleUse, TypeOK
<1> QED BY <1>3, <1>4, <1>5 DEF FailureIsVisible

LEMMA FailIsVisible ==
  ASSUME TypeOK, FailureInv, NEW w \in Workers, FailOutbox(w)
  PROVE  FailureIsVisible'
<1>1. PICK e \in Events : worker[w].cur = e
  BY DEF TypeOK, WorkerStates
<1>2. e \in Conflicting
  BY <1>1 DEF FailOutbox, Settles, FailureInv
<1>3. CASE UNCHANGED <<use, outbox>>
  BY <1>3 DEF FailureInv, FailureIsVisible
<1>4. CASE SettleUse(worker[w].cur, "FAILED_FINAL") /\ Close(worker[w].cur, "DEAD_LETTER")
  <2>1. SettleUse(e, "FAILED_FINAL") /\ Close(e, "DEAD_LETTER")
    BY <1>1, <1>4 DEF SettleUse, Close
  <2> QED BY <1>2, <2>1, ClosedVisibly DEF FailureInv
<1> QED BY <1>3, <1>4 DEF FailOutbox

LEMMA RetryIsVisible ==
  ASSUME TypeOK, FailureIsVisible, NEW w \in Workers, RetryOutbox(w)
  PROVE  FailureIsVisible'
<1>1. PICK e \in Events : worker[w].cur = e
  BY DEF TypeOK, WorkerStates
<1>2. CASE UNCHANGED <<use, outbox>>
  BY <1>2 DEF FailureIsVisible
<1>3. CASE /\ outbox[e].attempts >= MaxAttempts
           /\ SettleUse(worker[w].cur, "FAILED_FINAL") /\ Close(worker[w].cur, "DEAD_LETTER")
  <2>1. SettleUse(e, "FAILED_FINAL") /\ Close(e, "DEAD_LETTER")
    BY <1>1, <1>3 DEF SettleUse, Close
  <2> QED BY <1>3, <2>1, ClosedVisibly
<1>4. CASE /\ outbox[e].state = "LEASED" /\ UNCHANGED use
           /\ \A f \in Events \ {e} : outbox'[f] = outbox[f]
  BY <1>4 DEF FailureIsVisible
<1>5. \/ UNCHANGED <<use, outbox>>
      \/ /\ outbox[e].attempts >= MaxAttempts
         /\ SettleUse(worker[w].cur, "FAILED_FINAL") /\ Close(worker[w].cur, "DEAD_LETTER")
      \/ /\ outbox[e].state = "LEASED" /\ UNCHANGED use
         /\ outbox' = [outbox EXCEPT ![worker[w].cur] =
                         [@ EXCEPT !.state = "READY", !.lease = "none", !.due = FALSE]]
  BY <1>1 DEF RetryOutbox
<1> QED BY <1>1, <1>2, <1>3, <1>4, <1>5 DEF TypeOK

LEMMA FailureStep ==
  ASSUME TypeOK, FailureInv, [Next]_vars
  PROVE  FailureInv'
<1>1. ASSUME UNCHANGED <<use, worker>>,
             \A e \in Events : /\ outbox'[e].state = outbox[e].state
                               /\ outbox'[e].attempts = outbox[e].attempts
      PROVE  FailureInv'
  BY <1>1 DEF FailureInv, FailureIsVisible
<1>2. ASSUME NEW e \in Events, LeaseLapses(e) \/ BackoffElapses(e)
      PROVE  FailureInv'
  <2>1. \A f \in Events : /\ outbox'[f].state = outbox[f].state
                          /\ outbox'[f].attempts = outbox[f].attempts
    BY <1>2 DEF LeaseLapses, BackoffElapses, TypeOK, OutboxRows
  <2> QED BY <1>1, <1>2, <2>1 DEF LeaseLapses, BackoffElapses
<1>3. ASSUME NEW e \in Events, Accept(e)
      PROVE  FailureInv'
  <2>1. use'[e] # "FAILED_FINAL"
        /\ \A f \in Events \ {e} : use'[f] = use[f] /\ outbox'[f] = outbox[f]
    BY <1>3 DEF Accept, TypeOK
  <2> QED BY <1>3, <2>1 DEF Accept, FailureInv, FailureIsVisible
<1>4. CASE EraseRun
  <2>1. \A f \in Events : use'[f] # "FAILED_FINAL"
    BY <1>4 DEF EraseRun
  <2> QED BY <1>4, <2>1 DEF EraseRun, FailureInv, FailureIsVisible
<1>5. ASSUME NEW w \in Workers, GiveUp(w)
      PROVE  FailureInv'
  <2>1. worker[w].cur \in Events
    BY DEF TypeOK, WorkerStates
  <2> QED BY <1>5, <2>1, AnswerOfConflict
<1>6. ASSUME NEW w \in Workers, NEW S \in SUBSET Events, Claim(w, S)
      PROVE  FailureInv'
  <2> DEFINE s == [worker[w] EXCEPT !.pc = "deliver", !.batch = S]
  <2>1. worker[w] \in WorkerStates /\ worker' = [worker EXCEPT ![w] = s]
    BY <1>6 DEF Claim, TypeOK
  <2>2. s.pc = "deliver"
    BY <2>1 DEF WorkerStates
  <2> HIDE DEF s
  <2>3. \A e \in S : use[e] # "FAILED_FINAL"
    BY <1>6 DEF Claim, Claimable, FailureInv, FailureIsVisible
  <2>4. FailureIsVisible'
    BY <1>6, <2>3 DEF Claim, FailureInv, FailureIsVisible
  <2> QED BY <2>1, <2>2, <2>4 DEF FailureInv, TypeOK
<1>7. ASSUME NEW w \in Workers, NEW e \in Events, Send(w, e)
      PROVE  FailureInv'
  <2> DEFINE s == [worker[w] EXCEPT !.pc = "waiting", !.cur = e]
  <2>1. worker[w] \in WorkerStates /\ worker' = [worker EXCEPT ![w] = s]
    BY <1>7 DEF Send, TypeOK
  <2>2. s.pc = "waiting"
    BY <2>1 DEF WorkerStates
  <2> HIDE DEF s
  <2> QED BY <1>7, <2>1, <2>2 DEF Send, FailureInv, FailureIsVisible, TypeOK
<1>8. ASSUME NEW w \in Workers, CompleteOutboxSuccess(w) \/ FailOutbox(w) \/ RetryOutbox(w)
      PROVE  FailureInv'
  <2>1. FailureIsVisible'
    BY <1>8, SuccessIsNoFailure, FailIsVisible, RetryIsVisible DEF FailureInv
  <2> QED
    BY <1>8, <2>1, LoopOfFailures DEF CompleteOutboxSuccess, FailOutbox, RetryOutbox
<1>9. ASSUME NEW w \in Workers, Crash(w)
      PROVE  FailureInv'
  BY <1>9, LoopOfFailures DEF Crash, FailureInv, FailureIsVisible
<1>10. CASE FenceActions \/ UNCHANGED vars
  BY <1>1, <1>10 DEF FenceActions, vars
<1> QED
  BY <1>2, <1>3, <1>4, <1>5, <1>6, <1>7, <1>8, <1>9, <1>10, AnswerOfConflict
     DEF Next, Network, WorkerStep

\* A use fails for good only with its event dead-lettered, and only on a conflict
\* or after MaxAttempts claims, however the workers share and lose them.
THEOREM FailuresAreVisible == Spec => []FailureIsVisible
<1>1. Init => FailureInv
  BY DEF Init, FailureInv, FailureIsVisible
<1>2. IInv /\ FailureInv /\ [Next]_vars => FailureInv'
  BY FailureStep DEF IInv
<1>3. FailureInv => FailureIsVisible
  BY DEF FailureInv
<1> QED
  BY <1>1, <1>2, <1>3, Invariance, PTL DEF Spec

-----------------------------------------------------------------------------
(* The workers and the destination implement EffectOnce.                   *)

Committed == {e \in Events : effects[e] = 1}

AbstractVars == <<use, Committed, fenced, erased>>

LEMMA CommitRefines ==
  ASSUME IInv, DeliveryInv, NEW w \in Workers, NEW e \in Events, HandleRequest(w, e)
  PROVE  Abstract!Commit(e) \/ UNCHANGED AbstractVars
<1>1. CASE Reply(e) = "SUCCESS" /\ ~action[e]
  <2>1. ~fenced /\ use[e] # "UNSEEN" /\ effects[e] # 1 /\ effects[e] \in {0, 1}
    BY <1>1 DEF Reply, HandleRequest, DeliveryInv, OnlyAccepted, IInv, DestinationInv
  <2>2. use[e] # "DELETED" /\ use[e] # "SUCCEEDED"
    BY <2>1 DEF DeliveryInv, RowsFollowUses, IInv, DestinationInv, SuccessInv,
                SuccessHasEffect
  <2>3. use[e] \in {"ACCEPTED_PENDING_ACTION", "FAILED_FINAL"}
    BY <2>1, <2>2 DEF IInv, TypeOK, UseStates
  <2>4. effects' = [effects EXCEPT ![e] = @ + 1] /\ UNCHANGED <<use, fenced, erased>>
    BY <1>1 DEF HandleRequest
  <2>5. effects'[e] = 1 /\ \A f \in Events \ {e} : effects'[f] = effects[f]
    BY <2>1, <2>4 DEF IInv, TypeOK
  <2>6. Committed' = Committed \cup {e} /\ e \notin Committed
    BY <2>1, <2>5 DEF Committed
  <2> QED
    BY <2>1, <2>3, <2>4, <2>6 DEF Abstract!Commit, Committed
<1>2. CASE ~(Reply(e) = "SUCCESS" /\ ~action[e])
  BY <1>2 DEF HandleRequest, AbstractVars, Committed
<1> QED
  BY <1>1, <1>2

LEMMA EndRefines ==
  ASSUME IInv, NEW w \in Workers,
         CompleteOutboxSuccess(w) \/ FailOutbox(w) \/ RetryOutbox(w)
  PROVE  \/ \E e \in Events, status \in Terminal : Abstract!Settle(e, status)
         \/ UNCHANGED AbstractVars
<1>1. PICK e \in Events : worker[w].cur = e
  BY DEF IInv, TypeOK, WorkerStates
<1>2. UNCHANGED <<fenced, erased, effects>>
  BY DEF CompleteOutboxSuccess, FailOutbox, RetryOutbox
<1>3. UNCHANGED Committed
  BY <1>2 DEF Committed
<1>4. ASSUME NEW status \in Terminal, SettleUse(worker[w].cur, status),
             status = "SUCCEEDED" => effects[worker[w].cur] = 1
      PROVE  Abstract!Settle(e, status) \/ UNCHANGED AbstractVars
  <2>1. CASE use[e] = "ACCEPTED_PENDING_ACTION"
    <3>1. use' = [use EXCEPT ![e] = status]
      BY <1>1, <1>4, <2>1 DEF SettleUse
    <3>2. status = "SUCCEEDED" => e \in Committed
      BY <1>1, <1>4 DEF Committed
    <3> QED
      BY <1>2, <1>3, <2>1, <3>1, <3>2 DEF Abstract!Settle, Committed
  <2>2. CASE use[e] # "ACCEPTED_PENDING_ACTION"
    <3>1. use' = use
      BY <1>1, <1>4, <2>2 DEF SettleUse, IInv, TypeOK
    <3> QED
      BY <1>2, <1>3, <3>1 DEF AbstractVars
  <2> QED
    BY <2>1, <2>2
<1>5. CASE UNCHANGED use
  BY <1>2, <1>3, <1>5 DEF AbstractVars
<1>6. CASE CompleteOutboxSuccess(w)
  <2>1. effects[worker[w].cur] = 1
    BY <1>6 DEF CompleteOutboxSuccess, Settles, IInv, SuccessInv
  <2>2. SettleUse(worker[w].cur, "SUCCEEDED") \/ UNCHANGED use
    BY <1>6 DEF CompleteOutboxSuccess
  <2> QED
    BY <1>4, <1>5, <2>1, <2>2 DEF Terminal
<1>7. CASE FailOutbox(w) \/ RetryOutbox(w)
  <2>1. SettleUse(worker[w].cur, "FAILED_FINAL") \/ UNCHANGED use
    BY <1>7 DEF FailOutbox, RetryOutbox
  <2> QED
    BY <1>4, <1>5, <2>1 DEF Terminal
<1> QED
  BY <1>6, <1>7

LEMMA NextRefines ==
  IInv /\ DeliveryInv /\ [Next]_vars => [Abstract!Next]_AbstractVars
<1> SUFFICES ASSUME IInv, DeliveryInv, [Next]_vars
             PROVE  Abstract!Next \/ UNCHANGED AbstractVars
  OBVIOUS
<1> USE DEF Abstract!Next
<1>1. CASE UNCHANGED <<use, fenced, erased, effects>>
  BY <1>1 DEF AbstractVars, Committed
<1>2. ASSUME NEW e \in Events, Accept(e)
      PROVE  Abstract!Accept(e)
  BY <1>2 DEF Accept, Abstract!Accept
<1>3. CASE FenceActions
  <2>1. Committed' = Committed
    BY <1>3 DEF FenceActions, Committed
  <2>2. CASE fenced
    BY <1>3, <2>1, <2>2 DEF FenceActions, AbstractVars, IInv, TypeOK
  <2>3. CASE ~fenced
    BY <1>3, <2>1, <2>3 DEF FenceActions, Abstract!Fence, Committed
  <2> QED
    BY <2>2, <2>3
<1>4. CASE EraseRun
  BY <1>4 DEF EraseRun, Abstract!Erase
<1>5. ASSUME NEW w \in Workers, NEW e \in Events, HandleRequest(w, e)
      PROVE  Abstract!Next \/ UNCHANGED AbstractVars
  BY <1>5, CommitRefines
<1>6. ASSUME NEW w \in Workers, WorkerStep(w)
      PROVE  Abstract!Next \/ UNCHANGED AbstractVars
  <2>1. CASE CompleteOutboxSuccess(w) \/ FailOutbox(w) \/ RetryOutbox(w)
    BY <2>1, EndRefines DEF Terminal
  <2>2. CASE \/ \E S \in SUBSET Events : Claim(w, S)
             \/ \E e \in Events : Send(w, e)
    BY <1>1, <2>2 DEF Claim, Send
  <2> QED
    BY <1>6, <2>1, <2>2 DEF WorkerStep
<1> QED
  BY <1>1, <1>2, <1>3, <1>4, <1>5, <1>6
     DEF Next, Network, LeaseLapses, BackoffElapses, DropRequest, GiveUp, Crash, vars

\* The leased outbox, its workers, the network and the idempotent destination,
\* with crashes, late answers and the reset, are the transitions of EffectOnce.
THEOREM Implementation == Spec => ImplementsEffectOnce
<1>1. Init => Abstract!Init
  BY DEF Init, Abstract!Init
<1>2. IInv /\ DeliveryInv /\ [Next]_vars => [Abstract!Next]_(Abstract!vars)
  BY NextRefines DEF AbstractVars, Committed, Abstract!vars
<1> QED
  BY <1>1, <1>2, DeliveryInvariance, PTL
     DEF Spec, ImplementsEffectOnce, Abstract!Spec
-----------------------------------------------------------------------------
(* One worker process: no other one takes its rows over.                   *)

OneWorker == \A v, w \in Workers : v = w

\* The rows of the batch a worker works on stay leased, unless the reset deletes
\* them.  With a second worker this is lost when a lease lapses.
HeldIsLeased ==
  \A w \in Workers, e \in Events :
    e \in worker[w].batch => outbox[e].state \in {"LEASED", "DELETED"}

OneInv == HeldIsLeased /\ CompletionDelivers

LEMMA HeldSubset ==
  ASSUME OneInv, UNCHANGED use,
         \A w \in Workers : worker'[w].batch \subseteq worker[w].batch,
         \A e \in Events : outbox'[e].state = outbox[e].state
  PROVE  OneInv'
BY DEF OneInv, HeldIsLeased, CompletionDelivers

LEMMA AnswerHolds ==
  ASSUME TypeOK, NEW w \in Workers, NEW e \in Events,
         HandleRequest(w, e) \/ DropRequest(w, e) \/ GiveUp(w)
  PROVE  \A v \in Workers : worker'[v].batch \subseteq worker[v].batch
<1>1. ASSUME NEW result,
             worker' = [worker EXCEPT ![w].pc = "settle", ![w].result = result]
      PROVE  \A v \in Workers : worker'[v].batch \subseteq worker[v].batch
  <2> DEFINE s == [worker[w] EXCEPT !.pc = "settle", !.result = result]
  <2>1. worker[w] \in WorkerStates
    BY DEF TypeOK
  <2>2. s.batch = worker[w].batch
    BY <2>1 DEF WorkerStates
  <2>3. worker' = [worker EXCEPT ![w] = s]
    BY <1>1
  <2> HIDE DEF s
  <2> QED BY <2>2, <2>3 DEF TypeOK
<1>2. CASE worker' = worker
  BY <1>2
<1> QED BY <1>1, <1>2 DEF HandleRequest, DropRequest, GiveUp

LEMMA ClaimHolds ==
  ASSUME TypeOK, OneInv, OneWorker, NEW w \in Workers, NEW S \in SUBSET Events, Claim(w, S)
  PROVE  OneInv'
<1>1. worker[w] \in WorkerStates
  BY DEF TypeOK
<1>2. worker'[w].batch = S
  BY <1>1 DEF Claim, TypeOK, WorkerStates
<1>3. \A e \in S : outbox'[e].state = "LEASED" /\ outbox[e].state # "DELIVERED"
  BY DEF Claim, Claimable, TypeOK, OutboxRows
<1>4. \A e \in Events \ S : outbox'[e] = outbox[e]
  BY DEF Claim
<1>5. HeldIsLeased'
  BY <1>2, <1>3 DEF HeldIsLeased, OneWorker
<1>6. CompletionDelivers'
  BY <1>3, <1>4 DEF OneInv, CompletionDelivers, Claim
<1> QED BY <1>5, <1>6 DEF OneInv

LEMMA SendHolds ==
  ASSUME TypeOK, NEW w \in Workers, NEW e \in Events, Send(w, e)
  PROVE  \A v \in Workers : worker'[v].batch \subseteq worker[v].batch
<1> DEFINE s == [worker[w] EXCEPT !.pc = "waiting", !.cur = e]
<1>1. worker[w] \in WorkerStates
  BY DEF TypeOK
<1>2. s.batch = worker[w].batch
  BY <1>1 DEF WorkerStates
<1>3. worker' = [worker EXCEPT ![w] = s]
  BY DEF Send
<1> HIDE DEF s
<1> QED BY <1>2, <1>3 DEF TypeOK

LEMMA CrashHolds ==
  ASSUME TypeOK, OneInv, NEW w \in Workers, Crash(w)
  PROVE  OneInv'
<1>1. PICK s \in WorkerStates : worker' = [worker EXCEPT ![w] = s]
                                /\ s.batch \subseteq worker[w].batch
  BY LoopState DEF Crash
<1>2. \A v \in Workers : worker'[v].batch \subseteq worker[v].batch
  BY <1>1 DEF TypeOK
<1> QED BY <1>2, HeldSubset DEF Crash

\* What the worker reports is of a row it still holds.
LEMMA TransactionHolds ==
  ASSUME TypeOK, DeliveryInv, OneInv, OneWorker, NEW w \in Workers,
         CompleteOutboxSuccess(w) \/ FailOutbox(w) \/ RetryOutbox(w)
  PROVE  OneInv'
<1>1. PICK e \in Events : worker[w].cur = e
  BY DEF TypeOK, WorkerStates
<1>2. Ends(e)
  BY <1>1, TransactionsEnd
<1>3. e \in worker[w].batch
  BY <1>1 DEF CompleteOutboxSuccess, FailOutbox, RetryOutbox, Settles,
              DeliveryInv, OnlyAccepted
<1>4. outbox[e].state \in {"LEASED", "DELETED"} /\ use[e] # "SUCCEEDED"
  BY <1>3 DEF OneInv, HeldIsLeased, CompletionDelivers
<1>5. use[e] = "ACCEPTED_PENDING_ACTION" => outbox[e].state = "LEASED"
  BY <1>4 DEF DeliveryInv, RowsFollowUses
<1>6. PICK s \in WorkerStates :
        /\ worker' = [worker EXCEPT ![w] = s]
        /\ s.batch \subseteq worker[w].batch \ {e} \/ s.batch = {}
  BY <1>1, LoopState DEF CompleteOutboxSuccess, FailOutbox, RetryOutbox
<1>7. \A v \in Workers : e \notin worker'[v].batch
                         /\ worker'[v].batch \subseteq worker[v].batch
  BY <1>6 DEF OneWorker, TypeOK
<1>8. \A f \in Events \ {e} : use'[f] = use[f] /\ outbox'[f].state = outbox[f].state
  BY <1>2 DEF Ends, Close, TypeOK
<1>9. use'[e] = "SUCCEEDED" => outbox'[e].state = "DELIVERED"
  <2>1. outbox[e] \in OutboxRows /\ outbox \in [Events -> OutboxRows]
        /\ use \in [Events -> UseStates]
    BY DEF TypeOK
  <2>2. Close(e, "DELIVERED") => outbox'[e].state = "DELIVERED"
    BY <2>1 DEF Close, OutboxRows
  <2> QED BY <1>2, <1>4, <1>5, <2>1, <2>2 DEF Ends
<1> QED BY <1>7, <1>8, <1>9 DEF OneInv, HeldIsLeased, CompletionDelivers

LEMMA OneStep ==
  ASSUME OneWorker, TypeOK, DeliveryInv, OneInv, [Next]_vars
  PROVE  OneInv'
<1>1. ASSUME UNCHANGED <<use, worker>>,
             \A e \in Events : outbox'[e].state = outbox[e].state
      PROVE  OneInv'
  BY <1>1, HeldSubset
<1>2. ASSUME NEW e \in Events, LeaseLapses(e) \/ BackoffElapses(e)
      PROVE  OneInv'
  <2>1. \A f \in Events : outbox'[f].state = outbox[f].state
    BY <1>2 DEF LeaseLapses, BackoffElapses, TypeOK, OutboxRows
  <2> QED BY <1>1, <1>2, <2>1 DEF LeaseLapses, BackoffElapses
<1>3. ASSUME NEW e \in Events, Accept(e)
      PROVE  OneInv'
  <2>1. use'[e] # "SUCCEEDED" /\ outbox[e].state = "NONE"
    BY <1>3 DEF Accept, TypeOK, DeliveryInv, RowsFollowUses
  <2>2. \A f \in Events \ {e} : use'[f] = use[f] /\ outbox'[f] = outbox[f]
    BY <1>3 DEF Accept, TypeOK
  <2> QED BY <1>3, <2>1, <2>2 DEF Accept, OneInv, HeldIsLeased, CompletionDelivers
<1>4. CASE EraseRun
  <2>1. \A f \in Events : use'[f] # "SUCCEEDED"
    BY <1>4 DEF EraseRun
  <2>2. \A f \in Events : outbox'[f].state \in {outbox[f].state, "DELETED"}
    BY <1>4 DEF EraseRun, TypeOK, OutboxRows
  <2> QED BY <1>4, <2>1, <2>2 DEF EraseRun, OneInv, HeldIsLeased, CompletionDelivers
<1>5. ASSUME NEW w \in Workers, NEW e \in Events,
             HandleRequest(w, e) \/ DropRequest(w, e) \/ GiveUp(w)
      PROVE  OneInv'
  BY <1>5, AnswerHolds, HeldSubset DEF HandleRequest, DropRequest, GiveUp
<1>6. ASSUME NEW w \in Workers, GiveUp(w)
      PROVE  OneInv'
  <2>1. worker[w].cur \in Events
    BY DEF TypeOK, WorkerStates
  <2> QED BY <1>5, <1>6, <2>1
<1>7. ASSUME NEW w \in Workers, WorkerStep(w)
      PROVE  OneInv'
  <2>1. ASSUME NEW e \in Events, Send(w, e) PROVE OneInv'
    BY <2>1, SendHolds, HeldSubset DEF Send
  <2> QED BY <1>7, <2>1, ClaimHolds, TransactionHolds DEF WorkerStep
<1>8. CASE FenceActions \/ UNCHANGED vars
  BY <1>1, <1>8 DEF FenceActions, vars
<1> QED
  BY <1>2, <1>3, <1>4, <1>5, <1>6, <1>7, <1>8, CrashHolds DEF Next, Network

\* With one worker process a completion marks the use SUCCEEDED and its event
\* DELIVERED together, as the rules say: it takes a second worker, claiming over
\* a lapsed lease, to leave a delivered use's event READY or DEAD_LETTER.
THEOREM OneWorkerDelivers == OneWorker => (Spec => []CompletionDelivers)
<1> SUFFICES ASSUME OneWorker PROVE Spec => []CompletionDelivers
  OBVIOUS
<1>1. Init => OneInv
  BY DEF Init, OneInv, HeldIsLeased, CompletionDelivers
<1>2. IInv /\ DeliveryInv /\ OneInv /\ [Next]_vars => OneInv'
  BY OneStep DEF IInv
<1>3. OneInv => CompletionDelivers
  BY DEF OneInv
<1> QED
  BY <1>1, <1>2, <1>3, DeliveryInvariance, PTL DEF Spec
=============================================================================
