-------------------------------- MODULE Demo --------------------------------
(***************************************************************************)
(* The demo controls of the API: the lost-acknowledgement fault and the    *)
(* reset, against presentations and workers that go on.                    *)
(*                                                                         *)
(* A transaction of one statement is one action.  A transaction that keeps *)
(* a lock while it waits for another one is several: the reset locks the   *)
(* run and then the rows it deletes, while a completion, an armed fault    *)
(* and its consumption lock their row and then the run, which their log    *)
(* entry or target refers to by a foreign key.  PostgreSQL ends a cycle of *)
(* waits by aborting one of the transactions in it.                        *)
(***************************************************************************)
EXTENDS Integers, FiniteSets

CONSTANTS
  Ops,        \* operations of the wallet
  NoOp,       \* the target of a fault that has none
  Requests,   \* presentation requests, each of one operation
  Resetters,  \* API processes: one reset is in flight in each
  Nobody,     \* holder of a lock that is free
  MaxRun,     \* bound: demo runs
  MaxArms     \* bound: faults armed

ASSUME DemoAssumption ==
  /\ Ops \cap {NoOp, "run", "fault"} = {}
  /\ Requests \cap Resetters = {}
  /\ (Requests \cup Resetters) \cap {Nobody, "arm", "worker"} = {}
  /\ Nobody \notin {"arm", "worker"}
  /\ MaxRun \in Nat \ {0} /\ MaxArms \in Nat

VARIABLES
  run,      \* the active run
  fenced,   \* runs with a tombstone in the Action Simulator
  use,      \* use_records.status by operation; "ERASED" after the reset of its run
  delivered, \* operations whose outbox event is DELIVERED
  fault,    \* the row of demo_faults
  lock,     \* holders of the locks on the run, on the fault, on each use
  request,  \* the presentation requests
  reset,    \* the reset in flight in each process
  arming,   \* the request that arms the fault
  arms      \* history: faults armed

vars == <<run, fenced, use, delivered, fault, lock, request, reset, arming, arms>>
uses == <<use, delivered>>
verifier == <<run, uses, fault, lock>>
controls == <<reset, arming, arms, fenced>>

NoFault == [enabled |-> FALSE, run |-> 0, op |-> NoOp]
Armed(op) == fault.enabled /\ fault.op = op

Init ==
  /\ run = 1 /\ fenced = {}
  /\ use = [o \in Ops |-> "NONE"] /\ delivered = {}
  /\ fault = NoFault
  /\ lock = [x \in {"run", "fault"} \cup Ops |-> Nobody]
  /\ request = [r \in Requests |-> [pc |-> "idle", op |-> NoOp, arm |-> 0, late |-> FALSE]]
  /\ reset = [s \in Resetters |-> [pc |-> "idle", run |-> 0]]
  /\ arming = [pc |-> "idle", run |-> 0, op |-> NoOp]
  /\ arms = 0

Free(x) == lock[x] = Nobody

\* A reset takes each row at its turn and keeps it, so that whoever it waited for
\* and whom PostgreSQL aborted cannot have the row back.  A row that the reset
\* has not reached may as well have been locked before it took the run.
WaitsForUses(s) == reset[s].pc = "locked"
WaitsForFault(s) == reset[s].pc = "erasing" /\ fault.run = run
FaultIsFree == Free("fault") /\ \A s \in Resetters : ~WaitsForFault(s)

Take(who, xs) == lock' = [x \in DOMAIN lock |-> IF x \in xs THEN who ELSE lock[x]]
Release(who) == [x \in DOMAIN lock |-> IF lock[x] = who THEN Nobody ELSE lock[x]]

-----------------------------------------------------------------------------
(* Presentations: what happens to the acknowledgement of an accepted use.  *)

To(r, pc) == request' = [request EXCEPT ![r].pc = pc]

\* Of a request that ends in an error the history is forgotten.
Fails(r) == request' = [request EXCEPT ![r].pc = "ERROR", ![r].arm = 0, ![r].late = FALSE]

\* acceptPresentation needs the lock on the run.
Accept(r, o) ==
  /\ request[r].pc = "idle" /\ use[o] = "NONE" /\ Free("run")
  /\ use' = [use EXCEPT ![o] = "PENDING"]
  /\ request' = [request EXCEPT ![r].pc = "accepted", ![r].op = o]
  /\ UNCHANGED <<run, delivered, fault, lock, controls>>

\* Mutant: a replay finds the result still pending, and disarms the fault.
Replay_Cancels(r, o) ==
  /\ request[r].pc = "idle" /\ use[o] \in {"PENDING", "SUCCEEDED", "FAILED"}
  /\ request' = [request EXCEPT ![r].pc = "OK", ![r].op = o]
  /\ fault' = IF Armed(o) /\ Free("fault") THEN NoFault ELSE fault
  /\ UNCHANGED <<run, uses, lock, controls>>

\* A replay is acknowledged at once, whatever the fault.
Replay(r, o) ==
  /\ request[r].pc = "idle" /\ use[o] \in {"PENDING", "SUCCEEDED", "FAILED"}
  /\ request' = [request EXCEPT ![r].pc = "OK", ![r].op = o]
  /\ UNCHANGED <<verifier, controls>>

\* isDropNextAckArmed: the fault must be one of the active run.
CheckArmed(r) ==
  /\ request[r].pc = "accepted"
  /\ IF Armed(request[r].op) /\ fault.run = run
       THEN request' = [request EXCEPT ![r].pc = "waiting", ![r].arm = arms]
       ELSE To(r, "OK")
  /\ UNCHANGED <<verifier, controls>>

\* A poll of waitForOutcome that ends the wait.
Poll(r) ==
  /\ request[r].pc = "waiting" /\ use[request[r].op] # "PENDING"
  /\ To(r, IF use[request[r].op] = "SUCCEEDED" THEN "durable" ELSE "refused")
  /\ UNCHANGED <<verifier, controls>>

\* Mutant: the wait has no deadline.
Timeout_Never(r) == FALSE /\ UNCHANGED vars

\* The deadline passes while the use is pending.
Timeout(r) ==
  /\ request[r].pc = "waiting" /\ use[request[r].op] = "PENDING"
  /\ request' = [request EXCEPT ![r].pc = "refused", ![r].late = TRUE]
  /\ UNCHANGED <<verifier, controls>>

\* A poll fails: the error is passed on after the cancellation.
PollFails(r) ==
  /\ request[r].pc = "waiting"
  /\ To(r, "broken")
  /\ UNCHANGED <<verifier, controls>>

\* consumeDropNextAckAfterSuccess locks the fault, if it is still armed.
LockFault(r) ==
  /\ request[r].pc = "durable"
  /\ IF Armed(request[r].op)
       THEN FaultIsFree /\ Take(r, {"fault"}) /\ To(r, "consuming")
       ELSE To(r, "refused") /\ UNCHANGED lock
  /\ UNCHANGED <<run, uses, fault, controls>>

\* Mutant: the consumption leaves the fault enabled.
Consume_KeepsFault(r) ==
  /\ request[r].pc = "consuming" /\ Free("run")
  /\ To(r, "DROPPED")
  /\ lock' = Release(r)
  /\ UNCHANGED <<run, uses, fault, controls>>

\* A use whose result is durable: it succeeded, its event is delivered, and both
\* are of the run of the fault.
Durable(o) == use[o] = "SUCCEEDED" /\ o \in delivered /\ fault.run = run

\* It checks that the result is durable, disables the fault and logs ACK_DROPPED,
\* for which it needs the run; or it refuses.
Consume(r) ==
  LET durable == Durable(request[r].op) IN
  /\ request[r].pc = "consuming"
  /\ durable => Free("run")
  /\ fault' = IF durable THEN [fault EXCEPT !.enabled = FALSE] ELSE fault
  /\ To(r, IF durable THEN "DROPPED" ELSE "refused")
  /\ lock' = Release(r)
  /\ UNCHANGED <<run, uses, controls>>

\* Mutant: cancels the fault of any operation.
Cancelled_Any(op) == NoFault

\* cancelDropNextAck is about one operation.
Cancelled(op) == IF Armed(op) THEN NoFault ELSE fault

Cancel(r) ==
  /\ request[r].pc \in {"refused", "broken"}
  /\ Armed(request[r].op) => Free("fault")
  /\ fault' = Cancelled(request[r].op)
  /\ IF request[r].pc = "refused" THEN To(r, "UNAVAILABLE") ELSE Fails(r)
  /\ UNCHANGED <<run, uses, lock, controls>>

Answers == {"OK", "DROPPED", "UNAVAILABLE", "ERROR"}

\* The API dies: its transaction is rolled back and nobody answers.
Crash(r) ==
  /\ request[r].pc \notin Answers \cup {"idle"}
  /\ Fails(r)
  /\ lock' = Release(r)
  /\ UNCHANGED <<run, uses, fault, controls>>

-----------------------------------------------------------------------------
(* The worker: completeOutboxSuccess and failOutbox.                       *)

LockUse(o) ==
  /\ use[o] = "PENDING" /\ Free(o) /\ \A s \in Resetters : ~WaitsForUses(s)
  /\ Take("worker", {o})
  /\ UNCHANGED <<run, uses, fault, request, controls>>

\* A success delivers the event only while its row is LEASED, and does not look
\* whether it did: another worker may have put the event back to READY.
Settle(o, status) ==
  /\ lock[o] = "worker" /\ Free("run")
  /\ use' = [use EXCEPT ![o] = status]
  /\ \/ UNCHANGED delivered
     \/ status = "SUCCEEDED" /\ delivered' = delivered \cup {o}
  /\ lock' = [lock EXCEPT ![o] = Nobody]
  /\ UNCHANGED <<run, fault, request, controls>>

-----------------------------------------------------------------------------
(* The fault is armed: the row is locked, then the run it refers to.       *)

StartArm(o) ==
  /\ arming.pc = "idle" /\ arms < MaxArms /\ FaultIsFree
  /\ arming' = [pc |-> "targeting", run |-> run, op |-> o]
  /\ Take("arm", {"fault"})
  /\ UNCHANGED <<run, uses, fault, request, reset, arms, fenced>>

\* Mutant: the fault has no foreign key to the run.
FinishArm_AnyRun ==
  /\ arming.pc = "targeting"
  /\ fault' = [enabled |-> TRUE, run |-> arming.run, op |-> arming.op]
  /\ arms' = arms + 1
  /\ lock' = Release("arm")
  /\ arming' = [pc |-> "idle", run |-> 0, op |-> NoOp]
  /\ UNCHANGED <<run, uses, request, reset, fenced>>

\* The foreign key fails when the run is gone.
FinishArm ==
  /\ arming.pc = "targeting" /\ Free("run")
  /\ fault' = IF arming.run = run THEN [enabled |-> TRUE, run |-> run, op |-> arming.op]
              ELSE fault
  /\ arms' = IF arming.run = run THEN arms + 1 ELSE arms
  /\ lock' = Release("arm")
  /\ arming' = [pc |-> "idle", run |-> 0, op |-> NoOp]
  /\ UNCHANGED <<run, uses, request, reset, fenced>>

-----------------------------------------------------------------------------
(* The reset: read the active run, fence the destination, erase the run.   *)

Reset(s, pc) == reset' = [reset EXCEPT ![s].pc = pc]
Done(s) == reset' = [reset EXCEPT ![s] = [pc |-> "idle", run |-> 0]]

StartReset(s) ==
  /\ reset[s].pc = "idle" /\ run < MaxRun
  /\ reset' = [reset EXCEPT ![s] = [pc |-> "fencing", run |-> run]]
  /\ UNCHANGED <<verifier, request, arming, arms, fenced>>

Fence(s) ==
  /\ reset[s].pc = "fencing"
  /\ fenced' = fenced \cup {reset[s].run}
  /\ Reset(s, "fenced")
  /\ UNCHANGED <<verifier, request, arming, arms>>

\* Mutant: the failed reset stays the one in flight.
FenceFails_InFlight(s, reached) ==
  /\ reset[s].pc = "fencing"
  /\ fenced' = IF reached THEN fenced \cup {reset[s].run} ELSE fenced
  /\ Reset(s, "failed")
  /\ UNCHANGED <<verifier, request, arming, arms>>

\* Mutant: the reset goes on without the destination.
FenceFails_GoesOn(s, reached) ==
  /\ reset[s].pc = "fencing"
  /\ fenced' = IF reached THEN fenced \cup {reset[s].run} ELSE fenced
  /\ Reset(s, "fenced")
  /\ UNCHANGED <<verifier, request, arming, arms>>

\* No answer within two seconds, whether or not the call has had its effect.
FenceFails(s, reached) ==
  /\ reset[s].pc = "fencing"
  /\ fenced' = IF reached THEN fenced \cup {reset[s].run} ELSE fenced
  /\ Done(s)
  /\ UNCHANGED <<verifier, request, arming, arms>>

\* The row of the run that was fenced, or DemoRunResetConflictError.
LockRun(s) ==
  /\ reset[s].pc = "fenced" /\ Free("run")
  /\ IF reset[s].run = run
       THEN Reset(s, "locked") /\ Take(s, {"run"})
       ELSE Done(s) /\ UNCHANGED lock
  /\ UNCHANGED <<run, uses, fault, request, arming, arms, fenced>>

\* The events and the uses are deleted, each of them once it is free.
LockUses(s) ==
  /\ WaitsForUses(s) /\ \A o \in Ops : Free(o)
  /\ Reset(s, "erasing") /\ Take(s, Ops)
  /\ UNCHANGED <<run, uses, fault, request, arming, arms, fenced>>

\* The fault of the run is deleted once it is free; then the new run begins.
Erase(s) ==
  /\ reset[s].pc = "erasing" /\ (fault.run = run => Free("fault"))
  /\ run' = run + 1
  /\ use' = [o \in Ops |-> IF use[o] = "NONE" THEN "NONE" ELSE "ERASED"]
  /\ delivered' = {}
  /\ fault' = IF fault.run = run THEN NoFault ELSE fault
  /\ lock' = Release(s) /\ Done(s)
  /\ UNCHANGED <<request, arming, arms, fenced>>

-----------------------------------------------------------------------------
(* Deadlocks: s holds the run and waits for a row whose holder waits for   *)
(* the run.  One of the two is aborted; an aborted completion is repeated  *)
(* when its lease has expired, an aborted request or reset is an error.    *)

AbortReset(s) ==
  /\ \/ WaitsForUses(s) /\ \E o \in Ops : lock[o] = "worker"
     \/ WaitsForFault(s) /\ ~Free("fault")
  /\ lock' = Release(s) /\ Done(s)
  /\ UNCHANGED <<run, uses, fault, request, arming, arms, fenced>>

AbortCompletion(s, o) ==
  /\ WaitsForUses(s) /\ lock[o] = "worker"
  /\ lock' = [lock EXCEPT ![o] = Nobody]
  /\ UNCHANGED <<run, uses, fault, request, controls>>

AbortConsume(s, r) ==
  /\ WaitsForFault(s) /\ lock["fault"] = r
  /\ Fails(r)
  /\ lock' = Release(r)
  /\ UNCHANGED <<run, uses, fault, controls>>

AbortArm(s) ==
  /\ WaitsForFault(s) /\ lock["fault"] = "arm"
  /\ arming' = [pc |-> "idle", run |-> 0, op |-> NoOp]
  /\ lock' = Release("arm")
  /\ UNCHANGED <<run, uses, fault, request, reset, arms, fenced>>

Abort(s) ==
  \/ AbortReset(s) \/ AbortArm(s)
  \/ \E o \in Ops : AbortCompletion(s, o)
  \/ \E r \in Requests : AbortConsume(s, r)

-----------------------------------------------------------------------------
Answering(r) ==
  \/ CheckArmed(r) \/ Poll(r) \/ Timeout(r) \/ LockFault(r) \/ Consume(r) \/ Cancel(r)

Resetting(s) == StartReset(s) \/ LockRun(s) \/ LockUses(s) \/ Erase(s) \/ Abort(s)

Arm == FinishArm \/ \E o \in Ops : StartArm(o)
Worker == \E o \in Ops : LockUse(o) \/ \E status \in {"SUCCEEDED", "FAILED"} : Settle(o, status)

Next ==
  \/ \E r \in Requests : \/ Answering(r) \/ PollFails(r) \/ Crash(r)
                         \/ \E o \in Ops : Accept(r, o) \/ Replay(r, o)
  \/ \E s \in Resetters : \/ Resetting(s) \/ Fence(s)
                          \/ \E reached \in BOOLEAN : FenceFails(s, reached)
  \/ Worker \/ Arm

Spec == Init /\ [][Next]_vars

\* Transactions end and requests go on; the worker may stop, though not within
\* a transaction.  Locks are granted in the order of the waits, so that whoever
\* waits gets the lock when its turn comes, however often (SF).  The reset is
\* asked for again when it fails, and the destination does not fail for ever.
FairSpec ==
  /\ Spec
  /\ \A r \in Requests : WF_vars(Answering(r))
  /\ \A s \in Resetters : WF_vars(Resetting(s))
  /\ SF_vars(\E s \in Resetters : Fence(s))
  /\ SF_vars(FinishArm)
  /\ SF_vars(\E r \in Requests : Consume(r))
  /\ SF_vars(\E o \in Ops, status \in {"SUCCEEDED", "FAILED"} : Settle(o, status))

-----------------------------------------------------------------------------
\* Type correctness, and who may hold which lock.
TypeOK ==
  /\ run \in 1..MaxRun /\ fenced \subseteq 1..MaxRun
  /\ use \in [Ops -> {"NONE", "PENDING", "SUCCEEDED", "FAILED", "ERASED"}]
  /\ delivered \subseteq Ops
  /\ fault \in [enabled : BOOLEAN, run : 0..MaxRun, op : Ops \cup {NoOp}]
  /\ lock \in [{"run", "fault"} \cup Ops ->
                Requests \cup Resetters \cup {"arm", "worker", Nobody}]
  /\ lock["run"] \in Resetters \cup {Nobody}
  /\ lock["fault"] \in Requests \cup {"arm", Nobody}
  /\ \A o \in Ops : lock[o] \in Resetters \cup {"worker", Nobody}
  /\ request \in [Requests ->
       [pc : {"idle", "accepted", "waiting", "durable", "refused", "broken", "consuming"} \cup Answers,
        op : Ops \cup {NoOp}, arm : 0..MaxArms, late : BOOLEAN]]
  /\ reset \in [Resetters -> [pc : {"idle", "fencing", "fenced", "locked", "erasing"}, run : 0..MaxRun]]
  /\ arming \in [pc : {"idle", "targeting"}, run : 0..MaxRun, op : Ops \cup {NoOp}]
  /\ arms \in 0..MaxArms
  /\ \A s \in Resetters : /\ lock["run"] = s <=> reset[s].pc \in {"locked", "erasing"}
                          /\ \A o \in Ops : lock[o] = s <=> reset[s].pc = "erasing"
  /\ \A r \in Requests : lock["fault"] = r <=> request[r].pc = "consuming"
  /\ lock["fault"] = "arm" <=> arming.pc = "targeting"

\* An erased run has its tombstone, however the resets of several API processes
\* and their failures interleave: what the verifier forgot cannot take effect
\* later (reset-demo.ts, resetDemoRun).
ErasedRunsAreFenced == 1..(run - 1) \subseteq fenced

\* A fault that is armed is one of the active run, though it is armed while
\* resets erase runs and delete faults.
FaultIsOfActiveRun == fault.enabled => fault.run = run

\* The request that waits to drop its acknowledgement keeps its fault: no replay,
\* no timeout of another request and no worker takes it away, only another
\* arming or a reset (fault-controller.ts, consumeAfterDurableResult).
WaiterKeepsFault ==
  \A r \in Requests :
    /\ request[r].pc \in {"waiting", "durable", "consuming"}
    /\ request[r].arm = arms /\ use[request[r].op] # "ERASED"
    => Armed(request[r].op)

\* An acknowledgement is withheld without having been dropped only after the
\* deadline, a final failure, a success that did not deliver its event, a reset,
\* or another arming.
UnavailableHasCause ==
  \A r \in Requests : request[r].pc = "UNAVAILABLE" =>
    \/ request[r].late \/ request[r].arm # arms
    \/ use[request[r].op] \in {"FAILED", "ERASED"}
    \/ use[request[r].op] = "SUCCEEDED" /\ request[r].op \notin delivered

\* The fault is one-shot: once its request was dropped or refused, it is not
\* armed unless somebody armed it again.
FaultIsSpent ==
  \A r \in Requests :
    request[r].pc \in {"DROPPED", "UNAVAILABLE"} /\ request[r].arm = arms
    => ~Armed(request[r].op)

\* Every accepted request is answered, and an answer is final, though the worker
\* may stop and resets and completions abort each other.
RequestsAreAnswered == <>[](\A r \in Requests : request[r].pc \in Answers \cup {"idle"})

\* A reset that is asked for again whenever it fails is done in the end.
ResetsSucceed == <>(run = MaxRun)
=============================================================================
