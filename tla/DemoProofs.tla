----------------------------- MODULE DemoProofs -----------------------------
(***************************************************************************)
(* Proofs about Demo, for every set of operations, of presentation         *)
(* requests and of API processes, and any number of runs and armings.      *)
(***************************************************************************)
EXTENDS Demo, TLAPS

USE DEF uses

Pcs == {"idle", "accepted", "waiting", "durable", "refused", "broken", "consuming"} \cup Answers
RequestRecords == [pc : Pcs, op : Ops \cup {NoOp}, arm : 0..MaxArms, late : BOOLEAN]
ResetRecords == [pc : {"idle", "fencing", "fenced", "locked", "erasing"}, run : 0..MaxRun]
ArmingRecords == [pc : {"idle", "targeting"}, run : 0..MaxRun, op : Ops \cup {NoOp}]
FaultRecords == [enabled : BOOLEAN, run : 0..MaxRun, op : Ops \cup {NoOp}]
UseStates == {"NONE", "PENDING", "SUCCEEDED", "FAILED", "ERASED"}
Locks == {"run", "fault"} \cup Ops
Holders == Requests \cup Resetters \cup {"arm", "worker", Nobody}

-----------------------------------------------------------------------------
(* Type correctness, in two parts: the values, with room for the arming    *)
(* that is under way, and who holds which lock.                            *)

DataOK ==
  /\ run \in 1..MaxRun /\ fenced \subseteq 1..MaxRun
  /\ use \in [Ops -> UseStates] /\ delivered \subseteq Ops
  /\ fault \in FaultRecords
  /\ request \in [Requests -> RequestRecords]
  /\ reset \in [Resetters -> ResetRecords]
  /\ arming \in ArmingRecords
  /\ arms \in 0..MaxArms
  /\ arming.pc = "targeting" => arms < MaxArms

LocksOK ==
  /\ lock \in [Locks -> Holders]
  /\ lock["run"] \in Resetters \cup {Nobody}
  /\ lock["fault"] \in Requests \cup {"arm", Nobody}
  /\ \A o \in Ops : lock[o] \in Resetters \cup {"worker", Nobody}
  /\ \A s \in Resetters : /\ lock["run"] = s <=> reset[s].pc \in {"locked", "erasing"}
                          /\ \A o \in Ops : lock[o] = s <=> reset[s].pc = "erasing"
  /\ \A r \in Requests : lock["fault"] = r <=> request[r].pc = "consuming"
  /\ lock["fault"] = "arm" <=> arming.pc = "targeting"

LEMMA TypeIsDataAndLocks == DataOK /\ LocksOK => TypeOK
BY DEF TypeOK, DataOK, LocksOK, Locks, Holders, Pcs, RequestRecords, ResetRecords,
       ArmingRecords, FaultRecords, UseStates

\* A reset in flight is of a run that is not the last; what it fenced has its
\* tombstone, and what it locked is the active run, which it alone erases.
ResetInv ==
  /\ \A s \in Resetters :
       /\ reset[s].pc # "idle" => reset[s].run \in 1..(MaxRun - 1)
       /\ reset[s].pc \in {"fenced", "locked", "erasing"} => reset[s].run \in fenced
       /\ reset[s].pc \in {"locked", "erasing"} => reset[s].run = run
  /\ ErasedRunsAreFenced
  /\ FaultIsOfActiveRun

\* The locks that Take and Release leave.
LEMMA TakeLocks ==
  ASSUME lock \in [Locks -> Holders], NEW who \in Holders, NEW xs \in SUBSET Locks,
         Take(who, xs)
  PROVE  /\ lock' \in [Locks -> Holders]
         /\ \A x \in xs : lock'[x] = who
         /\ \A x \in Locks \ xs : lock'[x] = lock[x]
BY DEF Take

LEMMA ReleasedLocks ==
  ASSUME lock \in [Locks -> Holders], NEW who
  PROVE  /\ Release(who) \in [Locks -> Holders]
         /\ \A x \in Locks : /\ lock[x] = who => Release(who)[x] = Nobody
                             /\ lock[x] # who => Release(who)[x] = lock[x]
BY DEF Release, Holders

LEMMA InitBase == Init => DataOK /\ LocksOK /\ ResetInv
<1> SUFFICES ASSUME Init PROVE DataOK /\ LocksOK /\ ResetInv
  OBVIOUS
<1> USE DemoAssumption DEF Init
<1>1. DataOK
  BY DEF DataOK, UseStates, FaultRecords, NoFault, RequestRecords, Pcs, ResetRecords, ArmingRecords
<1>2. LocksOK
  BY DEF LocksOK, Locks, Holders
<1>3. ResetInv
  BY DEF ResetInv, ErasedRunsAreFenced, FaultIsOfActiveRun, NoFault
<1> QED
  BY <1>1, <1>2, <1>3

-----------------------------------------------------------------------------
(* The steps of presentation requests.                                     *)

\* What To does to the requests.
LEMMA ToChangesOne ==
  ASSUME DataOK, NEW r \in Requests, NEW pc \in Pcs, To(r, pc)
  PROVE  /\ request' \in [Requests -> RequestRecords]
         /\ request'[r].pc = pc /\ request'[r].op = request[r].op
         /\ request'[r].arm = request[r].arm /\ request'[r].late = request[r].late
         /\ \A q \in Requests \ {r} : request'[q] = request[q]
<1>1. request'[r] = [request[r] EXCEPT !.pc = pc] /\ \A q \in Requests \ {r} : request'[q] = request[q]
  BY DEF DataOK, To
<1>2. request[r] \in RequestRecords /\ [request[r] EXCEPT !.pc = pc] \in RequestRecords
  BY DEF DataOK, RequestRecords
<1>3. request' \in [Requests -> RequestRecords]
  BY <1>1, <1>2 DEF DataOK, To
<1> QED
  BY <1>1, <1>2, <1>3 DEF RequestRecords

\* What Fails does to the requests.
LEMMA FailsChangesOne ==
  ASSUME DataOK, NEW r \in Requests, Fails(r)
  PROVE  /\ request' \in [Requests -> RequestRecords]
         /\ request'[r].pc = "ERROR" /\ request'[r].op = request[r].op
         /\ request'[r].arm = 0
         /\ \A q \in Requests \ {r} : request'[q] = request[q]
<1> DEFINE ended == [request[r] EXCEPT !.pc = "ERROR", !.arm = 0, !.late = FALSE]
<1>1. request'[r] = ended /\ \A q \in Requests \ {r} : request'[q] = request[q]
  BY DEF DataOK, Fails
<1>2. ended \in RequestRecords
  <2>1. request[r] \in RequestRecords /\ 0 \in 0..MaxArms /\ "ERROR" \in Pcs
    BY DemoAssumption DEF DataOK, Pcs, Answers
  <2> QED
    BY <2>1 DEF RequestRecords
<1>3. request' \in [Requests -> RequestRecords]
  BY <1>1, <1>2 DEF DataOK, Fails
<1> QED
  BY <1>1, <1>3 DEF DataOK, RequestRecords

\* The locks stay right when no request begins or ends its consumption.
LEMMA LocksStay ==
  ASSUME LocksOK, UNCHANGED <<lock, reset, arming>>,
         \A r \in Requests : request'[r].pc = "consuming" <=> request[r].pc = "consuming"
  PROVE  LocksOK'
BY DEF LocksOK

LEMMA AcceptKeepsTypes ==
  ASSUME DataOK, LocksOK, NEW r \in Requests, NEW o \in Ops, Accept(r, o) \/ Replay(r, o)
  PROVE  DataOK' /\ LocksOK'
<1>1. PICK pc \in Pcs \ {"consuming"} :
        request' = [request EXCEPT ![r].pc = pc, ![r].op = o]
  BY DEF Accept, Replay, Pcs, Answers
<1>2. /\ request'[r] = [request[r] EXCEPT !.pc = pc, !.op = o]
      /\ \A q \in Requests \ {r} : request'[q] = request[q]
  BY <1>1 DEF DataOK
<1>3. [request[r] EXCEPT !.pc = pc, !.op = o] \in RequestRecords
  BY DEF DataOK, RequestRecords
<1>4. /\ request' \in [Requests -> RequestRecords]
      /\ request[r].pc # "consuming" /\ request'[r].pc # "consuming"
  BY <1>1, <1>2, <1>3 DEF DataOK, RequestRecords, Accept, Replay
<1>5. use' \in [Ops -> UseStates] /\ delivered' = delivered
  BY DEF DataOK, UseStates, Accept, Replay, verifier
<1>6. UNCHANGED <<run, fault, lock, reset, arming, arms, fenced>>
  BY DEF Accept, Replay, verifier, controls
<1>7. DataOK'
  BY <1>4, <1>5, <1>6 DEF DataOK
<1>8. \A q \in Requests : request'[q].pc = "consuming" <=> request[q].pc = "consuming"
  BY <1>2, <1>4
<1>9. LocksOK'
  BY <1>6, <1>8, LocksStay
<1> QED
  BY <1>7, <1>9

LEMMA WaitKeepsTypes ==
  ASSUME DataOK, LocksOK, NEW r \in Requests,
         CheckArmed(r) \/ Poll(r) \/ Timeout(r) \/ PollFails(r)
  PROVE  DataOK' /\ LocksOK'
<1>1. /\ request' \in [Requests -> RequestRecords]
      /\ request[r].pc # "consuming" /\ request'[r].pc # "consuming"
      /\ \A q \in Requests \ {r} : request'[q] = request[q]
  <2>1. CASE \E pc \in Pcs \ {"consuming"} : To(r, pc)
    BY <2>1, ToChangesOne DEF CheckArmed, Poll, Timeout, PollFails
  <2>2. CASE request' = [request EXCEPT ![r].pc = "waiting", ![r].arm = arms]
    <3>1. [request[r] EXCEPT !.pc = "waiting", !.arm = arms] \in RequestRecords
      BY DEF DataOK, RequestRecords, Pcs
    <3>2. /\ request'[r] = [request[r] EXCEPT !.pc = "waiting", !.arm = arms]
          /\ \A q \in Requests \ {r} : request'[q] = request[q]
      BY <2>2 DEF DataOK
    <3> QED
      BY <2>2, <3>1, <3>2 DEF DataOK, RequestRecords, CheckArmed, Poll, Timeout, PollFails
  <2>3. CASE request' = [request EXCEPT ![r].pc = "refused", ![r].late = TRUE]
    <3>1. [request[r] EXCEPT !.pc = "refused", !.late = TRUE] \in RequestRecords
      BY DEF DataOK, RequestRecords, Pcs
    <3>2. /\ request'[r] = [request[r] EXCEPT !.pc = "refused", !.late = TRUE]
          /\ \A q \in Requests \ {r} : request'[q] = request[q]
      BY <2>3 DEF DataOK
    <3> QED
      BY <2>3, <3>1, <3>2 DEF DataOK, RequestRecords, CheckArmed, Poll, Timeout, PollFails
  <2> QED
    <3>1. {"OK", "durable", "refused", "broken"} \subseteq Pcs \ {"consuming"}
      BY DEF Pcs, Answers
    <3> QED
      BY <2>1, <2>2, <2>3, <3>1 DEF CheckArmed, Poll, Timeout, PollFails
<1>2. UNCHANGED <<verifier, controls>>
  BY DEF CheckArmed, Poll, Timeout, PollFails
<1> QED
  BY <1>1, <1>2 DEF DataOK, LocksOK, verifier, controls

LEMMA LockFaultKeepsTypes ==
  ASSUME DataOK, LocksOK, NEW r \in Requests, LockFault(r)
  PROVE  DataOK' /\ LocksOK'
<1>1. CASE Armed(request[r].op)
  <2>1. lock["fault"] = Nobody /\ Take(r, {"fault"}) /\ To(r, "consuming")
    BY <1>1 DEF LockFault, FaultIsFree, Free
  <2>2. /\ lock' \in [Locks -> Holders] /\ lock'["fault"] = r
        /\ lock'["run"] = lock["run"] /\ \A o \in Ops : lock'[o] = lock[o]
    <3>1. lock \in [Locks -> Holders] /\ r \in Holders /\ {"fault"} \in SUBSET Locks
      BY DEF LocksOK, Locks, Holders
    <3>2. Locks \ {"fault"} = {"run"} \cup Ops
      BY DemoAssumption DEF Locks
    <3> QED
      BY <2>1, <3>1, <3>2, TakeLocks
  <2>3. /\ request' \in [Requests -> RequestRecords] /\ request'[r].pc = "consuming"
        /\ \A q \in Requests \ {r} : request'[q] = request[q]
    BY <2>1, ToChangesOne DEF Pcs
  <2>4. UNCHANGED <<run, use, delivered, fault, reset, arming, arms, fenced>>
    BY DEF LockFault, controls
  <2>5. DataOK'
    BY <2>3, <2>4 DEF DataOK
  <2>6. LocksOK'
    BY <2>1, <2>2, <2>3, <2>4, DemoAssumption DEF LocksOK
  <2> QED
    BY <2>5, <2>6
<1>2. CASE ~Armed(request[r].op)
  <2>1. To(r, "refused") /\ UNCHANGED <<run, use, delivered, fault, lock, reset, arming, arms, fenced>>
    BY <1>2 DEF LockFault, controls
  <2>2. /\ request' \in [Requests -> RequestRecords]
        /\ request[r].pc # "consuming" /\ request'[r].pc # "consuming"
        /\ \A q \in Requests \ {r} : request'[q] = request[q]
    BY <2>1, ToChangesOne DEF Pcs, LockFault
  <2> QED
    BY <2>1, <2>2 DEF DataOK, LocksOK
<1> QED
  BY <1>1, <1>2

\* A request that consumes its fault, or is in a transaction when it stops,
\* gives its locks back.
LEMMA ReleaseByRequest ==
  ASSUME LocksOK, NEW r \in Requests, request'[r].pc # "consuming",
         \A q \in Requests \ {r} : request'[q] = request[q],
         lock' = Release(r), UNCHANGED <<reset, arming>>
  PROVE  LocksOK'
<1>1. r # Nobody /\ r # "arm" /\ r # "worker" /\ r \notin Resetters
  BY DemoAssumption
<1>2. /\ lock' \in [Locks -> Holders]
      /\ \A x \in Locks : /\ lock[x] = r => lock'[x] = Nobody
                          /\ lock[x] # r => lock'[x] = lock[x]
  BY ReleasedLocks DEF LocksOK
<1>3. lock'["run"] = lock["run"] /\ \A o \in Ops : lock'[o] = lock[o]
  <2>1. lock["run"] # r /\ \A o \in Ops : lock[o] # r
    BY <1>1 DEF LocksOK
  <2>2. "run" \in Locks /\ \A o \in Ops : o \in Locks
    BY DEF Locks
  <2> QED
    BY <1>2, <2>1, <2>2
<1>4. /\ lock["fault"] = r => lock'["fault"] = Nobody
      /\ lock["fault"] # r => lock'["fault"] = lock["fault"]
  <2>1. "fault" \in Locks
    BY DEF Locks
  <2> QED
    BY <1>2, <2>1
<1>5. \A q \in Requests : lock'["fault"] = q <=> request'[q].pc = "consuming"
  <2> TAKE q \in Requests
  <2>1. CASE q = r
    BY <1>1, <1>4, <2>1
  <2>2. CASE q # r
    BY <1>1, <1>4, <2>2, DemoAssumption DEF LocksOK
  <2> QED
    BY <2>1, <2>2
<1>6. lock'["fault"] = "arm" <=> arming'.pc = "targeting"
  BY <1>1, <1>4, DemoAssumption DEF LocksOK
<1>7. lock'["fault"] \in Requests \cup {"arm", Nobody}
  BY <1>4 DEF LocksOK
<1> QED
  BY <1>2, <1>3, <1>5, <1>6, <1>7 DEF LocksOK

LEMMA ConsumeKeepsTypes ==
  ASSUME DataOK, LocksOK, NEW r \in Requests, Consume(r)
  PROVE  DataOK' /\ LocksOK'
<1>1. PICK pc \in Pcs \ {"consuming"} : To(r, pc)
  BY DEF Consume, Pcs, Answers
<1>2. fault' \in FaultRecords
  BY DEF DataOK, FaultRecords, Consume
<1>3. lock' = Release(r) /\ UNCHANGED <<run, use, delivered, reset, arming, arms, fenced>>
  BY DEF Consume, controls
<1> QED
  BY <1>1, <1>2, <1>3, ToChangesOne, ReleaseByRequest DEF DataOK

LEMMA CancelKeepsTypes ==
  ASSUME DataOK, LocksOK, NEW r \in Requests, Cancel(r)
  PROVE  DataOK' /\ LocksOK'
<1>1. /\ request' \in [Requests -> RequestRecords] /\ request'[r].pc # "consuming"
      /\ \A q \in Requests \ {r} : request'[q] = request[q]
  <2>1. To(r, "UNAVAILABLE") \/ Fails(r)
    BY DEF Cancel
  <2> QED
    BY <2>1, ToChangesOne, FailsChangesOne DEF Pcs, Answers
<1>2. fault' \in FaultRecords
  BY DemoAssumption DEF DataOK, FaultRecords, Cancel, Cancelled, NoFault
<1>3. request[r].pc # "consuming" /\ UNCHANGED <<run, use, delivered, lock, reset, arming, arms, fenced>>
  BY DEF Cancel, controls
<1> QED
  BY <1>1, <1>2, <1>3, LocksStay DEF DataOK

LEMMA StopKeepsTypes ==
  ASSUME DataOK, LocksOK, NEW r \in Requests,
         Crash(r) \/ \E s \in Resetters : AbortConsume(s, r)
  PROVE  DataOK' /\ LocksOK'
<1>1. /\ Fails(r) /\ lock' = Release(r)
      /\ UNCHANGED <<run, use, delivered, fault, reset, arming, arms, fenced>>
  BY DEF Crash, AbortConsume, controls
<1> QED
  BY <1>1, FailsChangesOne, ReleaseByRequest DEF DataOK

-----------------------------------------------------------------------------
(* The steps of the worker, of the arming and of resets.                   *)

LEMMA LockUseKeepsTypes ==
  ASSUME DataOK, LocksOK, NEW o \in Ops, LockUse(o)
  PROVE  DataOK' /\ LocksOK'
<1>1. lock[o] = Nobody /\ Take("worker", {o})
  BY DEF LockUse, Free
<1>2. lock \in [Locks -> Holders] /\ "worker" \in Holders /\ {o} \in SUBSET Locks
  BY DEF LocksOK, Locks, Holders
<1>3. /\ lock' \in [Locks -> Holders] /\ lock'[o] = "worker"
      /\ \A x \in Locks \ {o} : lock'[x] = lock[x]
  BY <1>1, <1>2, TakeLocks
<1>4. lock'["run"] = lock["run"] /\ lock'["fault"] = lock["fault"]
  BY <1>3, DemoAssumption DEF Locks
<1>5. UNCHANGED <<run, use, delivered, fault, request, reset, arming, arms, fenced>>
  BY DEF LockUse, controls
<1>6. \A p \in Ops : lock'[p] \in Resetters \cup {"worker", Nobody}
  BY <1>3 DEF LocksOK, Locks
<1>7. \A s \in Resetters, p \in Ops : lock'[p] = s <=> reset'[s].pc = "erasing"
  <2> TAKE s \in Resetters, p \in Ops
  <2>1. lock'[p] = s <=> lock[p] = s
    <3>1. p \in Locks /\ s # "worker" /\ s # Nobody
      BY DemoAssumption DEF Locks
    <3> QED
      BY <1>1, <1>3, <3>1
  <2>2. lock[p] = s <=> reset[s].pc = "erasing"
    BY DEF LocksOK
  <2> QED
    BY <1>5, <2>1, <2>2
<1>8. DataOK'
  BY <1>5 DEF DataOK
<1> QED
  BY <1>3, <1>4, <1>5, <1>6, <1>7, <1>8 DEF LocksOK

\* The lock on a use is given back by the worker.
LEMMA WorkerGivesBack ==
  ASSUME LocksOK, NEW o \in Ops, lock[o] = "worker",
         lock' = [lock EXCEPT ![o] = Nobody], UNCHANGED <<request, reset, arming>>
  PROVE  LocksOK'
<1>1. o \in Locks /\ o # "run" /\ o # "fault" /\ Nobody \in Holders
  BY DemoAssumption DEF Locks, Holders
<1>2. /\ lock' \in [Locks -> Holders] /\ lock'[o] = Nobody
      /\ \A x \in Locks \ {o} : lock'[x] = lock[x]
  BY <1>1 DEF LocksOK
<1>3. lock'["run"] = lock["run"] /\ lock'["fault"] = lock["fault"]
  BY <1>1, <1>2 DEF Locks
<1>4. \A p \in Ops : lock'[p] \in Resetters \cup {"worker", Nobody}
  BY <1>2 DEF LocksOK, Locks
<1>5. \A s \in Resetters, p \in Ops : lock'[p] = s <=> reset'[s].pc = "erasing"
  <2> TAKE s \in Resetters, p \in Ops
  <2>1. lock'[p] = s <=> lock[p] = s
    <3>1. p \in Locks /\ s # "worker" /\ s # Nobody
      BY DemoAssumption DEF Locks
    <3> QED
      BY <1>2, <3>1
  <2>2. lock[p] = s <=> reset[s].pc = "erasing"
    BY DEF LocksOK
  <2> QED
    BY <2>1, <2>2
<1> QED
  BY <1>2, <1>3, <1>4, <1>5 DEF LocksOK

LEMMA SettleKeepsTypes ==
  ASSUME DataOK, LocksOK, NEW o \in Ops,
         \/ \E status \in {"SUCCEEDED", "FAILED"} : Settle(o, status)
         \/ \E s \in Resetters : AbortCompletion(s, o)
  PROVE  DataOK' /\ LocksOK'
<1>1. /\ lock[o] = "worker" /\ lock' = [lock EXCEPT ![o] = Nobody]
      /\ UNCHANGED <<run, fault, request, reset, arming, arms, fenced>>
  BY DEF Settle, AbortCompletion, controls
<1>2. use' \in [Ops -> UseStates] /\ delivered' \subseteq Ops
  BY DEF DataOK, UseStates, Settle, AbortCompletion
<1> QED
  BY <1>1, <1>2, WorkerGivesBack DEF DataOK

\* The arming ends, with or without effect.
LEMMA ReleaseByArming ==
  ASSUME LocksOK, lock' = Release("arm"), arming'.pc = "idle", UNCHANGED <<request, reset>>
  PROVE  LocksOK'
<1>1. "arm" # Nobody /\ "arm" # "worker" /\ "arm" \notin Resetters /\ "arm" \notin Requests
  BY DemoAssumption
<1>2. /\ lock' \in [Locks -> Holders]
      /\ \A x \in Locks : /\ lock[x] = "arm" => lock'[x] = Nobody
                          /\ lock[x] # "arm" => lock'[x] = lock[x]
  BY ReleasedLocks DEF LocksOK
<1>3. lock'["run"] = lock["run"] /\ \A o \in Ops : lock'[o] = lock[o]
  <2>1. lock["run"] # "arm" /\ \A o \in Ops : lock[o] # "arm"
    BY <1>1 DEF LocksOK
  <2>2. "run" \in Locks /\ \A o \in Ops : o \in Locks
    BY DEF Locks
  <2> QED
    BY <1>2, <2>1, <2>2
<1>4. /\ lock["fault"] = "arm" => lock'["fault"] = Nobody
      /\ lock["fault"] # "arm" => lock'["fault"] = lock["fault"]
  <2>1. "fault" \in Locks
    BY DEF Locks
  <2> QED
    BY <1>2, <2>1
<1>5. \A q \in Requests : lock'["fault"] = q <=> request'[q].pc = "consuming"
  BY <1>1, <1>4, DemoAssumption DEF LocksOK
<1>6. lock'["fault"] # "arm" /\ lock'["fault"] \in Requests \cup {"arm", Nobody}
  BY <1>1, <1>4 DEF LocksOK
<1> QED
  BY <1>2, <1>3, <1>5, <1>6 DEF LocksOK

LEMMA ArmKeepsTypes ==
  ASSUME DataOK, LocksOK, Arm \/ \E s \in Resetters : AbortArm(s)
  PROVE  DataOK' /\ LocksOK'
<1>1. CASE \E o \in Ops : StartArm(o)
  <2>1. PICK o \in Ops : StartArm(o)
    BY <1>1
  <2>2. /\ lock["fault"] = Nobody /\ Take("arm", {"fault"})
        /\ arming' = [pc |-> "targeting", run |-> run, op |-> o] /\ arms < MaxArms
        /\ UNCHANGED <<run, use, delivered, fault, request, reset, arms, fenced>>
    BY <2>1 DEF StartArm, FaultIsFree, Free
  <2>3. lock \in [Locks -> Holders] /\ "arm" \in Holders /\ {"fault"} \in SUBSET Locks
    BY DEF LocksOK, Locks, Holders
  <2>4. Locks \ {"fault"} = {"run"} \cup Ops
    BY DemoAssumption DEF Locks
  <2>5. /\ lock' \in [Locks -> Holders] /\ lock'["fault"] = "arm"
        /\ lock'["run"] = lock["run"] /\ \A o2 \in Ops : lock'[o2] = lock[o2]
    BY <2>2, <2>3, <2>4, TakeLocks
  <2>6. \A r \in Requests : lock'["fault"] # r /\ request'[r].pc # "consuming"
    BY <2>2, <2>5, DemoAssumption DEF LocksOK
  <2>7. arming' \in ArmingRecords /\ arming'.pc = "targeting"
    BY <2>2 DEF ArmingRecords, DataOK
  <2>8. DataOK'
    BY <2>2, <2>7 DEF DataOK
  <2>9. LocksOK'
    BY <2>2, <2>5, <2>6, <2>7 DEF LocksOK
  <2> QED
    BY <2>8, <2>9
<1>2. CASE FinishArm \/ \E s \in Resetters : AbortArm(s)
  <2>1. /\ lock' = Release("arm") /\ arming' = [pc |-> "idle", run |-> 0, op |-> NoOp]
        /\ UNCHANGED <<run, use, delivered, request, reset, fenced>>
    BY <1>2 DEF FinishArm, AbortArm
  <2>2. fault' \in FaultRecords /\ arms' \in 0..MaxArms
    <3>1. CASE UNCHANGED <<fault, arms>>
      BY <3>1 DEF DataOK
    <3>2. CASE FinishArm /\ arming.run = run
      <4>1. /\ fault' = [enabled |-> TRUE, run |-> run, op |-> arming.op]
            /\ arms' = arms + 1 /\ arms < MaxArms
        BY <3>2 DEF FinishArm, DataOK
      <4> QED
        BY <4>1, DemoAssumption DEF DataOK, ArmingRecords, FaultRecords
    <3> QED
      BY <1>2, <3>1, <3>2 DEF FinishArm, AbortArm
  <2>3. arming' \in ArmingRecords
    BY <2>1, DemoAssumption DEF ArmingRecords
  <2> QED
    BY <2>1, <2>2, <2>3, ReleaseByArming DEF DataOK
<1> QED
  BY <1>1, <1>2 DEF Arm

\* A reset that goes on without a lock, or fails before it has one.
LEMMA ResetWithoutLock ==
  ASSUME LocksOK, NEW s \in Resetters, reset[s].pc \notin {"locked", "erasing"},
         reset'[s].pc \notin {"locked", "erasing"},
         \A t \in Resetters \ {s} : reset'[t] = reset[t],
         UNCHANGED <<lock, request, arming>>
  PROVE  LocksOK'
<1>1. \A t \in Resetters : /\ reset'[t].pc \in {"locked", "erasing"} <=> reset[t].pc \in {"locked", "erasing"}
                           /\ reset'[t].pc = "erasing" <=> reset[t].pc = "erasing"
  OBVIOUS
<1> QED
  BY <1>1 DEF LocksOK

LEMMA ResetChangesOne ==
  ASSUME DataOK, NEW s \in Resetters,
         NEW r \in ResetRecords,
         \/ reset' = [reset EXCEPT ![s] = r]
         \/ reset' = [reset EXCEPT ![s].pc = r.pc] /\ r.run = reset[s].run
  PROVE  /\ reset' \in [Resetters -> ResetRecords] /\ reset'[s] = r
         /\ \A t \in Resetters \ {s} : reset'[t] = reset[t]
BY DEF DataOK, ResetRecords

LEMMA ResetBeginsKeepsTypes ==
  ASSUME DataOK, LocksOK, ResetInv, NEW s \in Resetters,
         StartReset(s) \/ Fence(s) \/ \E reached \in BOOLEAN : FenceFails(s, reached)
  PROVE  DataOK' /\ LocksOK'
<1>1. PICK r \in ResetRecords :
        /\ r.pc \notin {"locked", "erasing"}
        /\ \/ reset' = [reset EXCEPT ![s] = r]
           \/ reset' = [reset EXCEPT ![s].pc = r.pc] /\ r.run = reset[s].run
  <2>1. CASE StartReset(s)
    <3>1. [pc |-> "fencing", run |-> run] \in ResetRecords
      BY DEF DataOK, ResetRecords
    <3> QED
      BY <2>1, <3>1 DEF StartReset
  <2>2. CASE Fence(s)
    <3>1. [pc |-> "fenced", run |-> reset[s].run] \in ResetRecords
      BY DEF DataOK, ResetRecords
    <3> QED
      BY <2>2, <3>1 DEF Fence, Reset
  <2>3. CASE \E reached \in BOOLEAN : FenceFails(s, reached)
    <3>1. [pc |-> "idle", run |-> 0] \in ResetRecords
      BY DemoAssumption DEF ResetRecords
    <3> QED
      BY <2>3, <3>1 DEF FenceFails, Done
  <2> QED
    BY <2>1, <2>2, <2>3
<1>2. /\ reset' \in [Resetters -> ResetRecords] /\ reset'[s] = r
      /\ \A t \in Resetters \ {s} : reset'[t] = reset[t]
  BY <1>1, ResetChangesOne
<1>3. reset[s].pc \notin {"locked", "erasing"}
  BY DEF StartReset, Fence, FenceFails
<1>4. UNCHANGED <<run, use, delivered, fault, lock, request, arming, arms>>
  BY DEF StartReset, Fence, FenceFails, verifier
<1>5. LocksOK'
  BY <1>1, <1>2, <1>3, <1>4, ResetWithoutLock
<1>6. fenced' \subseteq 1..MaxRun
  <2>1. reset[s].pc = "fencing" => reset[s].run \in 1..MaxRun
    BY DemoAssumption DEF ResetInv
  <2>2. fenced' = fenced \/ (reset[s].pc = "fencing" /\ fenced' = fenced \cup {reset[s].run})
    BY DEF StartReset, Fence, FenceFails
  <2> QED
    BY <2>1, <2>2 DEF DataOK
<1> QED
  BY <1>2, <1>4, <1>5, <1>6 DEF DataOK

LEMMA LockRunKeepsTypes ==
  ASSUME DataOK, LocksOK, NEW s \in Resetters, LockRun(s)
  PROVE  DataOK' /\ LocksOK'
<1>1. UNCHANGED <<run, use, delivered, fault, request, arming, arms, fenced>>
  BY DEF LockRun
<1>2. CASE reset[s].run = run
  <2>1. lock["run"] = Nobody /\ Take(s, {"run"}) /\ reset' = [reset EXCEPT ![s].pc = "locked"]
    BY <1>2 DEF LockRun, Free, Reset
  <2>2. /\ reset' \in [Resetters -> ResetRecords]
        /\ reset'[s].pc = "locked" /\ reset[s].pc = "fenced"
        /\ \A t \in Resetters \ {s} : reset'[t] = reset[t]
    BY <2>1 DEF DataOK, ResetRecords, LockRun
  <2>3. lock \in [Locks -> Holders] /\ s \in Holders /\ {"run"} \in SUBSET Locks
    BY DEF LocksOK, Locks, Holders
  <2>4. Locks \ {"run"} = {"fault"} \cup Ops
    BY DemoAssumption DEF Locks
  <2>5. /\ lock' \in [Locks -> Holders] /\ lock'["run"] = s
        /\ lock'["fault"] = lock["fault"] /\ \A o \in Ops : lock'[o] = lock[o]
    BY <2>1, <2>3, <2>4, TakeLocks
  <2>6. \A t \in Resetters :
          /\ lock'["run"] = t <=> reset'[t].pc \in {"locked", "erasing"}
          /\ \A o \in Ops : lock'[o] = t <=> reset'[t].pc = "erasing"
    <3> TAKE t \in Resetters
    <3>1. CASE t = s
      BY <2>2, <2>5, <3>1 DEF LocksOK
    <3>2. CASE t # s
      <4>1. reset[t].pc \notin {"locked", "erasing"}
        BY <2>1, DemoAssumption DEF LocksOK
      <4> QED
        BY <2>2, <2>5, <3>2, <4>1 DEF LocksOK
    <3> QED
      BY <3>1, <3>2
  <2>7. DataOK'
    BY <1>1, <2>2 DEF DataOK
  <2>8. LocksOK'
    BY <1>1, <2>5, <2>6 DEF LocksOK
  <2> QED
    BY <2>7, <2>8
<1>3. CASE reset[s].run # run
  <2>1. [pc |-> "idle", run |-> 0] \in ResetRecords
    BY DemoAssumption DEF ResetRecords
  <2>2. UNCHANGED lock /\ reset' = [reset EXCEPT ![s] = [pc |-> "idle", run |-> 0]]
    BY <1>3 DEF LockRun, Done
  <2>3. /\ reset' \in [Resetters -> ResetRecords]
        /\ reset'[s] = [pc |-> "idle", run |-> 0] /\ reset[s].pc = "fenced"
        /\ \A t \in Resetters \ {s} : reset'[t] = reset[t]
    BY <2>1, <2>2, ResetChangesOne DEF LockRun
  <2>4. LocksOK'
    BY <1>1, <2>2, <2>3, ResetWithoutLock
  <2> QED
    BY <1>1, <2>2, <2>3, <2>4 DEF DataOK
<1> QED
  BY <1>2, <1>3

LEMMA LockUsesKeepsTypes ==
  ASSUME DataOK, LocksOK, NEW s \in Resetters, LockUses(s)
  PROVE  DataOK' /\ LocksOK'
<1>1. UNCHANGED <<run, use, delivered, fault, request, arming, arms, fenced>>
  BY DEF LockUses
<1>2. (\A o \in Ops : lock[o] = Nobody) /\ Take(s, Ops) /\ reset' = [reset EXCEPT ![s].pc = "erasing"]
  BY DEF LockUses, Free, Reset
<1>3. /\ reset' \in [Resetters -> ResetRecords]
      /\ reset'[s].pc = "erasing" /\ reset[s].pc = "locked"
      /\ \A t \in Resetters \ {s} : reset'[t] = reset[t]
  BY <1>2 DEF DataOK, ResetRecords, LockUses, WaitsForUses
<1>4. lock \in [Locks -> Holders] /\ s \in Holders /\ Ops \in SUBSET Locks
  BY DEF LocksOK, Locks, Holders
<1>5. Locks \ Ops = {"run", "fault"}
  BY DemoAssumption DEF Locks
<1>6. /\ lock' \in [Locks -> Holders] /\ \A o \in Ops : lock'[o] = s
      /\ lock'["fault"] = lock["fault"] /\ lock'["run"] = lock["run"] /\ lock["run"] = s
  <2>1. lock["run"] = s
    BY <1>3 DEF LocksOK
  <2> QED
    BY <1>2, <1>4, <1>5, <2>1, TakeLocks
<1>7. \A t \in Resetters :
        /\ lock'["run"] = t <=> reset'[t].pc \in {"locked", "erasing"}
        /\ \A o \in Ops : lock'[o] = t <=> reset'[t].pc = "erasing"
  <2> TAKE t \in Resetters
  <2>1. CASE t = s
    BY <1>3, <1>6, <2>1
  <2>2. CASE t # s
    <3>1. reset[t].pc \notin {"locked", "erasing"}
      BY <1>6, <2>2 DEF LocksOK
    <3> QED
      BY <1>3, <1>6, <2>2, <3>1
  <2> QED
    BY <2>1, <2>2
<1>8. DataOK'
  BY <1>1, <1>3 DEF DataOK
<1>9. \A o \in Ops : lock'[o] \in Resetters \cup {"worker", Nobody}
  BY <1>6
<1>10. LocksOK'
  BY <1>1, <1>6, <1>7, <1>9 DEF LocksOK
<1> QED
  BY <1>8, <1>10

\* The reset that holds locks ends, with or without effect.
LEMMA ReleaseByReset ==
  ASSUME DataOK, LocksOK, NEW s \in Resetters, reset[s].pc \in {"locked", "erasing"},
         lock' = Release(s), Done(s), UNCHANGED <<request, arming>>
  PROVE  LocksOK' /\ reset' \in [Resetters -> ResetRecords]
<1>1. s # Nobody /\ s # "arm" /\ s # "worker" /\ s \notin Requests
  BY DemoAssumption
<1>2. /\ lock' \in [Locks -> Holders]
      /\ \A x \in Locks : /\ lock[x] = s => lock'[x] = Nobody
                          /\ lock[x] # s => lock'[x] = lock[x]
  BY ReleasedLocks DEF LocksOK
<1>3. "run" \in Locks /\ "fault" \in Locks /\ \A o \in Ops : o \in Locks
  BY DEF Locks
<1>4. lock["run"] = s /\ lock["fault"] # s
  BY <1>1 DEF LocksOK
<1>5. lock'["run"] = Nobody /\ lock'["fault"] = lock["fault"]
  BY <1>2, <1>3, <1>4
<1>6. [pc |-> "idle", run |-> 0] \in ResetRecords
  BY DemoAssumption DEF ResetRecords
<1>7. /\ reset' \in [Resetters -> ResetRecords] /\ reset'[s].pc = "idle"
      /\ \A t \in Resetters \ {s} : reset'[t] = reset[t]
  BY <1>6, ResetChangesOne DEF Done
<1>8. \A o \in Ops : lock'[o] \in Resetters \cup {"worker", Nobody}
  BY <1>2, <1>3 DEF LocksOK
<1>9. \A t \in Resetters :
        /\ lock'["run"] = t <=> reset'[t].pc \in {"locked", "erasing"}
        /\ \A o \in Ops : lock'[o] = t <=> reset'[t].pc = "erasing"
  <2> TAKE t \in Resetters
  <2>1. CASE t = s
    BY <1>1, <1>2, <1>3, <1>5, <1>7, <2>1
  <2>2. CASE t # s
    <3>1. reset[t].pc \notin {"locked", "erasing"}
      BY <1>4, <2>2 DEF LocksOK
    <3>2. \A o \in Ops : lock[o] # t
      BY <3>1 DEF LocksOK
    <3>3. \A o \in Ops : lock'[o] # t
      BY <1>2, <1>3, <3>2, DemoAssumption
    <3> QED
      BY <1>5, <1>7, <2>2, <3>1, <3>3, DemoAssumption
  <2> QED
    BY <2>1, <2>2
<1> QED
  BY <1>2, <1>5, <1>7, <1>8, <1>9 DEF LocksOK

LEMMA ResetEndsKeepsTypes ==
  ASSUME DataOK, LocksOK, ResetInv, NEW s \in Resetters, Erase(s) \/ AbortReset(s)
  PROVE  DataOK' /\ LocksOK'
<1>1. /\ reset[s].pc \in {"locked", "erasing"} /\ lock' = Release(s) /\ Done(s)
      /\ UNCHANGED <<request, arming, arms, fenced>>
  BY DEF Erase, AbortReset, WaitsForUses, WaitsForFault
<1>2. LocksOK' /\ reset' \in [Resetters -> ResetRecords]
  BY <1>1, ReleaseByReset
<1>3. run' \in 1..MaxRun
  <2>1. run \in 1..(MaxRun - 1)
    BY <1>1 DEF ResetInv
  <2> QED
    BY <2>1, DemoAssumption DEF Erase, AbortReset
<1>4. use' \in [Ops -> UseStates] /\ delivered' \subseteq Ops
  BY DEF Erase, AbortReset, DataOK, UseStates
<1>5. fault' \in FaultRecords
  <2>1. NoFault \in FaultRecords
    BY DemoAssumption DEF NoFault, FaultRecords
  <2>2. fault' = fault \/ fault' = NoFault
    BY DEF Erase, AbortReset
  <2> QED
    BY <2>1, <2>2 DEF DataOK
<1> QED
  BY <1>1, <1>2, <1>3, <1>4, <1>5 DEF DataOK

-----------------------------------------------------------------------------
(* What a reset erases.                                                    *)

\* Steps that are no reset's: the fault they leave is one of the active run.
LEMMA OthersKeepReset ==
  ASSUME ResetInv, UNCHANGED <<run, fenced, reset>>,
         \/ UNCHANGED fault
         \/ fault'.enabled => fault'.run = run
         \/ fault'.enabled => fault.enabled /\ fault'.run = fault.run
  PROVE  ResetInv'
BY DEF ResetInv, ErasedRunsAreFenced, FaultIsOfActiveRun

LEMMA RequestsKeepReset ==
  ASSUME DataOK, ResetInv, NEW r \in Requests,
         \/ Answering(r) \/ PollFails(r) \/ Crash(r)
         \/ \E o \in Ops : Accept(r, o) \/ Replay(r, o)
         \/ \E s \in Resetters : AbortConsume(s, r)
  PROVE  ResetInv'
<1>1. UNCHANGED <<run, fenced, reset>>
  BY DEF Answering, PollFails, Crash, Accept, Replay, AbortConsume, CheckArmed, Poll, Timeout,
         LockFault, Consume, Cancel, verifier, controls
<1>2. \/ UNCHANGED fault
      \/ fault'.enabled => fault.enabled /\ fault'.run = fault.run
  <2>1. CASE Consume(r)
    BY <2>1 DEF Consume, DataOK, FaultRecords
  <2>2. CASE Cancel(r)
    BY <2>2 DEF Cancel, Cancelled, NoFault
  <2>3. CASE ~Consume(r) /\ ~Cancel(r)
    BY <2>3 DEF Answering, PollFails, Crash, Accept, Replay, AbortConsume, CheckArmed, Poll,
                Timeout, LockFault, verifier, controls
  <2> QED
    BY <2>1, <2>2, <2>3
<1> QED
  BY <1>1, <1>2, OthersKeepReset

LEMMA WorkerAndArmKeepReset ==
  ASSUME DataOK, ResetInv,
         \/ Worker \/ Arm \/ \E s \in Resetters : AbortArm(s)
         \/ \E s \in Resetters, o \in Ops : AbortCompletion(s, o)
  PROVE  ResetInv'
<1>1. UNCHANGED <<run, fenced, reset>>
  BY DEF Worker, LockUse, Settle, Arm, StartArm, FinishArm, AbortArm, AbortCompletion, controls
<1>2. UNCHANGED fault \/ fault'.run = run
  <2>1. CASE FinishArm
    BY <2>1 DEF FinishArm
  <2>2. CASE ~FinishArm
    BY <2>2 DEF Worker, LockUse, Settle, Arm, StartArm, AbortArm, AbortCompletion
  <2> QED
    BY <2>1, <2>2
<1> QED
  BY <1>1, <1>2, OthersKeepReset

LEMMA ResetBeginsKeepsReset ==
  ASSUME DataOK, ResetInv, NEW s \in Resetters,
         StartReset(s) \/ Fence(s) \/ \E reached \in BOOLEAN : FenceFails(s, reached)
  PROVE  ResetInv'
<1>1. UNCHANGED <<run, fault>> /\ fenced \subseteq fenced'
  BY DEF StartReset, Fence, FenceFails, verifier
<1>2. \A t \in Resetters \ {s} : reset'[t] = reset[t]
  BY DEF DataOK, StartReset, Fence, FenceFails, Reset, Done
<1>3. /\ reset'[s].pc # "idle" => reset'[s].run \in 1..(MaxRun - 1)
      /\ reset'[s].pc \in {"fenced", "locked", "erasing"} => reset'[s].run \in fenced'
      /\ reset'[s].pc \notin {"locked", "erasing"}
  <2>1. CASE StartReset(s)
    <3>1. reset'[s] = [pc |-> "fencing", run |-> run] /\ run < MaxRun /\ run \in 1..MaxRun
      BY <2>1 DEF StartReset, DataOK
    <3> QED
      BY <3>1, DemoAssumption
  <2>2. CASE Fence(s)
    <3>1. /\ reset'[s].pc = "fenced" /\ reset'[s].run = reset[s].run
          /\ fenced' = fenced \cup {reset[s].run} /\ reset[s].pc = "fencing"
      BY <2>2 DEF Fence, Reset, DataOK, ResetRecords
    <3> QED
      BY <3>1 DEF ResetInv
  <2>3. CASE \E reached \in BOOLEAN : FenceFails(s, reached)
    BY <2>3 DEF FenceFails, Done, DataOK
  <2> QED
    BY <2>1, <2>2, <2>3
<1> QED
  BY <1>1, <1>2, <1>3 DEF ResetInv, ErasedRunsAreFenced, FaultIsOfActiveRun

LEMMA LocksKeepReset ==
  ASSUME DataOK, ResetInv, NEW s \in Resetters, LockRun(s) \/ LockUses(s) \/ AbortReset(s)
  PROVE  ResetInv'
<1>1. UNCHANGED <<run, fault, fenced>>
  BY DEF LockRun, LockUses, AbortReset
<1>2. \A t \in Resetters \ {s} : reset'[t] = reset[t]
  BY DEF DataOK, LockRun, LockUses, AbortReset, Reset, Done
<1>3. \/ reset'[s].pc = "idle"
      \/ /\ reset'[s].run = reset[s].run /\ reset[s].pc \in {"fenced", "locked"}
         /\ reset[s].run = run
  BY DEF DataOK, ResetRecords, LockRun, LockUses, AbortReset, WaitsForUses, Reset, Done, ResetInv
<1> QED
  BY <1>1, <1>2, <1>3 DEF ResetInv, ErasedRunsAreFenced, FaultIsOfActiveRun

\* Only the reset that has locked the run is about to erase it, and the run has
\* its tombstone.
LEMMA EraseKeepsReset ==
  ASSUME DataOK, LocksOK, ResetInv, NEW s \in Resetters, Erase(s)
  PROVE  ResetInv'
<1>1. /\ run' = run + 1 /\ fenced' = fenced
      /\ fault' = IF fault.run = run THEN NoFault ELSE fault
      /\ reset[s].pc = "erasing"
      /\ reset'[s] = [pc |-> "idle", run |-> 0]
      /\ \A t \in Resetters \ {s} : reset'[t] = reset[t]
  BY DEF Erase, Done, DataOK
<1>2. \A t \in Resetters \ {s} : reset[t].pc \notin {"locked", "erasing"}
  BY <1>1 DEF LocksOK
<1>3. run \in fenced /\ 1..(run - 1) \subseteq fenced /\ run \in 1..MaxRun
  BY <1>1 DEF ResetInv, ErasedRunsAreFenced, DataOK
<1>4. ErasedRunsAreFenced'
  BY <1>1, <1>3 DEF ErasedRunsAreFenced
<1>5. FaultIsOfActiveRun'
  BY <1>1 DEF ResetInv, FaultIsOfActiveRun, NoFault
<1> QED
  BY <1>1, <1>2, <1>4, <1>5 DEF ResetInv

-----------------------------------------------------------------------------
(* The base invariant and what follows from it alone.                      *)

BaseInv == DataOK /\ LocksOK /\ ResetInv

LEMMA NextKeepsBase == BaseInv /\ [Next]_vars => BaseInv'
<1> SUFFICES ASSUME BaseInv, [Next]_vars PROVE BaseInv'
  OBVIOUS
<1> USE DEF BaseInv
<1>1. ASSUME NEW r \in Requests, NEW o \in Ops, Accept(r, o) \/ Replay(r, o) PROVE BaseInv'
  BY <1>1, AcceptKeepsTypes, RequestsKeepReset
<1>2. ASSUME NEW r \in Requests, Answering(r) \/ PollFails(r) \/ Crash(r) PROVE BaseInv'
  BY <1>2, WaitKeepsTypes, LockFaultKeepsTypes, ConsumeKeepsTypes, CancelKeepsTypes,
     StopKeepsTypes, RequestsKeepReset DEF Answering
<1>3. ASSUME NEW s \in Resetters,
             StartReset(s) \/ Fence(s) \/ \E reached \in BOOLEAN : FenceFails(s, reached)
      PROVE  BaseInv'
  BY <1>3, ResetBeginsKeepsTypes, ResetBeginsKeepsReset
<1>4. ASSUME NEW s \in Resetters, LockRun(s) \/ LockUses(s) \/ Erase(s) \/ AbortReset(s)
      PROVE  BaseInv'
  BY <1>4, LockRunKeepsTypes, LockUsesKeepsTypes, ResetEndsKeepsTypes, LocksKeepReset,
     EraseKeepsReset
<1>5. ASSUME NEW s \in Resetters, AbortArm(s) PROVE BaseInv'
  BY <1>5, ArmKeepsTypes, WorkerAndArmKeepReset
<1>6. ASSUME NEW s \in Resetters, NEW o \in Ops, AbortCompletion(s, o) PROVE BaseInv'
  BY <1>6, SettleKeepsTypes, WorkerAndArmKeepReset
<1>7. ASSUME NEW s \in Resetters, NEW r \in Requests, AbortConsume(s, r) PROVE BaseInv'
  BY <1>7, StopKeepsTypes, RequestsKeepReset
<1>8. CASE Worker
  BY <1>8, LockUseKeepsTypes, SettleKeepsTypes, WorkerAndArmKeepReset DEF Worker
<1>9. CASE Arm
  BY <1>9, ArmKeepsTypes, WorkerAndArmKeepReset
<1>10. CASE UNCHANGED vars
  <2>1. DataOK'
    BY <1>10 DEF vars, DataOK
  <2>2. LocksOK'
    BY <1>10 DEF vars, LocksOK
  <2>3. ResetInv'
    BY <1>10, OthersKeepReset DEF vars
  <2> QED
    BY <2>1, <2>2, <2>3
<1> QED
  BY <1>1, <1>2, <1>3, <1>4, <1>5, <1>6, <1>7, <1>8, <1>9, <1>10 DEF Next, Resetting, Abort

\* Locks are held by who says so, and a reset that erases has fenced: the invariant
\* that the theorems about erasure and about the target of the fault rest on.
THEOREM BaseInvariance == Spec => []BaseInv
<1>1. Init => BaseInv
  BY InitBase DEF BaseInv
<1> QED
  BY <1>1, NextKeepsBase, PTL DEF Spec

\* The state keeps its types, and only its holder's program counter goes with a
\* lock: no lock outlives the transaction that took it.
THEOREM TypeCorrect == Spec => []TypeOK
<1>1. BaseInv => TypeOK
  BY TypeIsDataAndLocks DEF BaseInv
<1> QED
  BY <1>1, BaseInvariance, PTL

\* Every run that was erased has its tombstone at the destination, however the
\* resets of any number of API processes, their losses and aborts interleave.
THEOREM ErasedIsFenced == Spec => []ErasedRunsAreFenced
<1>1. BaseInv => ErasedRunsAreFenced
  BY DEF BaseInv, ResetInv
<1> QED
  BY <1>1, BaseInvariance, PTL

\* A fault that is armed is one of the active run.
THEOREM FaultOfActiveRun == Spec => []FaultIsOfActiveRun
<1>1. BaseInv => FaultIsOfActiveRun
  BY DEF BaseInv, ResetInv
<1> QED
  BY <1>1, BaseInvariance, PTL

-----------------------------------------------------------------------------
(* Acknowledgements: the invariant of a request, of the requests, of the   *)
(* worker.                                                                 *)

Active == {"accepted", "waiting", "durable", "refused", "broken", "consuming"}
Waiting == {"waiting", "durable", "consuming"}

\* A request knows its operation and is not ahead of the armings; it keeps its
\* fault while it waits, and nobody takes it from under the consumption; it
\* refuses with a cause; and afterwards the fault is spent.
AckOf(r) ==
  LET op == request[r].op  pc == request[r].pc IN
  /\ request[r].arm <= arms
  /\ pc # "idle" => op \in Ops
  /\ pc \in Active => use[op] # "NONE"
  /\ pc \in Waiting /\ request[r].arm = arms /\ use[op] # "ERASED" => Armed(op)
  /\ pc = "consuming" => Armed(op)
  /\ pc \in {"durable", "consuming"} => use[op] \in {"SUCCEEDED", "ERASED"}
  /\ pc \in {"refused", "UNAVAILABLE"} =>
       \/ request[r].late \/ request[r].arm # arms \/ use[op] \in {"FAILED", "ERASED"}
       \/ use[op] = "SUCCEEDED" /\ op \notin delivered
  /\ pc \in {"DROPPED", "UNAVAILABLE"} /\ request[r].arm = arms => ~Armed(op)

\* At most one request is about the acceptance of an operation.
OneOwner ==
  \A q, r \in Requests :
    /\ request[q].pc \in Active /\ request[r].pc \in Active
    /\ request[q].op = request[r].op
    => q = r

\* The worker holds the lock on pending uses only.
WorkerOnPending == \A o \in Ops : lock[o] = "worker" => use[o] = "PENDING"

AckInv == (\A r \in Requests : AckOf(r)) /\ OneOwner /\ WorkerOnPending

LEMMA InitAck == Init => AckInv
<1> SUFFICES ASSUME Init PROVE AckInv
  OBVIOUS
<1>1. ASSUME NEW r \in Requests PROVE AckOf(r)
  <2>1. request[r] = [pc |-> "idle", op |-> NoOp, arm |-> 0, late |-> FALSE] /\ arms = 0
    BY DEF Init
  <2> QED
    BY <2>1 DEF AckOf, Active, Waiting
<1>2. OneOwner
  BY DEF Init, OneOwner, Active
<1>3. WorkerOnPending
  BY DemoAssumption DEF Init, WorkerOnPending
<1> QED
  BY <1>1, <1>2, <1>3 DEF AckInv

\* What a step does to the uses: it decides or erases them, and delivers the event
\* of none that was decided before.
UsesMove ==
  \A o \in Ops : \/ use'[o] = use[o] /\ (o \in delivered' => o \in delivered)
                 \/ use[o] \in {"NONE", "PENDING"} /\ use'[o] # "NONE"
                 \/ use[o] # "NONE" /\ use'[o] = "ERASED"

\* What a step may do to the fault of a request that takes no part in it.
FaultMoves(r) ==
  LET op == request[r].op IN
  \/ arms' = arms + 1 /\ request[r].pc # "consuming"
  \/ /\ arms' = arms
     /\ Armed(op)' => Armed(op)
     /\ Armed(op) /\ request[r].pc \in Waiting =>
          Armed(op)' \/ (request[r].pc # "consuming" /\ use'[op] = "ERASED")

LEMMA OthersKeepAck ==
  ASSUME DataOK, NEW r \in Requests, AckOf(r), UsesMove, FaultMoves(r),
         request'[r] = request[r]
  PROVE  AckOf(r)'
<1> DEFINE op == request[r].op
<1>1. /\ request[r].arm \in Nat /\ arms \in Nat
      /\ op' = op /\ request'[r].pc = request[r].pc
      /\ request'[r].arm = request[r].arm /\ request'[r].late = request[r].late
  BY DEF DataOK, RequestRecords
<1>2. request[r].arm <= arms'
  BY <1>1 DEF AckOf, FaultMoves
<1>3. request[r].arm = arms' => arms' = arms
  BY <1>1 DEF AckOf, FaultMoves
<1>4. op \in Ops => \/ use'[op] = use[op] /\ (op \in delivered' => op \in delivered)
                    \/ use[op] \in {"NONE", "PENDING"} /\ use'[op] # "NONE"
                    \/ use[op] # "NONE" /\ use'[op] = "ERASED"
  BY DEF UsesMove
<1> QED
  BY <1>1, <1>2, <1>3, <1>4 DEF AckOf, FaultMoves, Active, Waiting

\* A step that leaves the requests alone.
LEMMA QuietStepKeepsAck ==
  ASSUME DataOK, AckInv, UsesMove, \A r \in Requests : FaultMoves(r),
         UNCHANGED request, WorkerOnPending'
  PROVE  AckInv'
<1>1. \A r \in Requests : AckOf(r)'
  BY OthersKeepAck DEF AckInv
<1>2. OneOwner'
  BY DEF AckInv, OneOwner
<1> QED
  BY <1>1, <1>2 DEF AckInv

\* A step of the request r that is about the operation it has.
LEMMA OwnStepKeepsAck ==
  ASSUME DataOK, AckInv, NEW r \in Requests, AckOf(r)', UsesMove,
         request'[r].op = request[r].op,
         request'[r].pc \in Active => request[r].pc \in Active,
         \A q \in Requests \ {r} : FaultMoves(q) /\ request'[q] = request[q],
         WorkerOnPending'
  PROVE  AckInv'
<1>1. \A q \in Requests : AckOf(q)'
  BY OthersKeepAck DEF AckInv
<1>2. OneOwner'
  <2>1. \A q \in Requests : /\ request'[q].op = request[q].op
                            /\ request'[q].pc \in Active => request[q].pc \in Active
    OBVIOUS
  <2> QED
    BY <2>1 DEF AckInv, OneOwner
<1> QED
  BY <1>1, <1>2 DEF AckInv

\* Nobody but the worker takes a lock for it.
LEMMA WorkerStaysOnPending ==
  ASSUME LocksOK, AckInv, \A o \in Ops : lock'[o] = "worker" => lock[o] = "worker",
         \A o \in Ops : lock[o] = "worker" => use'[o] = use[o]
  PROVE  WorkerOnPending'
BY DEF AckInv, WorkerOnPending

LEMMA ReleaseIsNotWorker ==
  ASSUME LocksOK, NEW who, lock' = Release(who)
  PROVE  \A o \in Ops : lock'[o] = "worker" => lock[o] = "worker"
<1>1. \A x \in Locks : /\ lock[x] = who => lock'[x] = Nobody
                       /\ lock[x] # who => lock'[x] = lock[x]
  BY ReleasedLocks DEF LocksOK
<1>2. \A o \in Ops : o \in Locks
  BY DEF Locks
<1> QED
  BY <1>1, <1>2, DemoAssumption

LEMMA TakeIsNotWorker ==
  ASSUME LocksOK, NEW who \in Holders \ {"worker"}, NEW xs \in SUBSET Locks, Take(who, xs)
  PROVE  \A o \in Ops : lock'[o] = "worker" => lock[o] = "worker"
<1>1. /\ \A x \in xs : lock'[x] = who
      /\ \A x \in Locks \ xs : lock'[x] = lock[x]
  BY TakeLocks DEF LocksOK
<1>2. \A o \in Ops : o \in Locks
  BY DEF Locks
<1> QED
  BY <1>1, <1>2

LEMMA AcceptKeepsAck ==
  ASSUME BaseInv, AckInv, NEW r \in Requests, NEW o \in Ops, Accept(r, o)
  PROVE  AckInv'
<1>1. /\ request[r].pc = "idle" /\ use[o] = "NONE"
      /\ use' = [use EXCEPT ![o] = "PENDING"]
      /\ UNCHANGED <<delivered, fault, lock, arms>>
      /\ request'[r] = [request[r] EXCEPT !.pc = "accepted", !.op = o]
      /\ \A q \in Requests \ {r} : request'[q] = request[q]
  BY DEF Accept, controls, BaseInv, DataOK
<1>2. UsesMove
  BY <1>1 DEF UsesMove, BaseInv, DataOK
<1>3. \A q \in Requests \ {r} : FaultMoves(q)
  BY <1>1 DEF FaultMoves, Armed
<1>4. AckOf(r)'
  <2>1. /\ request'[r].pc = "accepted" /\ request'[r].op = o
        /\ request'[r].arm = request[r].arm /\ request[r].arm <= arms
    BY <1>1 DEF BaseInv, DataOK, RequestRecords, AckInv, AckOf
  <2>2. use'[o] = "PENDING"
    BY <1>1 DEF BaseInv, DataOK
  <2> QED
    BY <1>1, <2>1, <2>2 DEF AckOf, Active, Waiting
<1>5. \A q \in Requests : AckOf(q)'
  BY <1>1, <1>2, <1>3, <1>4, OthersKeepAck DEF BaseInv, AckInv
<1>6. OneOwner'
  <2>1. \A q \in Requests : request[q].pc \in Active => request[q].op # o
    BY <1>1 DEF AckInv, AckOf
  <2>2. request'[r].op = o
    BY <1>1 DEF BaseInv, DataOK, RequestRecords
  <2>3. \A q \in Requests \ {r} : request'[q] = request[q]
    BY <1>1
  <2>4. OneOwner
    BY DEF AckInv
  <2> QED
    BY <2>1, <2>2, <2>3, <2>4 DEF OneOwner
<1>7. WorkerOnPending'
  BY <1>1, WorkerStaysOnPending DEF AckInv, WorkerOnPending, BaseInv, DataOK
<1> QED
  BY <1>5, <1>6, <1>7 DEF AckInv

LEMMA ReplayKeepsAck ==
  ASSUME BaseInv, AckInv, NEW r \in Requests, NEW o \in Ops, Replay(r, o)
  PROVE  AckInv'
<1>1. /\ request'[r] = [request[r] EXCEPT !.pc = "OK", !.op = o]
      /\ UNCHANGED <<use, delivered, fault, lock, arms>>
      /\ \A q \in Requests \ {r} : request'[q] = request[q]
  BY DEF Replay, verifier, controls, BaseInv, DataOK
<1>2. /\ request'[r].pc = "OK" /\ request'[r].op = o
      /\ request'[r].arm = request[r].arm /\ request[r].arm <= arms
  BY <1>1 DEF BaseInv, DataOK, RequestRecords, AckInv, AckOf
<1>3. \A q \in Requests : AckOf(q)'
  <2>1. AckOf(r)'
    BY <1>1, <1>2 DEF AckOf, Active, Waiting
  <2>2. UsesMove /\ \A q \in Requests \ {r} : FaultMoves(q)
    BY <1>1 DEF UsesMove, FaultMoves, Armed
  <2> QED
    BY <1>1, <2>1, <2>2, OthersKeepAck DEF BaseInv, AckInv
<1>4. OneOwner'
  <2>1. request'[r].pc \notin Active
    BY <1>2 DEF Active
  <2> QED
    BY <1>1, <2>1 DEF AckInv, OneOwner
<1>5. WorkerOnPending'
  BY <1>1 DEF AckInv, WorkerOnPending
<1> QED
  BY <1>3, <1>4, <1>5 DEF AckInv

\* A step of one request that changes neither uses nor the fault.
LEMMA ProgressKeepsAck ==
  ASSUME BaseInv, AckInv, NEW r \in Requests, AckOf(r)',
         request'[r].op = request[r].op,
         request'[r].pc \in Active => request[r].pc \in Active,
         \A q \in Requests \ {r} : request'[q] = request[q],
         UNCHANGED <<use, delivered, fault, arms>>,
         \A o \in Ops : lock'[o] = "worker" => lock[o] = "worker"
  PROVE  AckInv'
<1>1. UsesMove /\ \A q \in Requests \ {r} : FaultMoves(q)
  BY DEF UsesMove, FaultMoves, Armed
<1>2. WorkerOnPending'
  BY WorkerStaysOnPending DEF BaseInv
<1> QED
  BY <1>1, <1>2, OwnStepKeepsAck DEF BaseInv

LEMMA WaitKeepsAck ==
  ASSUME BaseInv, AckInv, NEW r \in Requests,
         CheckArmed(r) \/ Poll(r) \/ Timeout(r) \/ PollFails(r)
  PROVE  AckInv'
<1> USE DEF BaseInv
<1>1. UNCHANGED <<use, delivered, fault, lock, arms>>
  BY DEF CheckArmed, Poll, Timeout, PollFails, verifier, controls
<1>2. /\ AckOf(r) /\ request[r] \in RequestRecords /\ request[r].arm \in Nat /\ arms \in Nat
      /\ use \in [Ops -> UseStates]
  BY DEF AckInv, DataOK, RequestRecords
<1>3. /\ AckOf(r)' /\ request'[r].op = request[r].op /\ request[r].pc \in Active
      /\ \A q \in Requests \ {r} : request'[q] = request[q]
  <2>1. CASE CheckArmed(r) /\ Armed(request[r].op) /\ fault.run = run
    <3>1. /\ request[r].pc = "accepted"
          /\ request'[r] = [request[r] EXCEPT !.pc = "waiting", !.arm = arms]
          /\ \A q \in Requests \ {r} : request'[q] = request[q]
      BY <2>1 DEF CheckArmed, DataOK
    <3>2. /\ request'[r].pc = "waiting" /\ request'[r].arm = arms
          /\ request'[r].op = request[r].op
      BY <1>2, <3>1 DEF RequestRecords
    <3> QED
      BY <1>1, <1>2, <2>1, <3>1, <3>2 DEF AckOf, Active, Waiting, Armed
  <2>2. CASE CheckArmed(r) /\ ~(Armed(request[r].op) /\ fault.run = run)
    <3>1. request[r].pc = "accepted" /\ To(r, "OK")
      BY <2>2 DEF CheckArmed
    <3> QED
      BY <1>1, <1>2, <3>1, ToChangesOne DEF AckOf, Active, Waiting, Armed, Pcs, Answers
  <2>3. CASE Poll(r) /\ use[request[r].op] = "SUCCEEDED"
    <3>1. request[r].pc = "waiting" /\ To(r, "durable")
      BY <2>3 DEF Poll
    <3> QED
      BY <1>1, <1>2, <2>3, <3>1, ToChangesOne DEF AckOf, Active, Waiting, Armed, Pcs
  <2>4. CASE Poll(r) /\ use[request[r].op] # "SUCCEEDED"
    <3>1. request[r].pc = "waiting" /\ To(r, "refused") /\ use[request[r].op] # "PENDING"
      BY <2>4 DEF Poll
    <3>2. use[request[r].op] \in {"FAILED", "ERASED"}
      BY <1>2, <2>4, <3>1 DEF AckOf, UseStates, Active
    <3> QED
      BY <1>1, <1>2, <3>1, <3>2, ToChangesOne DEF AckOf, Active, Waiting, Armed, Pcs
  <2>5. CASE Timeout(r)
    <3>1. /\ request[r].pc = "waiting"
          /\ request'[r] = [request[r] EXCEPT !.pc = "refused", !.late = TRUE]
          /\ \A q \in Requests \ {r} : request'[q] = request[q]
      BY <2>5 DEF Timeout, DataOK
    <3>2. /\ request'[r].pc = "refused" /\ request'[r].arm = request[r].arm
          /\ request'[r].op = request[r].op /\ request'[r].late
      BY <1>2, <3>1 DEF RequestRecords
    <3> QED
      BY <1>1, <1>2, <3>1, <3>2 DEF AckOf, Active, Waiting, Armed
  <2>6. CASE PollFails(r)
    <3>1. request[r].pc = "waiting" /\ To(r, "broken")
      BY <2>6 DEF PollFails
    <3> QED
      BY <1>1, <1>2, <3>1, ToChangesOne DEF AckOf, Active, Waiting, Armed, Pcs
  <2> QED
    BY <2>1, <2>2, <2>3, <2>4, <2>5, <2>6
<1> QED
  BY <1>1, <1>3, ProgressKeepsAck

LEMMA LockFaultKeepsAck ==
  ASSUME BaseInv, AckInv, NEW r \in Requests, LockFault(r)
  PROVE  AckInv'
<1> USE DEF BaseInv
<1>1. UNCHANGED <<use, delivered, fault, arms>> /\ request[r].pc = "durable"
  BY DEF LockFault, controls
<1>2. AckOf(r) /\ use \in [Ops -> UseStates]
  BY DEF AckInv, DataOK
<1>3. CASE Armed(request[r].op)
  <2>1. To(r, "consuming") /\ Take(r, {"fault"})
    BY <1>3 DEF LockFault
  <2>2. \A o \in Ops : lock'[o] = "worker" => lock[o] = "worker"
    <3>1. r \in Holders \ {"worker"} /\ {"fault"} \in SUBSET Locks
      BY DemoAssumption DEF Holders, Locks
    <3> QED
      BY <2>1, <3>1, TakeIsNotWorker
  <2>3. AckOf(r)'
    BY <1>1, <1>2, <1>3, <2>1, ToChangesOne DEF AckOf, Active, Waiting, Armed, Pcs
  <2> QED
    BY <1>1, <2>1, <2>2, <2>3, ToChangesOne, ProgressKeepsAck DEF Active, Pcs
<1>4. CASE ~Armed(request[r].op)
  <2>1. To(r, "refused") /\ UNCHANGED lock
    BY <1>4 DEF LockFault
  <2>2. request[r].arm # arms \/ use[request[r].op] = "ERASED"
    BY <1>1, <1>2, <1>4 DEF AckOf, Waiting
  <2>3. AckOf(r)'
    BY <1>1, <1>2, <2>1, <2>2, ToChangesOne DEF AckOf, Active, Waiting, Armed, Pcs
  <2> QED
    BY <1>1, <2>1, <2>3, ToChangesOne, ProgressKeepsAck DEF Active, Pcs
<1> QED
  BY <1>3, <1>4

LEMMA StopKeepsAck ==
  ASSUME BaseInv, AckInv, NEW r \in Requests,
         Crash(r) \/ \E s \in Resetters : AbortConsume(s, r)
  PROVE  AckInv'
<1> USE DEF BaseInv
<1>1. Fails(r) /\ lock' = Release(r) /\ UNCHANGED <<use, delivered, fault, arms>>
  BY DEF Crash, AbortConsume, controls
<1>2. request[r].pc # "idle"
  BY DemoAssumption DEF Crash, AbortConsume, LocksOK
<1>3. AckOf(r)'
  <2>1. 0 <= arms
    BY DemoAssumption DEF DataOK
  <2> QED
    BY <1>1, <1>2, <2>1, FailsChangesOne DEF AckInv, AckOf, Active, Waiting
<1>4. request'[r].pc \notin Active
  BY <1>1, FailsChangesOne DEF Active
<1> QED
  BY <1>1, <1>3, <1>4, FailsChangesOne, ReleaseIsNotWorker, ProgressKeepsAck

\* The fault that is taken away is the own one: no other request waits for it.
LEMMA FaultIsOwn ==
  ASSUME AckInv, NEW r \in Requests, request[r].pc \in Active, Armed(request[r].op),
         ~fault'.enabled, UNCHANGED <<use, delivered, arms>>,
         \A q \in Requests \ {r} : request'[q] = request[q]
  PROVE  \A q \in Requests \ {r} : FaultMoves(q)
<1> TAKE q \in Requests \ {r}
<1>1. ~(Armed(request[q].op) /\ request[q].pc \in Waiting)
  <2> SUFFICES ASSUME Armed(request[q].op), request[q].pc \in Waiting PROVE FALSE
    OBVIOUS
  <2>1. request[q].op = request[r].op
    BY DEF Armed
  <2>2. request[q].pc \in Active
    BY DEF Waiting, Active
  <2> QED
    BY <2>1, <2>2 DEF AckInv, OneOwner
<1> QED
  BY <1>1 DEF FaultMoves, Armed

LEMMA ConsumeKeepsAck ==
  ASSUME BaseInv, AckInv, NEW r \in Requests, Consume(r)
  PROVE  AckInv'
<1> USE DEF BaseInv
<1>1. /\ request[r].pc = "consuming" /\ lock' = Release(r) /\ UNCHANGED <<run, use, delivered, arms>>
  BY DEF Consume, controls
<1>2. AckOf(r) /\ fault.enabled /\ fault.run = run
  BY <1>1 DEF AckInv, AckOf, Armed, ResetInv, FaultIsOfActiveRun
<1>3. UsesMove /\ WorkerOnPending'
  BY <1>1, ReleaseIsNotWorker, WorkerStaysOnPending DEF UsesMove
<1>4. CASE Durable(request[r].op)
  <2>1. /\ To(r, "DROPPED") /\ fault' = [fault EXCEPT !.enabled = FALSE]
    BY <1>2, <1>4 DEF Consume
  <2>2. ~fault'.enabled
    BY <2>1 DEF DataOK, FaultRecords
  <2>3. AckOf(r)'
    BY <1>1, <1>2, <2>1, <2>2, ToChangesOne DEF AckOf, Active, Waiting, Armed, Pcs, Answers
  <2>4. \A q \in Requests \ {r} : FaultMoves(q)
    BY <1>1, <1>2, <2>1, <2>2, ToChangesOne, FaultIsOwn DEF AckOf, Active, Pcs, Answers
  <2> QED
    BY <1>1, <1>3, <2>1, <2>3, <2>4, ToChangesOne, OwnStepKeepsAck DEF Active, Pcs, Answers
<1>5. CASE ~Durable(request[r].op)
  <2>1. To(r, "refused") /\ UNCHANGED fault
    BY <1>5 DEF Consume
  <2>2. \/ use[request[r].op] = "ERASED"
        \/ use[request[r].op] = "SUCCEEDED" /\ request[r].op \notin delivered
    BY <1>1, <1>2, <1>5 DEF AckOf, Durable
  <2>3. AckOf(r)'
    BY <1>1, <1>2, <2>1, <2>2, ToChangesOne DEF AckOf, Active, Waiting, Armed, Pcs
  <2> QED
    BY <1>1, <2>1, <2>3, ToChangesOne, ReleaseIsNotWorker, ProgressKeepsAck DEF Active, Pcs
<1> QED
  BY <1>4, <1>5

LEMMA CancelKeepsAck ==
  ASSUME BaseInv, AckInv, NEW r \in Requests, Cancel(r)
  PROVE  AckInv'
<1> USE DEF BaseInv
<1>1. /\ request[r].pc \in {"refused", "broken"} /\ UNCHANGED <<use, delivered, lock, arms>>
      /\ fault' = IF Armed(request[r].op) THEN NoFault ELSE fault
  BY DEF Cancel, Cancelled, controls
<1>2. AckOf(r)
  BY DEF AckInv
<1>3. /\ request'[r].pc \in {"UNAVAILABLE", "ERROR"} /\ request'[r].op = request[r].op
      /\ request'[r].pc = "UNAVAILABLE" =>
           /\ request[r].pc = "refused"
           /\ request'[r].arm = request[r].arm /\ request'[r].late = request[r].late
      /\ request'[r].arm <= arms
      /\ \A q \in Requests \ {r} : request'[q] = request[q]
  <2>1. CASE request[r].pc = "refused"
    <3>1. To(r, "UNAVAILABLE")
      BY <2>1 DEF Cancel
    <3> QED
      BY <1>2, <2>1, <3>1, ToChangesOne DEF Pcs, Answers, AckOf
  <2>2. CASE request[r].pc # "refused"
    <3>1. Fails(r) /\ 0 <= arms
      BY <2>2, DemoAssumption DEF Cancel, DataOK
    <3> QED
      BY <3>1, FailsChangesOne
  <2> QED
    BY <2>1, <2>2
<1>4. ~Armed(request[r].op)'
  BY <1>1, <1>3 DEF Armed, NoFault
<1>5. AckOf(r)'
  BY <1>1, <1>2, <1>3, <1>4 DEF AckOf, Active, Waiting
<1>6. UsesMove /\ WorkerOnPending'
  BY <1>1 DEF UsesMove, AckInv, WorkerOnPending
<1>7. \A q \in Requests \ {r} : FaultMoves(q)
  <2>1. CASE Armed(request[r].op)
    BY <1>1, <1>3, <2>1, FaultIsOwn DEF Active, NoFault
  <2>2. CASE ~Armed(request[r].op)
    BY <1>1, <1>3, <2>2 DEF FaultMoves, Armed
  <2> QED
    BY <2>1, <2>2
<1> QED
  BY <1>3, <1>5, <1>6, <1>7, OwnStepKeepsAck DEF Active

\* Steps that only move locks.
LEMMA LocksKeepAck ==
  ASSUME BaseInv, AckInv, UNCHANGED <<use, delivered, fault, request, arms>>,
         \A o \in Ops : lock'[o] = "worker" => lock[o] = "worker"
  PROVE  AckInv'
<1>1. UsesMove /\ \A r \in Requests : FaultMoves(r)
  BY DEF UsesMove, FaultMoves, Armed
<1>2. WorkerOnPending'
  BY WorkerStaysOnPending DEF BaseInv
<1> QED
  BY <1>1, <1>2, QuietStepKeepsAck DEF BaseInv

LEMMA WorkerKeepsAck ==
  ASSUME BaseInv, AckInv, NEW o \in Ops,
         LockUse(o) \/ \E status \in {"SUCCEEDED", "FAILED"} : Settle(o, status)
  PROVE  AckInv'
<1> USE DEF BaseInv
<1>1. use[o] = "PENDING" /\ UNCHANGED <<fault, request, arms>>
  BY DEF LockUse, Settle, controls, AckInv, WorkerOnPending
<1>2. UsesMove
  BY <1>1 DEF UsesMove, LockUse, Settle, DataOK
<1>3. \A r \in Requests : FaultMoves(r)
  BY <1>1 DEF FaultMoves, Armed
<1>4. WorkerOnPending'
  <2>1. CASE LockUse(o)
    BY <1>1, <2>1 DEF LockUse, Take, AckInv, WorkerOnPending, LocksOK, Locks
  <2>2. CASE \E status \in {"SUCCEEDED", "FAILED"} : Settle(o, status)
    <3>1. lock' = [lock EXCEPT ![o] = Nobody] /\ \A p \in Ops \ {o} : use'[p] = use[p]
      BY <2>2 DEF Settle, DataOK
    <3> QED
      BY <3>1, DemoAssumption DEF AckInv, WorkerOnPending, LocksOK, Locks
  <2> QED
    BY <2>1, <2>2
<1> QED
  BY <1>1, <1>2, <1>3, <1>4, QuietStepKeepsAck

LEMMA ArmKeepsAck ==
  ASSUME BaseInv, AckInv, Arm \/ \E s \in Resetters : AbortArm(s)
  PROVE  AckInv'
<1> USE DEF BaseInv
<1>1. CASE \E o \in Ops : StartArm(o)
  <2>1. Take("arm", {"fault"}) /\ UNCHANGED <<use, delivered, fault, request, arms>>
    BY <1>1 DEF StartArm
  <2>2. "arm" \in Holders \ {"worker"} /\ {"fault"} \in SUBSET Locks
    BY DEF Holders, Locks
  <2> QED
    BY <2>1, <2>2, TakeIsNotWorker, LocksKeepAck
<1>2. CASE (FinishArm /\ arming.run # run) \/ \E s \in Resetters : AbortArm(s)
  <2>1. lock' = Release("arm") /\ UNCHANGED <<use, delivered, fault, request, arms>>
    BY <1>2 DEF FinishArm, AbortArm
  <2> QED
    BY <2>1, ReleaseIsNotWorker, LocksKeepAck
<1>3. CASE FinishArm /\ arming.run = run
  <2>1. lock' = Release("arm") /\ UNCHANGED <<use, delivered, request>> /\ arms' = arms + 1
    BY <1>3 DEF FinishArm
  <2>2. \A r \in Requests : request[r].pc # "consuming"
    BY <1>3, DemoAssumption DEF FinishArm, LocksOK
  <2>3. UsesMove /\ \A r \in Requests : FaultMoves(r)
    BY <2>1, <2>2 DEF UsesMove, FaultMoves
  <2>4. WorkerOnPending'
    BY <2>1, ReleaseIsNotWorker, WorkerStaysOnPending
  <2> QED
    BY <2>1, <2>3, <2>4, QuietStepKeepsAck
<1> QED
  BY <1>1, <1>2, <1>3 DEF Arm

LEMMA ResetKeepsAck ==
  ASSUME BaseInv, AckInv, NEW s \in Resetters,
         \/ StartReset(s) \/ Fence(s) \/ \E reached \in BOOLEAN : FenceFails(s, reached)
         \/ LockRun(s) \/ LockUses(s) \/ AbortReset(s)
         \/ \E o \in Ops : AbortCompletion(s, o)
  PROVE  AckInv'
<1> USE DEF BaseInv
<1>1. UNCHANGED <<use, delivered, fault, request, arms>>
  BY DEF StartReset, Fence, FenceFails, LockRun, LockUses, AbortReset, AbortCompletion, verifier,
         controls
<1>2. \A o \in Ops : lock'[o] = "worker" => lock[o] = "worker"
  <2>1. CASE UNCHANGED lock
    BY <2>1
  <2>2. CASE lock' = Release(s)
    BY <2>2, ReleaseIsNotWorker
  <2>3. CASE \E xs \in SUBSET Locks : Take(s, xs)
    <3>1. s \in Holders \ {"worker"}
      BY DemoAssumption DEF Holders
    <3> QED
      BY <2>3, <3>1, TakeIsNotWorker
  <2>4. CASE \E o \in Ops : lock' = [lock EXCEPT ![o] = Nobody]
    BY <2>4, DemoAssumption DEF LocksOK, Locks
  <2>5. {"run"} \in SUBSET Locks /\ Ops \in SUBSET Locks
    BY DEF Locks
  <2> QED
    BY <2>1, <2>2, <2>3, <2>4, <2>5 DEF StartReset, Fence, FenceFails, LockRun, LockUses,
       AbortReset, AbortCompletion, verifier
<1> QED
  BY <1>1, <1>2, LocksKeepAck

LEMMA EraseKeepsAck ==
  ASSUME BaseInv, AckInv, NEW s \in Resetters, Erase(s)
  PROVE  AckInv'
<1> USE DEF BaseInv
<1>1. /\ use' = [o \in Ops |-> IF use[o] = "NONE" THEN "NONE" ELSE "ERASED"]
      /\ delivered' = {}
      /\ fault.run = run => lock["fault"] = Nobody
      /\ fault' = IF fault.run = run THEN NoFault ELSE fault
      /\ lock' = Release(s) /\ UNCHANGED <<request, arms>>
      /\ \A o \in Ops : lock[o] = s
  BY DEF Erase, Free, LocksOK
<1>2. UsesMove
  BY <1>1 DEF UsesMove
<1>3. \A r \in Requests : FaultMoves(r)
  <2> TAKE r \in Requests
  <2>1. CASE fault.run # run
    BY <1>1, <2>1 DEF FaultMoves, Armed
  <2>2. CASE fault.run = run
    <3>1. request[r].pc # "consuming" /\ ~fault'.enabled
      BY <1>1, <2>2, DemoAssumption DEF LocksOK, NoFault
    <3>2. request[r].pc \in Waiting => use'[request[r].op] = "ERASED"
      BY <1>1 DEF AckInv, AckOf, Waiting, Active
    <3> QED
      BY <1>1, <3>1, <3>2 DEF FaultMoves, Armed
  <2> QED
    BY <2>1, <2>2
<1>4. WorkerOnPending'
  <2>1. \A o \in Ops : lock[o] # "worker"
    BY <1>1, DemoAssumption
  <2> QED
    BY <1>1, <2>1, ReleaseIsNotWorker DEF WorkerOnPending
<1> QED
  BY <1>1, <1>2, <1>3, <1>4, QuietStepKeepsAck

-----------------------------------------------------------------------------
(* What the invariant of acknowledgements says.                            *)

LEMMA NextKeepsAck == BaseInv /\ AckInv /\ [Next]_vars => AckInv'
<1> SUFFICES ASSUME BaseInv, AckInv, [Next]_vars PROVE AckInv'
  OBVIOUS
<1>1. ASSUME NEW r \in Requests, NEW o \in Ops, Accept(r, o) \/ Replay(r, o) PROVE AckInv'
  BY <1>1, AcceptKeepsAck, ReplayKeepsAck
<1>2. ASSUME NEW r \in Requests, Answering(r) \/ PollFails(r) \/ Crash(r) PROVE AckInv'
  BY <1>2, WaitKeepsAck, LockFaultKeepsAck, ConsumeKeepsAck, CancelKeepsAck, StopKeepsAck
     DEF Answering
<1>3. ASSUME NEW s \in Resetters,
             \/ StartReset(s) \/ Fence(s) \/ \E reached \in BOOLEAN : FenceFails(s, reached)
             \/ LockRun(s) \/ LockUses(s) \/ AbortReset(s)
             \/ \E o \in Ops : AbortCompletion(s, o)
      PROVE  AckInv'
  BY <1>3, ResetKeepsAck
<1>4. ASSUME NEW s \in Resetters, Erase(s) PROVE AckInv'
  BY <1>4, EraseKeepsAck
<1>5. ASSUME NEW s \in Resetters, AbortArm(s) PROVE AckInv'
  BY <1>5, ArmKeepsAck
<1>6. ASSUME NEW s \in Resetters, NEW r \in Requests, AbortConsume(s, r) PROVE AckInv'
  BY <1>6, StopKeepsAck
<1>7. CASE Worker
  BY <1>7, WorkerKeepsAck DEF Worker
<1>8. CASE Arm
  BY <1>8, ArmKeepsAck
<1>9. CASE UNCHANGED vars
  BY <1>9, LocksKeepAck DEF vars
<1> QED
  BY <1>1, <1>2, <1>3, <1>4, <1>5, <1>6, <1>7, <1>8, <1>9 DEF Next, Resetting, Abort

\* What every request under way knows about its operation and its fault: the
\* invariant that the theorems about acknowledgements rest on.
THEOREM AckInvariance == Spec => []AckInv
<1>1. Init => BaseInv /\ AckInv
  BY InitBase, InitAck DEF BaseInv
<1>2. BaseInv /\ AckInv /\ [Next]_vars => BaseInv' /\ AckInv'
  BY NextKeepsBase, NextKeepsAck
<1> QED
  BY <1>1, <1>2, PTL DEF Spec

\* The request that waits to drop its acknowledgement keeps its fault, whatever
\* other requests, the worker and failing resets do.
THEOREM WaiterKeeps == Spec => []WaiterKeepsFault
<1>1. AckInv => WaiterKeepsFault
  BY DEF AckInv, AckOf, WaiterKeepsFault, Waiting
<1> QED
  BY <1>1, AckInvariance, PTL

\* An acknowledgement is withheld undropped only with a cause.
THEOREM UnavailableHasItsCause == Spec => []UnavailableHasCause
<1>1. AckInv => UnavailableHasCause
  BY DEF AckInv, AckOf, UnavailableHasCause
<1> QED
  BY <1>1, AckInvariance, PTL

\* The fault is spent by the request that it was for.
THEOREM FaultOnce == Spec => []FaultIsSpent
<1>1. AckInv => FaultIsSpent
  BY DEF AckInv, AckOf, FaultIsSpent
<1> QED
  BY <1>1, AckInvariance, PTL

=============================================================================
