------------------------------- MODULE Wallet -------------------------------
(***************************************************************************)
(* The browser wallet of wallet-service.ts over its IndexedDB stores and   *)
(* over a verifier that answers as Acceptance does.  A flow is one running *)
(* call of the service by a page.  While a button's call runs the page is  *)
(* busy and starts no other; the effect that loads the page and resumes a  *)
(* pending operation does not make it busy, and runs beside them.  A step  *)
(* of a flow is one transaction of the stores, with what the code does     *)
(* between it and the last await; a flow works on the copies it read,      *)
(* while others write the stores.                                          *)
(*                                                                         *)
(* All operations ask for the same action, as ACTION does, so an operation *)
(* is known by its id.  A credential is a number; a challenge too.         *)
(***************************************************************************)
EXTENDS Integers, FiniteSets, Sequences

CONSTANTS
  Flows,          \* service calls that may run at the same time
  Page,           \* the page each of them is of
  Arming,         \* those among them that may arm the fault
  Resetting,      \* and those that may reset the demo
  Ops,            \* operation ids to draw from
  NoOp, NoFlow,   \* no operation, no flow
  L,              \* policy.maxUses
  MaxRun,         \* bound: demo runs are 1..MaxRun
  MaxIssued,      \* bound: credentials issued
  MaxChallenges,  \* bound: challenges created
  MaxWire         \* bound: presentations under way at once

ASSUME ConstantsAssumption ==
  /\ NoOp \notin Ops /\ NoFlow \notin Flows /\ Arming \cup Resetting \subseteq Flows
  /\ DOMAIN Page = Flows
  /\ L \in Nat \ {0}
  /\ MaxRun \in Nat \ {0} /\ MaxIssued \in Nat /\ MaxChallenges \in Nat
  /\ MaxWire \in Nat \ {0}

VARIABLES
  cred,     \* store "credentials": the active record
  ops,      \* store "operations", by operation id
  latest,   \* the operation with the greatest updatedAt
  flow,     \* each flow: where it is and the copies it works on
  minted,   \* operation ids drawn so far
  wire,     \* presentations under way to, or inside, the verifier
  run,      \* the verifier's active demo run
  runOf,    \* the run each credential was issued for; 0 before
  ledger,   \* use_records by operation
  challenges, \* the run each challenge was created for, in order
  expired   \* challenges past their expiry

local  == <<cred, ops, latest>>
server == <<run, runOf, ledger, challenges, expired>>
vars   == <<cred, ops, latest, flow, minted, wire, run, runOf, ledger,
            challenges, expired>>

-----------------------------------------------------------------------------
Creds == [id: 0..MaxIssued, next: 0..L, prepared: Ops \cup {NoOp}]

NoCred == [id |-> 0, next |-> 0, prepared |-> NoOp]

Terminal == {"SUCCEEDED", "FAILED_FINAL"}

Records ==
  [state: {"NONE", "PENDING", "OUTCOME_UNKNOWN", "SUCCEEDED", "FAILED"},
   cred: 0..MaxIssued, slot: 0..L, ch: 0..MaxChallenges, useId: BOOLEAN,
   result: Terminal \cup {"NONE"}]

NoRecord == [state |-> "NONE", cred |-> 0, slot |-> 0, ch |-> 0,
             useId |-> FALSE, result |-> "NONE"]

Uses == [status: Terminal \cup {"NONE", "ACCEPTED_PENDING_ACTION"},
         cred: 0..MaxIssued, slot: 0..L, ch: 0..MaxChallenges]

NoUse == [status |-> "NONE", cred |-> 0, slot |-> 0, ch |-> 0]

\* Error answers below and above 500, and results of a use.
Refusals == {"CHALLENGE_EXPIRED", "PRESENTATION_REJECTED", "CONFLICT"}

Answers == Refusals \cup Terminal \cup {"NONE", "LOST", "ACCEPTED_PENDING_ACTION"}

\* cred, op and rec are the copies the flow holds.
FlowStates ==
  [pc: {"idle", "load", "reconcile", "prepare", "send", "sent", "answered", "refresh",
        "release", "poll", "issue", "clear", "arm"},
   mode: {"use", "retry", "resume"}, attempt: 0..1, cred: Creds, op: Ops \cup {NoOp},
   rec: Records, answer: Answers]

Idle == [pc |-> "idle", mode |-> "use", attempt |-> 0, cred |-> NoCred,
         op |-> NoOp, rec |-> NoRecord, answer |-> "NONE"]

Unresolved(rec) == rec.state \in {"PENDING", "OUTCOME_UNKNOWN"}

Stored == IF latest = NoOp THEN NoRecord ELSE ops[latest]

Init ==
  /\ cred = NoCred
  /\ ops = [o \in Ops |-> NoRecord]
  /\ latest = NoOp
  /\ flow = [f \in Flows |-> Idle]
  /\ minted = {}
  /\ wire = {}
  /\ run = 1
  /\ runOf = [n \in 1..MaxIssued |-> 0]
  /\ ledger = [o \in Ops |-> NoUse]
  /\ challenges = <<>>
  /\ expired = {}

-----------------------------------------------------------------------------
(* Transactions of the stores.                                             *)

Go(f, state) == flow' = [flow EXCEPT ![f] = state]

\* Mutant: the store holds one operation.
SaveOperation_KeepsOne(o, rec) ==
  /\ ops' = [p \in Ops |-> IF p = o THEN rec ELSE NoRecord]
  /\ latest' = o
  /\ UNCHANGED cred

\* saveOperation puts the whole record the flow holds.
SaveOperation(o, rec) ==
  /\ ops' = [ops EXCEPT ![o] = rec]
  /\ latest' = o
  /\ UNCHANGED cred

MarkOutcomeUnknown(o, rec) ==
  SaveOperation(o, [rec EXCEPT !.state = "OUTCOME_UNKNOWN"])

\* Mutant: every completion moves the cursor on.
CompleteAcceptedOperation_Increments(o, rec) ==
  /\ cred.id = rec.cred /\ cred # NoCred
  /\ ops' = [ops EXCEPT ![o] = rec]
  /\ cred' = [cred EXCEPT !.next = IF @ < L THEN @ + 1 ELSE @, !.prepared = NoOp]

\* completeAcceptedOperation: the record and the slot cursor together, for the
\* credential the operation is bound to, or else nothing.
CompleteAcceptedOperation(o, rec) ==
  /\ cred.id = rec.cred /\ cred # NoCred
  /\ ops' = [ops EXCEPT ![o] = rec]
  /\ cred' = [cred EXCEPT !.next = IF @ > rec.slot THEN @ ELSE rec.slot + 1,
                          !.prepared = NoOp]

\* operationState
WithResult(rec, status) ==
  [rec EXCEPT !.useId = TRUE,
              !.state = CASE status = "SUCCEEDED"    -> "SUCCEEDED"
                          [] status = "FAILED_FINAL" -> "FAILED"
                          [] OTHER                   -> "PENDING",
              !.result = IF status \in Terminal THEN status ELSE @]

\* saveAcceptedState; a result that no longer belongs to the credential throws.
SaveAcceptedState(f, o, rec) ==
  IF rec.state = "PENDING"
    THEN SaveOperation(o, rec) /\ Go(f, [flow[f] EXCEPT !.pc = "poll", !.rec = rec])
    ELSE /\ \/ CompleteAcceptedOperation(o, rec) /\ latest' = o
            \/ /\ cred = NoCred \/ cred.id # rec.cred
               /\ UNCHANGED local
         /\ Go(f, Idle)

-----------------------------------------------------------------------------
(* loadWallet, and how each call goes on from it.                          *)

SamePage(f) == {g \in Flows \ {f} : Page[g] = Page[f]}

\* A button may be pressed: the page is not busy.
Quiet(f) ==
  \A g \in SamePage(f) : flow[g].pc = "idle" \/ flow[g].mode = "resume"

\* The operation of another credential is not shown; with no credential the
\* latest one is.
Shown == IF cred # NoCred /\ Stored.cred # cred.id THEN NoRecord ELSE Stored

\* A terminal operation whose slot is not retired yet.
NeedsReconciling ==
  /\ cred # NoCred
  /\ Shown.state \in {"SUCCEEDED", "FAILED"} /\ Shown.result \in Terminal
  /\ cred.next <= Shown.slot \/ cred.prepared = latest

\* The load effect, and a loadWallet that ends a call, find the page as it is.
StartReconciling(f, mode) ==
  /\ flow[f].pc = "idle" \/ (flow[f].pc = "load" /\ mode = "resume")
  /\ mode # "resume" => Quiet(f)
  /\ NeedsReconciling
  /\ Go(f, [Idle EXCEPT !.pc = "reconcile", !.mode = mode, !.op = latest,
                        !.rec = Shown])
  /\ UNCHANGED <<local, minted, wire, server>>

\* What performWalletUse does with what loadWallet returned.
MayUse(c) == c # NoCred /\ c.next < L

UseFrom(f, c) ==
  IF MayUse(c) THEN Go(f, [Idle EXCEPT !.pc = "prepare", !.cred = c])
               ELSE Go(f, Idle)

Reconcile(f) ==
  /\ flow[f].pc = "reconcile"
  /\ \/ /\ CompleteAcceptedOperation(flow[f].op, flow[f].rec)
        /\ IF flow[f].mode = "use" THEN UseFrom(f, cred') ELSE Go(f, Idle)
        /\ UNCHANGED latest
     \/ /\ cred = NoCred \/ cred.id # flow[f].rec.cred
        /\ Go(f, Idle)
        /\ UNCHANGED local
  /\ UNCHANGED <<minted, wire, server>>

StartUse(f) ==
  /\ flow[f].pc = "idle" /\ Quiet(f) /\ ~NeedsReconciling
  /\ MayUse(cred) /\ ~Unresolved(Shown)
  /\ UseFrom(f, cred)
  /\ UNCHANGED <<local, minted, wire, server>>

\* retryLastWalletUse
StartRetry(f) ==
  /\ flow[f].pc = "idle" /\ Quiet(f)
  /\ Unresolved(Shown)
  /\ Go(f, [Idle EXCEPT !.pc = "send", !.mode = "retry", !.op = latest,
                        !.rec = Shown])
  /\ UNCHANGED <<local, minted, wire, server>>

Resumable == Shown.state = "PENDING" /\ Shown.useId

\* A page opens, and the load effect finds an operation to resume; nothing but
\* issuance and reset can be asked of a page before it has shown its wallet.
OpenPage(f) ==
  /\ flow[f].pc = "idle"
  /\ \A g \in SamePage(f) : flow[g].pc \in {"idle", "issue", "clear"}
  /\ Resumable
  /\ Go(f, [Idle EXCEPT !.pc = "load", !.mode = "resume"])
  /\ UNCHANGED <<local, minted, wire, server>>

\* resumePendingWalletUse, which loads the wallet again.
StartResume(f) ==
  /\ flow[f].pc = "load" /\ ~NeedsReconciling
  /\ Go(f, IF Resumable
           THEN [Idle EXCEPT !.pc = "poll", !.mode = "resume", !.op = latest, !.rec = Shown]
           ELSE Idle)
  /\ UNCHANGED <<local, minted, wire, server>>

-----------------------------------------------------------------------------
(* Submitting an operation.                                                *)

NewChallenge == /\ Len(challenges) < MaxChallenges
                /\ challenges' = Append(challenges, run)

\* createChallenge, then the operation is saved before it is first sent.  Its id
\* is the prepared one, or drawn at random.
Prepare(f) ==
  /\ flow[f].pc = "prepare"
  /\ NewChallenge
  /\ \E o \in Ops :
       /\ IF flow[f].cred.prepared = NoOp THEN o \notin minted
                                          ELSE o = flow[f].cred.prepared
       /\ minted' = minted \cup {o}
       /\ LET rec == [NoRecord EXCEPT !.state = "PENDING", !.cred = flow[f].cred.id,
                                      !.slot = flow[f].cred.next, !.ch = Len(challenges')]
          IN  /\ SaveOperation(o, rec)
              /\ Go(f, [flow[f] EXCEPT !.pc = "send", !.op = o, !.rec = rec])
  /\ UNCHANGED <<wire, run, runOf, ledger, expired>>

Message(f) == [owner |-> f, op |-> flow[f].op, cred |-> flow[f].rec.cred,
               slot |-> flow[f].rec.slot, ch |-> flow[f].rec.ch, stage |-> "sent"]

Send(f) ==
  /\ flow[f].pc = "send"
  /\ Cardinality(wire) < MaxWire
  /\ wire' = wire \cup {Message(f)}
  /\ Go(f, [flow[f] EXCEPT !.pc = "sent"])
  /\ UNCHANGED <<local, minted, server>>

\* A result of the use, new or replayed.
HandleResult(f) ==
  /\ flow[f].pc = "answered"
  /\ flow[f].answer \in Terminal \cup {"ACCEPTED_PENDING_ACTION"}
  /\ SaveAcceptedState(f, flow[f].op, WithResult(flow[f].rec, flow[f].answer))
  /\ UNCHANGED <<minted, wire, server>>

\* No answer, an unreadable one, or a server error.
HandleLoss(f) ==
  /\ flow[f].pc = "answered" /\ flow[f].answer = "LOST"
  /\ MarkOutcomeUnknown(flow[f].op, flow[f].rec)
  /\ Go(f, Idle)
  /\ UNCHANGED <<minted, wire, server>>

Refreshes(f) == /\ flow[f].mode = "retry" /\ flow[f].attempt = 0
                /\ flow[f].answer = "CHALLENGE_EXPIRED"

\* markDefinitiveFailure, first transaction.
HandleRefusal(f) ==
  /\ flow[f].pc = "answered" /\ flow[f].answer \in Refusals /\ ~Refreshes(f)
  /\ SaveOperation(flow[f].op, [flow[f].rec EXCEPT !.state = "FAILED"])
  /\ Go(f, [flow[f] EXCEPT !.pc = "release"])
  /\ UNCHANGED <<minted, wire, server>>

\* clearPreparedOperation
Release(f) ==
  /\ flow[f].pc = "release"
  /\ cred' = IF cred.id = flow[f].rec.cred /\ cred.prepared = flow[f].op
             THEN [cred EXCEPT !.prepared = NoOp] ELSE cred
  /\ Go(f, Idle)
  /\ UNCHANGED <<ops, latest, minted, wire, server>>

HandleExpiry(f) ==
  /\ flow[f].pc = "answered" /\ Refreshes(f)
  /\ Go(f, IF cred # NoCred /\ cred.id = flow[f].rec.cred
           THEN [flow[f] EXCEPT !.pc = "refresh"] ELSE Idle)
  /\ UNCHANGED <<local, minted, wire, server>>

\* refreshExpiredPresentation: same operation and slot, another challenge.
Refresh(f) ==
  /\ flow[f].pc = "refresh"
  /\ NewChallenge
  /\ LET rec == [flow[f].rec EXCEPT !.ch = Len(challenges'), !.state = "PENDING"]
     IN  /\ SaveOperation(flow[f].op, rec)
         /\ Go(f, [flow[f] EXCEPT !.pc = "send", !.attempt = 1, !.rec = rec])
  /\ UNCHANGED <<minted, wire, run, runOf, ledger, expired>>

\* createChallenge is refused, or its answer is lost.
RefreshFails(f) ==
  /\ flow[f].pc = "refresh"
  /\ \/ /\ SaveOperation(flow[f].op, [flow[f].rec EXCEPT !.state = "FAILED"])
        /\ Go(f, [flow[f] EXCEPT !.pc = "release"])
     \/ /\ MarkOutcomeUnknown(flow[f].op, flow[f].rec)
        /\ Go(f, Idle)
  /\ UNCHANGED <<minted, wire, server>>

\* Mutant: a poll that runs out of time counts as a failed use.
Poll_GivesUp(f) ==
  /\ flow[f].pc = "poll"
  /\ SaveAcceptedState(f, flow[f].op,
       WithResult(flow[f].rec, IF ledger[flow[f].op].status \in Terminal
                               THEN ledger[flow[f].op].status ELSE "FAILED_FINAL"))
  /\ UNCHANGED <<minted, wire, server>>

\* waitForResult returns a terminal status, or throws.
Poll(f) ==
  /\ flow[f].pc = "poll"
  /\ \/ /\ ledger[flow[f].op].status \in Terminal
        /\ SaveAcceptedState(f, flow[f].op,
                             WithResult(flow[f].rec, ledger[flow[f].op].status))
     \/ /\ MarkOutcomeUnknown(flow[f].op, flow[f].rec)
        /\ Go(f, Idle)
  /\ UNCHANGED <<minted, wire, server>>

-----------------------------------------------------------------------------
(* Issuance, reset, the fault's preparation, and the end of a flow.        *)

StartIssue(f) ==
  /\ flow[f].pc = "idle" /\ Quiet(f)
  /\ cred = NoCred /\ ~Unresolved(Stored)
  /\ \E n \in 1..MaxIssued :
       /\ runOf[n] = 0 /\ \A k \in 1..(n - 1) : runOf[k] # 0
       /\ runOf' = [runOf EXCEPT ![n] = run]
       /\ Go(f, [Idle EXCEPT !.pc = "issue", !.cred = [NoCred EXCEPT !.id = n]])
  /\ UNCHANGED <<local, minted, wire, run, ledger, challenges, expired>>

\* saveCredentialIfAbsent
SaveIssued(f) ==
  /\ flow[f].pc = "issue"
  /\ cred' = IF cred = NoCred THEN flow[f].cred ELSE cred
  /\ Go(f, Idle)
  /\ UNCHANGED <<ops, latest, minted, wire, server>>

\* The verifier replaces the run; the answer may be lost.
StartReset(f) ==
  /\ f \in Resetting /\ flow[f].pc = "idle" /\ Quiet(f) /\ run < MaxRun
  /\ run' = run + 1
  /\ ledger' = [o \in Ops |-> NoUse]
  /\ Go(f, [Idle EXCEPT !.pc = "clear"]) \/ Go(f, Idle)
  /\ UNCHANGED <<local, minted, wire, runOf, challenges, expired>>

\* clearWalletAfterDemoReset
ClearWallet(f) ==
  /\ flow[f].pc = "clear"
  /\ cred' = NoCred
  /\ ops' = [o \in Ops |-> NoRecord]
  /\ latest' = NoOp
  /\ Go(f, Idle)
  /\ UNCHANGED <<minted, wire, server>>

\* armNextWalletDropAck reads, arms the fault for the active run, and then puts
\* the credential it read back with the prepared operation.
StartArm(f) ==
  /\ f \in Arming /\ flow[f].pc = "idle" /\ Quiet(f)
  /\ MayUse(cred) /\ ~Unresolved(Stored) /\ runOf[cred.id] = run
  /\ \E o \in Ops :
       /\ IF cred.prepared = NoOp THEN o \notin minted ELSE o = cred.prepared
       /\ minted' = minted \cup {o}
       /\ Go(f, [Idle EXCEPT !.pc = "arm", !.cred = [cred EXCEPT !.prepared = o]])
  /\ UNCHANGED <<local, wire, server>>

SaveArmed(f) ==
  /\ flow[f].pc = "arm"
  /\ cred' = flow[f].cred
  /\ Go(f, Idle)
  /\ UNCHANGED <<ops, latest, minted, wire, server>>

Orphaned(f) == {[m EXCEPT !.owner = IF @ = f THEN NoFlow ELSE @] : m \in wire}

\* The page closes, or a call that changes nothing fails.
Close(f) ==
  /\ flow[f].pc # "idle"
  /\ wire' = Orphaned(f)
  /\ Go(f, Idle)
  /\ UNCHANGED <<local, minted, server>>

\* fetch times out; the presentation may still be on its way.
GiveUp(f) ==
  /\ flow[f].pc = "sent"
  /\ wire' = Orphaned(f)
  /\ Go(f, [flow[f] EXCEPT !.pc = "answered", !.answer = "LOST"])
  /\ UNCHANGED <<local, minted, server>>

-----------------------------------------------------------------------------
(* The verifier: `present` as far as the wallet can tell.                  *)

Reply(m, a) ==
  /\ wire' = wire \ {m}
  /\ IF m.owner = NoFlow THEN UNCHANGED flow
     ELSE \E answer \in {a, "LOST"} :
            Go(m.owner, [flow[m.owner] EXCEPT !.pc = "answered", !.answer = answer])

Advance(m, stage) ==
  wire' = (wire \ {m}) \cup {[m EXCEPT !.stage = stage]} /\ UNCHANGED flow

Clashing(m) ==
  {o \in Ops : /\ ledger[o].status # "NONE"
               /\ o = m.op \/ (ledger[o].cred = m.cred /\ ledger[o].slot = m.slot)}

\* findPriorUse: the use it is a retry of, a conflict, or `otherwise`.
Found(m, otherwise) ==
  IF Clashing(m) = {} THEN otherwise
  ELSE IF Clashing(m) = {m.op} /\ ledger[m.op].slot = m.slot
          THEN ledger[m.op].status ELSE "CONFLICT"

OfThisRun(m) == challenges[m.ch] = run /\ runOf[m.cred] = run

LookUp(m) ==
  /\ m.stage = "sent"
  /\ IF Clashing(m) = {} THEN Advance(m, "looked") ELSE Reply(m, Found(m, "NONE"))
  /\ UNCHANGED <<local, minted, server>>

\* The challenge is read and judged by the time captured just before.
CheckChallenge(m) ==
  /\ m.stage = "looked" /\ challenges[m.ch] = run
  /\ IF m.ch \in expired \/ \E o \in Clashing(m) : ledger[o].ch = m.ch
       THEN Reply(m, Found(m, "CHALLENGE_EXPIRED"))
       ELSE Advance(m, "checked")
  /\ UNCHANGED <<local, minted, server>>

\* The challenge is gone with its run; or the proof check, which reads the clock
\* again and knows nothing of the ledger, finds it expired or the credential of
\* another run; or the run is replaced before the transaction.
Reject(m) ==
  /\ \/ m.stage = "looked" /\ challenges[m.ch] # run
     \/ m.stage = "checked" /\ (m.ch \in expired \/ ~OfThisRun(m))
  /\ Reply(m, "PRESENTATION_REJECTED")
  /\ UNCHANGED <<local, minted, server>>

\* acceptPresentation
Accept(m) ==
  /\ m.stage = "checked" /\ OfThisRun(m)
  /\ m.ch \notin expired /\ Clashing(m) = {}
  /\ ledger' = [ledger EXCEPT ![m.op] =
                  [status |-> "ACCEPTED_PENDING_ACTION", cred |-> m.cred,
                   slot |-> m.slot, ch |-> m.ch]]
  /\ Reply(m, "ACCEPTED_PENDING_ACTION")
  /\ UNCHANGED <<local, minted, run, runOf, challenges, expired>>

\* acceptPresentation rolls back: a consumed challenge sends it to the winner,
\* then an expired one is refused, then a unique index sends it to the winner.
Refuse(m) ==
  /\ m.stage = "checked" /\ OfThisRun(m)
  /\ m.ch \in expired \/ Clashing(m) # {}
  /\ Reply(m, IF m.ch \in expired /\ \A o \in Clashing(m) : ledger[o].ch # m.ch
              THEN "CHALLENGE_EXPIRED" ELSE Found(m, "LOST"))
  /\ UNCHANGED <<local, minted, server>>

\* The request is lost, or the verifier fails.
Drop(m) ==
  /\ Reply(m, "LOST")
  /\ UNCHANGED <<local, minted, server>>

Settle(o, status) ==
  /\ ledger[o].status = "ACCEPTED_PENDING_ACTION"
  /\ ledger' = [ledger EXCEPT ![o].status = status]
  /\ UNCHANGED <<local, flow, minted, wire, run, runOf, challenges, expired>>

Expire(c) ==
  /\ c \notin expired /\ challenges[c] = run
  /\ expired' = expired \cup {c}
  /\ UNCHANGED <<local, flow, minted, wire, run, runOf, ledger, challenges>>

-----------------------------------------------------------------------------
Start(f) ==
  \/ StartUse(f) \/ StartRetry(f) \/ OpenPage(f) \/ StartResume(f)
  \/ \E mode \in {"use", "retry", "resume"} : StartReconciling(f, mode)
  \/ StartIssue(f) \/ StartReset(f) \/ StartArm(f)

Continue(f) ==
  \/ Reconcile(f) \/ Prepare(f) \/ Send(f)
  \/ HandleResult(f) \/ HandleLoss(f) \/ HandleRefusal(f) \/ HandleExpiry(f)
  \/ Release(f) \/ Refresh(f) \/ RefreshFails(f) \/ Poll(f)
  \/ SaveIssued(f) \/ ClearWallet(f) \/ SaveArmed(f)

Verifier ==
  \/ \E m \in wire : LookUp(m)
  \/ \E m \in wire : CheckChallenge(m)
  \/ \E m \in wire : Reject(m)
  \/ \E m \in wire : Accept(m)
  \/ \E m \in wire : Refuse(m)
  \/ \E m \in wire : Drop(m)
  \/ \E o \in Ops, status \in Terminal : Settle(o, status)
  \/ \E c \in DOMAIN challenges : Expire(c)

Next ==
  \/ \E f \in Flows : Start(f) \/ Continue(f) \/ Close(f) \/ GiveUp(f)
  \/ Verifier

Spec == Init /\ [][Next]_vars

-----------------------------------------------------------------------------
(* Properties.                                                             *)

Messages ==
  [owner: Flows \cup {NoFlow}, op: Ops, cred: 1..MaxIssued, slot: 0..(L - 1),
   ch: 1..MaxChallenges, stage: {"sent", "looked", "checked"}]

\* Every variable stays within its type.
TypeOK ==
  /\ cred \in Creds
  /\ ops \in [Ops -> Records]
  /\ latest \in Ops \cup {NoOp}
  /\ flow \in [Flows -> FlowStates]
  /\ minted \subseteq Ops
  /\ wire \subseteq Messages
  /\ run \in 1..MaxRun
  /\ runOf \in [1..MaxIssued -> 0..MaxRun]
  /\ ledger \in [Ops -> Uses]
  /\ challenges \in Seq(1..MaxRun) /\ Len(challenges) <= MaxChallenges
  /\ expired \subseteq 1..MaxChallenges

Current == cred # NoCred /\ runOf[cred.id] = run

\* rules.md section 9: a timeout or lost acknowledgement does not allocate
\* another slot.  The cursor has passed a slot only if its use is settled, from
\* whatever copies, pages and late answers it was moved.
PassedSlotsAreSpent ==
  Current => \A s \in 0..(cred.next - 1) :
               \E o \in Ops : /\ ledger[o].cred = cred.id /\ ledger[o].slot = s
                              /\ ledger[o].status \in Terminal

\* rules.md section 9: an operation is durable before it is first sent.  Each
\* use the verifier holds of the credential is one the wallet can retry exactly.
UsesAreRecorded ==
  Current => \A o \in Ops :
    ledger[o].status # "NONE" /\ ledger[o].cred = cred.id =>
      ops[o].cred = cred.id /\ ops[o].slot = ledger[o].slot

\* A result the wallet shows is the one the verifier holds.
ResultsAreTrue ==
  Current => \A o \in Ops :
    ops[o].cred = cred.id /\ ops[o].result # "NONE" =>
      ledger[o].status = ops[o].result

\* prd.md 13.2: the wallet takes its next unused slot.  Its cursor never returns
\* to a slot it has passed, and an older credential never replaces a newer one.
CredentialMovesForward ==
  [][cred # NoCred /\ cred' # NoCred =>
       \/ cred'.id > cred.id
       \/ cred'.id = cred.id /\ cred'.next >= cred.next]_vars

\* The operations of the active credential that the wallet holds unresolved.
OpenOps == {o \in Ops : Unresolved(ops[o]) /\ ops[o].cred = cred.id}

\* phase-5-safe-retry.md: while an operation is pending or unknown, the wallet
\* blocks new-slot use.
UnresolvedBlocksNewUse == Current => \A o, p \in OpenOps : o = p

\* rules.md section 9: retries of an unknown outcome use the same slot.  However
\* many operations the calls of the pages leave unresolved side by side, at most
\* one slot is at stake: below the highest of them every slot is spent by a use
\* that is settled.
OneSlotIsOpen ==
  Current => \A o, p \in OpenOps : ops[o].slot < ops[p].slot =>
    \E q \in Ops : /\ ledger[q].cred = cred.id /\ ledger[q].slot = ops[o].slot
                   /\ ledger[q].status \in Terminal

\* The verifier's rows, as uses of the abstract ledger.
Row(o) == [id |-> o, cred |-> ledger[o].cred, slot |-> ledger[o].slot, op |-> o,
           intent |-> "ACTION", status |-> ledger[o].status]

Rows == {Row(o) : o \in {p \in Ops : ledger[p].status # "NONE"}}

Abstract == INSTANCE BoundedUse
              WITH ledger <- Rows, UseIds <- Ops, Credentials <- 1..MaxIssued,
                   Operations <- Ops, Intents <- {"ACTION"}

\* The verifier as the wallet meets it is the ledger that Acceptance implements:
\* whatever the pages send, retry or send again after a reset, a slot of a
\* credential and an operation are spent once, and a result is not replaced.
ImplementsBoundedUse == Abstract!Spec
=============================================================================
