# AnonLimit, verified

AnonLimit lets the holder of an anonymous credential use a service at most
`L = policy.maxUses` times.  The verifier keeps no counter: each use shows a
*nullifier* that belongs to one of the credential's `L` slots, and the database
refuses a nullifier it has seen.  An accepted use is settled later, by a worker
that delivers its action to an idempotent destination.  What makes the program
right is therefore spread over five processes and three stores, and over steps
between which anything may happen.  This directory holds

- TLA+ modules that model that core, translated from the source;
- TLC configurations that check them on small instances;
- theorems about them, for every value of the constants, checked by TLAPS.

    tlc -workers 2 -config MCAcceptanceRivals.cfg MCAcceptance.tla
    tlapm AcceptanceProofs.tla

`PROJECT.json` lists every run, every theorem, the source lines each definition
stands for, and, for each property, a mutant of the model that breaks it.

## 1. Inventory

| Component | State | Operations | Talks to |
|---|---|---|---|
| **Browser wallet** `apps/web/src/features/wallet`, calls of `main.tsx` | IndexedDB: the credential, `nextSlot`, operations with the exact bytes sent; `busy` of each page | issue, use, retry, resume, refresh an expired challenge, reset | the API over HTTP; answers may be lost |
| **Protocol service** `apps/api/src/modules/protocol` | none between requests | `issueCredential`, `createChallenge`, `present`, `getUseStatus` | issuer, proof verifier, verifier ledger |
| **Verifier ledger** `packages/db/src/verifier/repository.ts`, migrations | runs, policies, challenges, uses, outbox events, faults, event log | `acceptPresentation`, `findAcceptedUses`, `recordRetry`, `resetDemoRun`, fault operations | PostgreSQL: locks, unique indexes, foreign keys |
| **Domain rules** `packages/domain` | pure | `classifyRetry`, `canTransitionUse`, freshness, `calculateInvariants` | called by the service |
| **Simulated proofs** `packages/crypto` | keys | `issueAnonymousCredential`, `verifyPresentation`, the audit adapter | called by the service |
| **Outbox worker** `apps/worker`, `worker-repository.ts` | the batch in hand | claim, deliver, complete, fail, retry | outbox rows, the destination over HTTP |
| **Action simulator** `apps/action-simulator`, `packages/db/src/action.ts` | results by action key, tombstones of reset runs | `commitAction`, `resetDemoRun`, `getEvidence` | its own database |
| **Demo reset** `reset-demo.ts`, `repository.ts` | one reset in flight per API process | fence the destination, then erase the run | destination, then ledger |
| **Lost-acknowledgement fault** `fault-controller.ts`, `wait-for-outcome.ts` | the row of `demo_faults` | arm, check, wait, consume, cancel | ledger, worker's results |
| **Boundary audit** `boundary-controller.ts`, `bound-test-adapter.ts` | none | present slot `L` and report the refusal | the ordinary verifier |
| **Event stream** `apps/api/src/modules/events`, `evidence.queries.ts` | a cursor per client | poll and stream | event log by sequence |
| **Evidence** `apps/api/src/modules/evidence`, `packages/domain/src/invariants.ts` | the last audit, in memory | combine a snapshot of the ledger with the destination's evidence; compare presentations | both databases, at different times |
| **Insights** `apps/api/src/modules/insights` | the narrator: its calls, its cache, the call under way | activity rules, commentary of an external model | event log, a paid provider |
| **Page** `apps/web/src/main.tsx`, `features/demo-lab` | report, events, insights, the control under way | poll, refresh, reset, probe | API; other tabs |
| **Contracts, configuration, logging, rendering** | none | parsing, formatting | |
| **Migrations and seed** `packages/db/src/migrations.ts`, `seed.ts` | the schema | run before everything else | PostgreSQL |

What is hard:

- *Concurrency.*  `present` is a dozen awaited round trips.  Copies of one
  request, rivals for one slot, the worker, the reset and time move in between.
  Only `acceptPresentation` holds locks.
- *Several writers of one outcome.*  A lease is a time, not a token.  Two
  workers may hold one event, and both finish it.
- *Loss.*  A client, a worker and the destination each lose answers, and none
  can tell a lost request from a lost answer.
- *Time.*  Freshness is judged three times, by two clocks.
- *Partial failure.*  A reset spans two databases.
- *Locks in two orders.*  The reset locks the run and then its rows; everybody
  else locks a row and then, through a foreign key, the run.
- *Views put together from reads at different times.*  A report reads a
  snapshot, then the destination, then an audit in memory; a page polls three
  resources, and the effects that poll outlive the state they began with.

What each component must guarantee is stated by the properties in section 4.
The hazards these properties answer are listed line by line in `PROJECT.json`.

## 2. Modules

| Module | Models | Role |
|---|---|---|
| `BoundedUse` | the promise: a ledger of uses with atomic accept, settle, reset | abstract specification |
| `EffectOnce` | the promise: an action is committed at most once, for an accepted use, before the fence; a success needs it | abstract specification |
| `Acceptance` | `present` with every round trip, issuance, challenges, reset, two clocks | detailed specification |
| `Outbox` | outbox rows, workers, the network, the destination, both halves of the reset | detailed specification |
| `Wallet` | the service calls of one or more pages over the browser's stores, and the verifier as the wallet meets it | detailed specification |
| `Demo` | the fault and the reset with their locks, against presentations and completions | detailed specification |
| `Evidence` | the report, the audit it relies on, and the run that goes on meanwhile | detailed specification |
| `Insights` | the activity rules, and the narrator that limits and shares its calls | detailed specification |
| `Page` | the polls of one page, its reset and its probe, the event log, another tab | detailed specification |
| `AcceptanceProofs`, `RetryProofs` | | theorems about `Acceptance` |
| `OutboxProofs`, `WalletProofs`, `DemoProofs`, `EvidenceProofs`, `InsightsProofs`, `PageProofs` | | theorems about the module each is named for |
| `MCAcceptance`, `MCOutbox`, ... | | constants for TLC |

### Acceptance

Each request `r` is an actor.  `pc[r]` is the round trip it is about to make,
and a step is one round trip with what the code computes from its result.

| `pc` | Step | Code (`protocol-service.ts`) |
|---|---|---|
| `idle` | `Begin` | `loadPolicy`, `activeRun`: the run is captured once, in `seenRun` |
| `lookup` | `FindNothing`, `FindConflict`, `FindRetry` | `findPriorUse`, with `classifyRetry`; `resume` says which of its four call sites this is |
| `record` | `Record` | `recordRetry` or `appendSafeEvent`, which fail when a reset has removed what they refer to |
| `clock` | `CheckPolicy` | `currentTime` is captured in `clock` and the policy judged by it |
| `challenge` | `ReadChallenge` | `getChallenge`, its bindings, `CONSUMED`, freshness by the captured time |
| `verify` | `Verify` | `verifyPresentation`, which reads the clock again |
| `accept` | `Accept`, `Refuse`, `LoseRace` | the acceptance transaction commits, or rolls back for one of two reasons |
| any | `Abort` | the process stops, or a query fails: the client learns nothing |

The acceptance transaction is one step: it locks the run, the policy and the
challenge before it reads what it decides by, and every other writer of the
ledger locks the run or a row that it locks.  `Precondition` keeps the order of
its checks, which decides the answer.  `IssueCredential`, `CreateChallenge`,
`Settle` (the worker, seen from here), `ResetDemoRun` and `Tick` complete the
system.

Abstractions, all of data and none of control:

- A nullifier is a credential and a slot; proofs are unforgeable.  Slot `L` is
  the presentation beyond the limit which the audit adapter makes.  The
  blinding, hashing and encryption that hide the holder are not modelled.
- A digest is the content it is taken of.
- A challenge is read as bound to the presentation or not bound to it; which of
  its fields differs is not kept.
- One policy and one scope.  Policies are immutable rows; only `validUntil` can
  change what a check says, and `validFrom` has passed.
- A use id is minted by the request that inserts the row, so the row of request
  `r` is `use[r]`.
- `createChallenge` reads the clock a few queries before it inserts the row; the
  two are one step.  A challenge that expires between them is a challenge that
  expires right after.
- Wording, HTTP status and trace ids are left out.

### Outbox

| Action | Code |
|---|---|
| `Accept` | the outbox part of `acceptPresentation` |
| `Claim`, `LeaseLapses`, `BackoffElapses` | `claimOutboxBatch`; rows another transaction has locked are skipped, so any nonempty set of claimable rows may be the batch |
| `Send`, `GiveUp`, `HandleRequest`, `DropRequest` | `deliverAction` over a network that loses requests and answers, and delivers a request after its sender gave up |
| `HandleRequest` | `commitAction` at the destination: fence, replay, or insert, in one transaction behind a lock |
| `CompleteOutboxSuccess`, `FailOutbox`, `RetryOutbox` | the three transactions of `worker-repository.ts`, each with its early return, its throw and its updates |
| `AbandonBatch` | the loop's `catch`: a transaction that throws gives up the rest of the batch, whose rows stay leased |
| `Crash` | a worker process stops; what it sent stays on the wire |
| `FenceActions`, `EraseRun` | the two halves of the demo reset; the second may never come |

`Conflicting` are events whose action key the destination already holds with
another digest.  Times are kept as far as the code compares them: an event is due
or not, a lease is absent, ahead or past.  `effects` is a history variable: it
counts what the destination committed, and survives the reset that deletes the
destination's rows.

### Wallet

A *flow* is one running call of `wallet-service.ts`.  `flow[f]` holds where the
call stands and the copies of the credential and of the operation that it works
on; `cred`, `ops` and `latest` are what IndexedDB holds.  Each step is one
transaction of the stores with the code between it and the last `await`, so the
copies may be stale when they are written.  `Page[f]` is the page a flow is of:
a browser may have several open.  The calls that a page's buttons start exclude
each other, for `busy` disables them all (`Quiet`).  The effect that loads the
page, and the poll that it resumes, do not set `busy`: retry, reset and every
other button work beside them, so one page has two flows.

| Step | Code |
|---|---|
| `Quiet` | `busy` of `main.tsx`, a guard of all calls but the resumed one |
| `OpenPage` | the load effect of `main.tsx`, which finds an operation to resume |
| `StartUse`, `StartRetry`, `StartResume`, `StartReconciling` | `loadWallet` and what `performWalletUse`, `retryLastWalletUse` and `resumePendingWalletUse` decide by it |
| `Reconcile` | the second half of `loadWallet` |
| `Prepare` | the new challenge and `saveOperation` before the first send |
| `Send`, `GiveUp` | `submitSerializedPresentation` and its time limit of 20 s; the request may go on without its sender |
| `HandleResult`, `HandleLoss`, `HandleRefusal`, `HandleExpiry` | the four kinds of answer; `Refusals` are those below status 500 |
| `Release` | `clearPreparedOperation`, a transaction of its own |
| `Refresh`, `RefreshFails` | `refreshExpiredPresentation` |
| `Poll` | `waitForResult` and what follows it |
| `StartIssue`, `SaveIssued` | `issueWalletCredential`, `saveCredentialIfAbsent` |
| `StartReset`, `ClearWallet` | `resetWalletDemo`; between the two, or in place of the second, anything may happen |
| `StartArm`, `SaveArmed` | `armNextWalletDropAck`, which writes back the credential it read |
| `Close` | the page closes; what it sent stays on the wire |
| `LookUp`, `CheckChallenge`, `Reject`, `Accept`, `Refuse`, `Drop` | `present` in the three parts that the wallet can tell apart: lookup, challenge, then proof with acceptance |
| `Settle`, `Expire` | the worker, and time |

Abstractions: the reads of `loadWallet` are one step; all operations ask for the
same action, so an intent is an operation id; the envelope is its operation,
slot, credential and challenge; the order of `updatedAt` is kept only as
`latest`; the policy does not run out; records written before operations were
bound to a credential are left out; the service's check of `usageDelta` cannot
fail against this verifier.  `Verify` and `Accept` of `Acceptance` are kept
apart by the stage `checked` only: whatever may come between them may come
before both.

### Demo

A transaction of one statement is one action.  One that keeps a lock while it
waits for another is several, and `lock` says who holds what.

| Step | Code |
|---|---|
| `Accept`, `Replay`, `CheckArmed` | a presentation that is accepted, or found again; `isDropNextAckArmed` |
| `Poll`, `Timeout`, `PollFails` | `waitForOutcome`: a result, the deadline, a query that fails |
| `LockFault`, `Consume` | `consumeDropNextAckAfterSuccess`: the row of the fault; then `Durable`, a use that succeeded with its event delivered; then the run that its log entry refers to |
| `Cancel` | `cancelDropNextAck` of one operation, after a refusal or an error |
| `LockUse`, `Settle` | the worker's transactions: the use, then the run; a success may leave its event undelivered (section 6) |
| `StartArm`, `FinishArm` | `armDropNextAck`: the row of the fault, then the run it targets (migration 0004) |
| `StartReset`, `Fence`, `FenceFails` | `performReset`: the active run, the destination, which may have acted without answering |
| `LockRun`, `LockUses`, `Erase` | the transaction of `resetDemoRun`: the run, or `DemoRunResetConflictError`; then the rows it deletes |
| `AbortReset`, `AbortCompletion`, `AbortConsume`, `AbortArm` | PostgreSQL ends a cycle of waits by aborting one of its transactions |
| `Crash` | the API process of a request ends |

A reset that waits for a row is first in the queue for it, so a transaction that
was aborted to end a cycle cannot take the row back (`WaitsForUses`,
`WaitsForFault`, `FaultIsFree`).  The reset locks all uses in one step: whom it
would meet half-way it meets before the first one.  An acknowledgement ends as one of
`OK`, `DROPPED`, `UNAVAILABLE`, `ERROR`.

### Evidence

| Step | Code |
|---|---|
| `Issue`, `Accept`, `Commit`, `Complete`, `FailFinal`, `Retry`, `Probe`, `Fence`, `Erase` | what the other modules model in detail, as far as the report can see it: rows of uses, log entries with their traces, actions of the destination |
| `TakeSnapshot`, `FinishReport`, `ReportFails` | `getEvidence`: a `REPEATABLE READ` snapshot, then the destination, then the stored audit |
| `StartAudit`, `PrepareAudit`, `Compare` | `runLinkability`: the snapshot, a lookup of every presentation, the comparisons; the last call to end leaves its audit |
| `Checks`, `Overall` and what they are made of | `calculateInvariants`: ten of the eleven checks |

The eleventh check, `noStableIdentity`, reads the schema, which no action
changes.  A receipt stands for its action: the verifier stores the receipt it was
given, so two copies can differ only by one being absent.  The audit adapter's
comparison finds uses unlinkable or fails; that it never finds them linked is the
ideal of the simulated proofs.

### Insights

| Step | Code |
|---|---|
| `Log`, `Conclude`, `Reset`, `Tick` | events of the log with their age, a report that becomes final, the reset, the API's clock |
| `Counters`, `Level`, `Eligible` | `analyzeActivity`: one decision per request, the one of highest priority; the rule that makes a commentary worth asking for |
| `Ask` | `getInsights` up to the call of `explain` |
| `FromCache`, `Share`, `Waiting`, `Call` | the synchronous part of `explain`, one action for each way it ends |
| `Respond`, `Refuse`, `Timeout` | the end of the provider's call, for all who wait for it |

An event has the age the API's clock gives it, `-1` if the database's clock is
ahead.  The summary restates the report and is reduced to the overall status;
of the commentary only what it is about is kept.  The narrator lives in one API
process; several would have a budget each.

### Page

| Step | Code |
|---|---|
| `Insert`, `Commit` | `appendProtocolEvent`: the identity numbers the row, the transaction commits later or never |
| `EvidenceEffect`, `ReadEvidence`, `TakeEvidence`, `ReadRows`, `TakeBatch`, `PollFails`, `PollEnds` | the effect of `useEvidence` and its poll of the report and the events, each with its guard `active`; `getProtocolEvents` reads the run and then its rows |
| `InsightsEffect`, `ReadInsights`, `TakeInsights`, `InsightsFail`, `Rendered` | `useInsights`, and what the page renders of it before an effect has run |
| `StartReset`, `ResetAnswers`, `FinishReset`, `ResetFails` | `resetDemo` of the page |
| `StartProbe`, `ReadProbeRun`, `ChallengeProbe`, `PresentProbe`, `FinishProbe`, `ProbeFails` | `probeBoundary`, `attemptFourthUse` and the verifier's answer |
| `OtherTabResets` | a reset the page does not know of |

The timer between two polls is not a step: the next poll may take any time.  A
row that never commits stands for a transaction that rolls back.  The wallet's
own calls are `Wallet`; here they are `UsePass`.  The panels only render.

### How the modules meet

`Acceptance!Accept` is `Outbox!Accept` with the rest of what the same
transaction writes, and `Acceptance!Settle` is what the three worker
transactions of `Outbox` do to a use: from pending to a terminal status and
never again (`TerminalIsImmutable`; as steps, `EffectOnce!Settle`).  `Demo` takes from both what the fault can
see, the status of a use and whether its event is delivered, and adds the locks that the others may leave out because
their transactions are serial; `ErasedRunsAreFenced` is what lets `Outbox` begin
the erasure after the fence.  `Wallet` contains the verifier of `Acceptance` in
three parts; that both implement `BoundedUse` is a theorem of each.  `Evidence`, `Insights` and `Page` read what the others write.

## 3. Runs and bounds

| Run | Instance | What it shows |
|---|---|---|
| `rivals` | 3 requests out of 6 presentations, 3 operations, 3 challenges, `L = 2`, a reset; no time | the quota, the pairing of challenges with uses, that losers find the winner, what a retry is told, and refinement of `BoundedUse` |
| `stale` | 3 copies of one operation with 2 challenges, `Ttl = 1`, policy ends at 2, a reset | retries are resolved whatever has expired; a refusal for staleness is final |
| `history` | 2 copies of one presentation | **violated**, see section 6 |
| `outbox` | 2 events, one in conflict; 2 workers; batches of 2; 2 attempts; 1 stop; a reset; fairness | all of it implements `EffectOnce`, failures are visible, pending work is recoverable, results are final, and both uses are settled in the end |
| `outbox_delivered` | 1 event, 2 workers, 5 attempts | **violated**, see section 6 |
| `wallet_tabs` | 2 pages, one of which arms the fault and resets; 2 operations, `L = 2`, 2 challenges, 1 credential, 2 runs, 1 request under way | slots and records are right, one slot is at stake and results are true, whatever stale copies are written |
| `wallet_resume` | 1 page with 2 flows, 2 operations | **violated**, see section 6 |
| `wallet_stale_arm` | 2 pages | **violated**, see section 6 |
| `evidence` | 2 uses, `L = 2`, 1 reader, 1 auditor, a retry, a probe, a reset | PASS is true and was audited, FAIL has a cause, a complete run passes |
| `demo` | 2 operations, 2 requests, resets in 2 processes, 2 armings, fairness | the fault is dropped once and for its own request, erased runs are fenced, everyone is answered |
| `insights` | 2 clients, 1 trace, `Window = Cooldown = 1`, `Hour = 3`, 2 calls an hour, 2 runs, fairness | one call at a time, within the budget, of the right facts, and every client is answered |
| `page` | batches of 1, 3 rows, 2 runs, 1 refresh, 1 failure, fairness | the page never mixes runs, misses only overtaken events, and catches up |

Why the bounds are enough to be interesting.

- *Acceptance.*  Three requests are the smallest number with two rivals that
  both lose, and with `L = 2` they are one more than the quota.  The six
  presentations of `rivals` contain each way to collide: same slot, same
  operation, both, same challenge, changed content, over the limit.  Two demo runs
  give one reset, and a request never outlives more than the run it captured.  In
  `stale` the clock passes the challenge's expiry and the policy's end
  separately, and a challenge may be created before, between or after.
- *Outbox.*  Two workers suffice for a lapsed lease to have two holders; two
  attempts leave one retry and one more that exhausts the event.  Both the rest of
  an abandoned batch and rival workers fit into this one graph of states, which
  liveness needs.  `outbox_delivered` has the five attempts of the code.
- *Wallet.*  Two slots let a cursor move wrongly and be wrong later; two
  challenges are one for each of two uses, or one to refresh with.  One request is
  let through at a time, because in `wallet_tabs` the stores are the question.
  Its two pages exclude nothing of each other, so their interleavings contain those
  of a resumed poll with another call of its own page.  One page arms and
  resets: with a page that arms beside another's reset, a cleared credential comes
  back (section 6).  With a second credential, or two resetting pages, the graph
  takes too long for a run that is repeated; a result that meets the credential
  issued after a reset is covered by the theorems of `WalletProofs`, and so are
  several requests under way.
- *Evidence.*  Two uses are the least that an audit compares.  A call of
  `getEvidence` that begins before a reset may end after it, and the audit of the
  first run is still stored in the second; `MaxErased` only leaves out runs that
  were erased with a long log.
- *Demo.*  Two requests are the one that waits for its fault and another one of
  the same or of the other operation; two armings let a late cancellation meet a
  new fault; two processes make the second reset find its run gone.
- *Insights.*  An hour of three units with a cooldown of one and two calls lets
  the budget and the cooldown bind separately, and each slide out of its window.
- *Page.*  With batches of one, two events of one run already need two polls, and
  a third row can commit behind the cursor.  One refresh leaves polls of an old
  effect beside the new one's.

Bounds are constants named `Max...`; the theorems hold for all their values.
Deadlock is not checked, because the system stops by right when all requests are
answered, the bounds are used up and all uses are settled.  Requests, workers,
operations and uses are interchangeable, and the passing runs without fairness use
that symmetry.

`ApiSkew`, what the API's clock shows more than the database's, is `0` in the
runs.  In the theorems it is any integer, except that `StaleRefusalIsFinal` needs
it not to be positive: the API would refuse what the database would still accept.

No run checks a `TypeOK`: the type invariants of all modules are theorems.

### Fairness

`FairSpec` of `Outbox`:

- *weak fairness of each worker's next step*, and of `GiveUp`: the loop of
  `main.ts` never ends by itself, its `catch` returns to the poll delay, and
  `fetch` fails in the end when nobody answers.  Nothing is assumed of the
  destination, which may never answer;
- *weak fairness of lapsing and elapsing*: time passes;
- *strong fairness, per event, of being in some claimed batch*: the claim takes
  the oldest claimable rows first, up to the batch limit, so an event is passed
  over only while older ones fill the batch, or while another transaction holds
  its row for a moment;
- worker processes stop only finitely often (`MaxCrashes`).

`FairSpec` of `Demo`:

- *weak fairness of each request and of each reset*: the event loop goes on, and
  whoever uses the demo asks for the reset again.  The deadline of
  `waitForOutcome` is part of it; nothing is assumed of the worker between its
  transactions;
- *strong fairness of `Consume`, `FinishArm` and `Settle`*: each waits for the
  run while it holds its own row, and PostgreSQL grants locks in the order of the
  waits;
- *strong fairness of `Fence`*: the destination answers some of the calls.

`FairSpec` of `Insights`: the timer of `request` fires and the clients' own steps
go on.  The provider need not answer.

`FairSpec` of `Page`: the effect and the polls of `useEvidence` go on.  The
reads that fail are finitely many (`MaxFails`), and so are the resets of other
tabs.

`Acceptance`, `Wallet` and `Evidence` have no liveness property.  A request is
one HTTP exchange and may be cut at any step; the wallet acts when its owner does.

## 4. Properties

Acceptance:

- `QuotaBound`: a credential never has more than `L` accepted uses.
- `ChallengesMatchUses`: consumed challenges and uses come in pairs.
- `WinnerIsAlwaysFound`: the two answers "inconsistent", both status 500, are
  given only when a reset came in between.
- `RetryNamesItsUse`: a request answered as a retry is told about the use of its
  own nullifier, operation and intent, and a terminal status it is told stays
  true.
- `ExactRetryResolved`: once a use is committed, a retry that starts later is
  answered as a retry whatever has expired.
- `StaleRefusalIsFinal`: a client told that its challenge or policy ran out may
  forget the presentation, for no copy still under way is accepted.
- `ImplementsBoundedUse`: with `Ledger`, the set of use rows, as the refinement
  mapping, every step is a step of `BoundedUse` or changes nothing.

Outbox:

- `AtMostOneEffect`: at-least-once delivery with one committed effect.
- `ImplementsEffectOnce`: every step is a step of `EffectOnce` or changes
  nothing, where `committed` are the events with exactly one effect.  It contains
  that a success is reported only for a committed action (`SuccessHasEffect`) and
  that nothing is committed for a use nobody accepted.
- `FailureIsVisible`: a use fails for good only together with its event, which
  becomes `DEAD_LETTER`, and only on a conflict or after all its claims.
- `PendingIsRecoverable`: a pending use always has an event that can be claimed.
- `ResetLeavesNoEffect`: nothing of a reset run remains or appears later.
- `TerminalIsImmutable`: a terminal result is never replaced.
- `EventuallySettled`: every accepted use is settled in the end.

Wallet, all of them about the credential of the active run:

- `PassedSlotsAreSpent`: the cursor has passed a slot only if its use is settled.
- `OneSlotIsOpen`: however many operations the calls leave unresolved side by
  side, at most one slot is at stake.  Below the highest of them, each slot is
  spent by a use that is settled, so the others have only to be retried.
- `UsesAreRecorded`: for each use of the credential that the verifier holds, the
  wallet holds the operation, with the same slot.  Two pages of which one arms
  the fault while the other clears the wallet can bring a cleared credential back,
  without its records; the theorem therefore supposes that no page arms while
  another resets (`Undisturbed`), and in the run one page does both.
- `ResultsAreTrue`: a result the wallet shows is the verifier's.
- `UnresolvedBlocksNewUse`: one operation at a time is unresolved, as
  `phase-5-safe-retry.md` says.  Violated, in one page (section 6).

Evidence:

- `PassIsTrue`: of a run that was reported PASS and is not being reset, each
  reported use is still settled and each success still has its effect.
- `PassWasAudited`: a PASS rests on comparisons that were made, of that run and of
  exactly the reported uses, however calls of `runLinkability` overtake each other.
- `FailHasCause`: a FAIL is due to a reset that cut in, an effect that the
  snapshot denies, or an audit of other uses, never to traffic between the reads.
- `CompleteRunPasses`: a run in which all that is measured has happened, and that
  has not changed since the snapshot, passes.

Demo:

- `ErasedRunsAreFenced`: no run is erased before the destination has its tombstone.
- `FaultIsOfActiveRun`: an armed fault names the active run.
- `WaiterKeepsFault`: the request that waits to drop its answer keeps its fault,
  but for another arming or a reset.
- `UnavailableHasCause`: an answer is withheld without having been dropped only
  after the deadline, a final failure, a success that did not deliver its event,
  a reset or another arming.
- `FaultIsSpent`: the fault is one-shot.
- `RequestsAreAnswered`, `ResetsSucceed`: deadlocks and all, every accepted
  request is answered for good and a reset that is repeated is done.

Insights:

- `OneCall`: one call of the provider at a time.
- `WithinBudget`: calls are a cooldown apart, and no hour has more than
  `MaxCalls`, wherever it begins and however the calls end.
- `CommentaryIsOfFacts`: a commentary is of the run, status and counters that its
  reader asked about, be it new, shared or cached.
- `CountersAreDisjoint`: a request that met the limit is counted once and as
  that, in whichever order its two events were logged.
- `AsksAreAnswered`: every client is answered, whatever the provider does.

Page:

- `EventsAreOfShownRun`, `InsightsAreOfShownRun`: the events and the insights
  shown are of the run of the report beside them.
- `OnlyOvertakenAreMissed`: an event behind the cursor that is not shown was
  uncommitted when a later one was read.  That is the one way to miss an event, and
  the code has it.
- `RejectionIsMeasured`: a rejection that the page reports is in the log of its
  credential's run, while that run is active.
- `PageCatchesUp`: at last the page shows the active run and all its events but
  the overtaken ones.

## 5. Theorems

The theorems are about `Spec` and hold for every value of the constants that the
named assumptions allow: any sets of requests, events, pages and clients, any
limits and bounds.  Type correctness is proved first, for every module.

**Acceptance.**  The invariant checked by TLC is not inductive.  `QuotaBound`
follows from two facts that are: no two uses of a run collide (`NoTwoAlike`), and a
use that has passed the verifier has a slot below `L` of a credential sealed for its run
(`BoundChecked`, `LiveUses`).  The uses of one credential therefore map
injectively into `0..L-1`, and the library's cardinality theorems conclude.
`LiveUses` also says that uses belong to the active run, for a reset deletes
the others.  `WinnerIsAlwaysFound` needs four more parts: a request at the
lookup that would answer "inconsistent" has a winner it will find
(`LoserHasWinner`); a consumed challenge belongs to a use of its run and its
operation (`ConsumedByAUse`, `ChallengesOfRun`); the row a retry refers to is
there while it is being recorded (`RetryRowIsThere`); and runs only increase
(`SeenRunIsPast`).  `IInv` is the conjunction.  The refinement proof maps each
action: `Accept`, `Settle` and `ResetDemoRun` to their namesakes, and all else to a
stutter.

**Retries** (`RetryProofs`) build on `IInv` with four invariants.  What a retry
was told names a row of its own identity, whose status moves once.  A request that
begins when its use is committed finds it at the lookup, for the lookup comes
before every check.  A stale refusal is final because both clocks only advance,
and the database's is not behind the one that refused: what has expired for one
copy has expired for all.  `OnlyExpiryOverrides` says what can override an accepted
copy: the lookup finds the copy's row, the challenge is consumed and matches, so the
challenge check and the transaction both send the request back to the lookup, and
only the proof verification is left; by `RefusalInv` the copy was admissible, and
what is admissible is refused there for the time alone.

**Outbox.**  `IInv` relates the destination's row to the history: a row exists
only if it was committed once and nothing has been fenced, and a committed
action without a row means a fence (`DestinationInv`).  That gives uniqueness
and the clean reset.  A success in a worker's hand means that the action was committed
(`SuccessInv`), which gives `SuccessHasEffect`; and `PendingIsRecoverable` is
inductive beside them.  `ResultsAreFinal` is an action property proved from the
same invariant.  `FailuresAreVisible` adds that a worker reports a conflict only of
a key that has one (`FailureInv`).  For the refinement, `DeliveryInv` says that
what is leased, held in a batch or under way on the network is of an accepted
use, and that uses and rows are deleted only by the reset; a request that the
destination commits is then one whose use is pending or failed, hence a `Commit`
of `EffectOnce`, and a worker's transaction is a `Settle` or changes nothing
abstract.  `OneWorkerDelivers` supposes a single worker process and keeps the
rows of its batch leased (`HeldIsLeased`).

**Wallet.**  Copies of a credential and of an operation lie in the stores, in
every call and, serialized, on the wire; the verifier's ledger has the facts.
`Bound` says that an operation stands for one slot of one credential in all of
them.  `CopiesTrue` then says of every copy, however old, that while its run is
active the slots below its cursor, or below its own slot, are spent and a result it
carries is the ledger's; it is inductive because settled uses stay as they are
until their run is replaced, and a new run makes all older copies irrelevant.
`SlotsAreSpent`, `OneSlotOpen` and `ResultsMatch` read it off the stored copies.
That writes of stale copies do no harm to them is the point: a stale copy is
behind, not wrong.  `UsesAreKept` needs more: a credential that is being issued is
nowhere else (`IssuedOnce`), and whatever is under way for the stored credential
has its record (`Recorded`).  A page that arms the fault while another clears the
wallet breaks the first, so the theorem supposes `Undisturbed`, under which a call
that arms keeps its page busy and holds the credential that is stored (`Steady`).
`CredentialForward` classifies the steps that write the credential and finds one
that could move the cursor back, the end of an arming; it supposes that no page
arms.  `Implementation` maps the verifier's rows to `BoundedUse`.

**Demo.**  `BaseInv` says who holds which lock, that a reset that erases has its
tombstone, and that the run a reset or an arming has locked is the active one;
with the foreign key that gives `FaultOfActiveRun`.  `AckInv` adds that an operation has
one request that was accepted for it, that the worker locks only pending uses, and that a request
which is being refused has one of the causes that `UnavailableHasCause` names.

**Evidence.**  `LogOf` says what the log of a run is to its rows: one entry for
each accepted use and one for each effect, a result for each retry that was
matched, requests that are named for what they did, and no more uses than the
credentials allow.  It is an invariant of the run, and therefore true of every
snapshot, which also agrees with its run on all that was settled then
(`SnapshotTrue`).  That alone shows that a PASS lasts and that no check fails
because of what happened between the reads.  An audit says PASS only after its
comparisons (`AuditInv`).  `CompleteRunsPass` counts the entries by the uses they name.

**Insights.**  A pending call corresponds to an open one, and those who wait,
wait for its key: `OneCall` and `CommentaryIsOfFacts`.  For the budget, an attempt
that was pruned is an hour old, so the calls of the last hour are all in
`attempts`; the cooldown makes them distinct, and if `MaxCalls` calls lay within an
hour of a new one, the set would have that many elements and refuse it.
`CountersDisjoint` is about the fold of the log: after each prefix, every request
has the decision of highest rank among its events of that prefix (`Highest`).  The
library's induction theorems cannot be used here, so the induction is made by hand: a shortest
prefix of which it is false, which exists because the order of the natural
numbers is well-founded, is neither empty nor longer than one of which it is true.
The counters are then cardinalities of disjoint sets of requests.

**Page.**  Rows are only appended, and their state moves one way.  The poll of the
effect in place takes a batch only while the report that it read last is the one
shown, which keeps runs apart; its cursor passes only what a batch contained or
what was then uncommitted; and a batch holds the first rows after the cursor, for which
the proof needs that every nonempty set of sequences has a least element.  A
probe that was challenged for the active run was read for it too, or the
credential's run is no longer active.

**Only model-checked.**  The liveness properties `EventuallySettled`,
`RequestsAreAnswered`, `ResetsSucceed`, `AsksAreAnswered` and `PageCatchesUp` are
beyond TLAPS.  Every invariant and action property of the passing runs is a
theorem.  Those that hold under a condition only have it as the hypothesis of the theorem:
`Undisturbed`, and for `StaleRefusalIsFinal` the order of the clocks.
For three of the runs that expect a violation a theorem says that the cause which
section 6 names is the only one: `OnlyExpiryOverrides`, `OneWorkerDelivers` and
`CredentialForward`.  For the fourth, `wallet_resume`, `OneSlotOpen` says what
remains true.

## 6. Where the code and its documents differ

Shown by a run:

1. **A committed decision can be refused** (`history`).  `rules.md` section 9:
   "Once acceptance has committed, the historical decision remains
   authoritative."  Of two copies of a presentation, the slower may pass the
   challenge check, wait while the other is accepted and the challenge
   expires, and then be refused by the proof check, which does not look the use up
   again.  The wallet may take that refusal for the outcome.  It takes the
   expiry and that check: `OnlyExpiryOverrides`.  (An operation that is presented again with
   another challenge can also meet the transaction's own expiry check, which does not
   look either; the run sends one presentation only.)  A retry that *starts* after the
   commit is not affected (`ExactRetryResolved`).
2. **A success can leave its event undelivered** (`outbox_delivered`,
   `CompletionDelivers`).  `rules.md` section 13: completion must atomically mark
   the use succeeded and the event delivered.  With two worker processes the event may have been put
   back to `READY` by the other; the update then changes no row and nobody
   notices.  The event is claimed again later and never becomes `DELIVERED`.
   If the fault is armed for that use, the wait sees the success and the
   consumption refuses it, because it asks for a delivered event
   (`repository.ts:849-850`): the fault is cancelled and the answer is
   `SERVICE_UNAVAILABLE`, which `UnavailableHasCause` counts among the causes.
   It takes the second worker: `OneWorkerDelivers`.
3. **Arming the fault can turn the cursor back** (`wallet_stale_arm`,
   `CredentialMovesForward`).  `prd.md` 13.2: the wallet reserves its next unused
   slot.  `armNextWalletDropAck` writes back the credential it read before a
   network call, over a use that another tab completed meanwhile, or over a
   credential issued since.  It takes arming beside another call: `CredentialForward`.
4. **A resumed poll can undo what a retry settled** (`wallet_resume`,
   `UnresolvedBlocksNewUse`).  `phase-5-safe-retry.md:15`: "While an operation is
   pending or unknown, the wallet blocks new-slot use."  On load the page resumes a
   pending operation without becoming busy (`main.tsx:60-62`), so it can be retried
   meanwhile (`main.tsx:643`).  If the retry settles it and the resumed poll then
   throws, `markOutcomeUnknown` writes the poll's copy over the settled record
   (`wallet-service.ts:454-455`).  A use that began between the two has passed its
   check and saves the next operation: two are unresolved, in one page.  Two pages
   that both load the wallet before either has saved its operation start two uses of
   one slot, to the same effect; the verifier accepts at most one of them.
   Neither loses a slot or a result (`OneSlotIsOpen`, `ResultsAreTrue`).

Met while modelling, without a run of their own:

- **A failed use can have an effect.**  `invariants.ts:161-168` expects no
  external action for a use that failed, and `rules.md:697` expects a transient
  failure of the action service to end in one effect.  If the destination
  committed and its five answers were lost, the use is failed and the effect is
  there.  In `Evidence` that is one of the causes of `FailHasCause`.
- **A refusal is taken for the outcome.**  `phase-5-safe-retry.md:18`:
  "Definitive pre-commit failures release the unresolved-operation lock without
  advancing the slot."  The first difference above reaches the wallet: the page
  closes while a request is under way, the retry passes the challenge check, the
  first copy is accepted, the retry is refused, and the operation is marked as
  failed.  The wallet then goes on to offer a slot that every later use finds taken.
- **A probe broken by a reset is shown as a rejection.**  `boundary-controller.ts:66`:
  "A broken probe is unavailable, not evidence of a verifier rejection."  If
  another tab resets the demo between the probe's reads, the verifier refuses it
  for another reason than the limit, and the page shows a rejection all the same.
  `RejectionIsMeasured` therefore speaks of the credential's run while it is active.
- **A cleared credential can come back.**  A tab that lags between reading the
  credential and writing it back while arming (`wallet-service.ts:151-166`) undoes
  another tab's reset of the wallet.

## 7. Not modelled, and the plan

Not modelled, for good:

- *cryptography*: an ideal is assumed, as `Acceptance` says;
- *contracts, configuration, logging, rendering*: they keep no protocol state;
- *migrations and seed*: they run before any process that the modules model, each
  file in its own transaction under one lock, and leave what `Init` describes;
- *reads without consequence*: `getPolicy`, `getUseStatus`, `auditWalletUses`.

Modelled in part, with what is missing:

- the wallet leaves out records from before operations were bound to a credential;
- the policy and challenge checks are abstracted field by field to matching and not
  matching;
- several API processes have a narrator each, of which one is modelled;
- `settleUse` is not called by the services; `canTransitionUse` is `BoundedUse`.

What would come next:

1. `Acceptance` and `Outbox` composed into one specification, so that the
   abstract `Settle` of the first is replaced by the workers of the second.
2. An abstract specification of the reset across both databases that `Demo`
   implements, as `Outbox` implements `EffectOnce`.
