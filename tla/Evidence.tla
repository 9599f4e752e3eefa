------------------------------ MODULE Evidence ------------------------------
(***************************************************************************)
(* The evidence report: what evidence-controller.ts says of the active run *)
(* from a snapshot of the verifier, a later read of the Action Simulator,  *)
(* and the one audit it keeps in memory.  Between the three the run goes   *)
(* on: uses are accepted, delivered and settled, other audits finish, and  *)
(* the demo is reset.                                                      *)
(*                                                                         *)
(* The log is the set of rows of protocol_events of the active run that    *)
(* the report looks at.  A trace is a request, so it is named by what the  *)
(* request did.  Receipts stand for their action: the verifier stores the  *)
(* receipt it was given, so the copies can differ only by being absent.    *)
(* The privacy scan reads the schema, which no action changes.             *)
(***************************************************************************)
EXTENDS Integers, FiniteSets

CONSTANTS
  Uses,        \* the uses of a run
  NoUse,       \* the reference of an event about no use
  L,           \* maxUses of the policy
  Readers,     \* clients that ask for the report
  Auditors,    \* clients that ask for the linkability test
  MaxRun,      \* bound: demo runs
  MaxIssued,   \* bound: credentials issued in a run
  MaxRetries,  \* bound: retries recorded in a run
  MaxProbes,   \* bound: rejected attempts recorded in a run
  MaxErased    \* bound: log entries of a run that is deleted, three fewer for
               \* each report in flight

ASSUME EvidenceAssumption ==
  /\ IsFiniteSet(Uses) /\ NoUse \notin Uses
  /\ {L, MaxRun} \subseteq Nat \ {0}
  /\ {MaxIssued, MaxRetries, MaxProbes, MaxErased} \subseteq Nat

VARIABLES
  run,      \* the active run
  fenced,   \* has the Action Simulator a tombstone of the run
  row,      \* use_records.status, "NONE" where there is no row
  log,      \* protocol_events of the run
  action,   \* uses of the run whose action the destination has committed
  audit,    \* the audit kept by the controller, of any run
  reader,   \* each getEvidence call: its snapshot, once taken
  auditor,  \* each runLinkability call
  shown     \* the last report of the active run that each reader got

vars == <<run, fenced, row, log, action, audit, reader, auditor, shown>>

Names == {"CREDENTIAL_ISSUED", "USE_ACCEPTED", "EXTERNAL_ACTION_COMMITTED",
          "RETRY_MATCHED", "RETRY_RESULT", "OVER_LIMIT_REJECTED", "PRESENTATION_REJECTED"}
Rejections == {"OVER_LIMIT_REJECTED", "PRESENTATION_REJECTED"}
Requests == {"issue", "accept", "worker", "retry", "probe"}
Statuses == {"PASS", "FAIL", "NOT_RUN", "INCOMPLETE"}

Event(name, u, by, n) ==
  [name |-> name, use |-> u, trace |-> <<by, u, n>>]

Events == {Event(name, u, by, n) : name \in Names, u \in Uses \cup {NoUse},
             by \in Requests, n \in 0..(MaxIssued + MaxRetries + MaxProbes)}

Named(events, name) == {e \in events : e.name = name}
Accepted(rows) == {u \in Uses : rows[u] # "NONE"}
Succeeded(rows) == {u \in Uses : rows[u] = "SUCCEEDED"}

NoAudit == [run |-> 0, refs |-> {}, same |-> {}, status |-> "INCOMPLETE", compared |-> FALSE]
Incomplete(r) == [NoAudit EXCEPT !.run = r]
NoReport == [run |-> 0, uses |-> {}, overall |-> "NOT_RUN"]
Idle == [pc |-> "idle", run |-> 0, row |-> [u \in Uses |-> "NONE"], log |-> {}]
\* No call of runLinkability is under way.
Resting == [pc |-> "idle", run |-> 0, uses |-> {}, same |-> {}, sent |-> {}]

Init ==
  /\ run = 1 /\ fenced = FALSE
  /\ row = [u \in Uses |-> "NONE"]
  /\ log = {} /\ action = {}
  /\ audit = NoAudit
  /\ reader = [p \in Readers |-> Idle]
  /\ auditor = [a \in Auditors |-> Resting]
  /\ shown = [p \in Readers |-> NoReport]

-----------------------------------------------------------------------------
(* The run goes on.                                                        *)

Protocol == <<run, fenced, row, log, action>>
Controller == <<audit, reader, auditor, shown>>

\* issueCredential logs each credential; a client gets it only if that succeeds.
Issue ==
  LET n == Cardinality(Named(log, "CREDENTIAL_ISSUED")) + 1 IN
  /\ n <= MaxIssued
  /\ log' = log \cup {Event("CREDENTIAL_ISSUED", NoUse, "issue", n)}
  /\ UNCHANGED <<run, fenced, row, action, Controller>>

\* acceptPresentation: the row, its outbox event and its log entry together.
\* Each credential gives L uses.
Accept(u) ==
  /\ row[u] = "NONE"
  /\ Cardinality(Accepted(row)) < L * Cardinality(Named(log, "CREDENTIAL_ISSUED"))
  /\ row' = [row EXCEPT ![u] = "PENDING"]
  /\ log' = log \cup {Event("USE_ACCEPTED", u, "accept", 0)}
  /\ UNCHANGED <<run, fenced, action, Controller>>

\* The destination commits an action, also when its sender has given up.
Commit(u) ==
  /\ row[u] # "NONE" /\ ~fenced /\ u \notin action
  /\ action' = action \cup {u}
  /\ UNCHANGED <<run, fenced, row, log, Controller>>

\* Mutant: the completion does not log the effect.
Complete_NoEvent(u) ==
  /\ row[u] = "PENDING" /\ u \in action
  /\ row' = [row EXCEPT ![u] = "SUCCEEDED"]
  /\ UNCHANGED <<run, fenced, log, action, Controller>>

\* completeOutboxSuccess: the result, and the log entry of the effect.
Complete(u) ==
  /\ row[u] = "PENDING" /\ u \in action
  /\ row' = [row EXCEPT ![u] = "SUCCEEDED"]
  /\ log' = log \cup {Event("EXTERNAL_ACTION_COMMITTED", u, "worker", 0)}
  /\ UNCHANGED <<run, fenced, action, Controller>>

\* failOutbox or the last retryOutbox, whether or not the action was committed.
\* Its log entry has no delta and answers no retry.
FailFinal(u) ==
  /\ row[u] = "PENDING"
  /\ row' = [row EXCEPT ![u] = "FAILED"]
  /\ UNCHANGED <<run, fenced, log, action, Controller>>

\* recordRetry: the match and its result in one transaction, a result of one of
\* the three names that the report takes alike.
Retry(u) ==
  LET n == Cardinality(Named(log, "RETRY_MATCHED")) + 1 IN
  /\ row[u] # "NONE" /\ n <= MaxRetries
  /\ log' = log \cup {Event("RETRY_MATCHED", u, "retry", n),
                      Event("RETRY_RESULT", u, "retry", n)}
  /\ UNCHANGED <<run, fenced, row, action, Controller>>

\* appendSafeEvent for a presentation that the verifier refuses.
Probe(name) ==
  LET n == Cardinality({e \in log : e.name \in Rejections}) + 1 IN
  /\ n <= MaxProbes
  /\ log' = log \cup {Event(name, NoUse, "probe", n)}
  /\ UNCHANGED <<run, fenced, row, action, Controller>>

\* The reset fences the destination, then deletes the run.
Fence ==
  /\ ~fenced
  /\ fenced' = TRUE /\ action' = {}
  /\ UNCHANGED <<run, row, log, Controller>>

Asking == {p \in Readers : reader[p].pc = "asking"}

Erase ==
  /\ fenced /\ run < MaxRun
  /\ Cardinality(log) + 3 * Cardinality(Asking) <= MaxErased
  /\ run' = run + 1 /\ fenced' = FALSE
  /\ row' = [u \in Uses |-> "NONE"] /\ log' = {} /\ action' = {}
  /\ shown' = [p \in Readers |-> NoReport]
  /\ UNCHANGED <<audit, reader, auditor>>

-----------------------------------------------------------------------------
(* The calculator: a report from a snapshot s, the uses whose actions the  *)
(* destination still has, and the stored audit.                            *)

OneEach(events, refs) ==
  /\ Cardinality(events) = Cardinality(refs)
  /\ {e.use : e \in events} = refs

\* usageDelta and actionDelta are 1 in these two events and 0 in the others.
Usage(events) == Cardinality(Named(events, "USE_ACCEPTED"))
Actions(events) == Cardinality(Named(events, "EXTERNAL_ACTION_COMMITTED"))

\* One event and one delta for each row of the two ledgers.
LedgerComplete(s, actions) ==
  /\ OneEach(Named(s.log, "USE_ACCEPTED"), Accepted(s.row))
  /\ OneEach(Named(s.log, "EXTERNAL_ACTION_COMMITTED"), actions)
  /\ Usage(s.log) = Cardinality(Accepted(s.row))
  /\ Actions(s.log) = Cardinality(actions)

\* Each match has its acceptance and its result.
RetryComplete(events) ==
  \A e \in Named(events, "RETRY_MATCHED") :
    /\ \E f \in Named(events, "USE_ACCEPTED") : f.use = e.use
    /\ \E f \in Named(events, "RETRY_RESULT") : f.trace = e.trace /\ f.use = e.use

Unavailable(s, actions) == ~LedgerComplete(s, actions) \/ ~RetryComplete(s.log)

\* Mutant: an attempt answers for the deltas of all requests.
DeltaForTrace_All(events, trace) == <<Usage(events), Actions(events)>>

\* What the request of an event has changed.
DeltaForTrace(events, trace) ==
  LET own == {e \in events : e.trace = trace} IN <<Usage(own), Actions(own)>>

Check(holds, fails) == IF fails THEN "FAIL" ELSE IF holds THEN "PASS" ELSE "NOT_RUN"

\* All of some attempts have changed nothing.
Unchanged(s, actions, attempts) ==
  LET changed == \E e \in attempts : DeltaForTrace(s.log, e.trace) # <<0, 0>> IN
  IF Unavailable(s, actions) THEN "INCOMPLETE" ELSE Check(attempts # {}, changed)

\* Exactly one credential makes the count of uses comparable with the limit.
BoundedUse(s) ==
  LET n == Cardinality(Accepted(s.row))
      one == n > 0 /\ Cardinality(Named(s.log, "CREDENTIAL_ISSUED")) = 1
  IN Check(one /\ n = L, one /\ n > L)

\* Mutant: uses that are still pending count as uses without an effect.
SingleExternalEffect_Pending(s, actions) ==
  Check(s.row # [u \in Uses |-> "NONE"],
        \/ ~(actions \subseteq Accepted(s.row))
        \/ \E u \in Accepted(s.row) : (s.row[u] = "SUCCEEDED") # (u \in actions))

\* An effect for each success and for nothing else, once all uses are settled.
SingleExternalEffect(s, actions) ==
  LET uses == Accepted(s.row)
      settled == uses # {} /\ \A u \in uses : s.row[u] # "PENDING"
  IN Check(settled,
           \/ uses # {} /\ ~(actions \subseteq uses)
           \/ settled /\ \E u \in uses : (s.row[u] = "SUCCEEDED") # (u \in actions))

\* The audit counts only if it covers the uses of the snapshot.
Unlinkability(s, aud) ==
  IF aud.run # s.run \/ aud.status = "INCOMPLETE" THEN "INCOMPLETE"
  ELSE Check(Cardinality(aud.refs) >= 2, aud.refs # Accepted(s.row))

Checks(s, actions, aud) ==
  LET uses == Accepted(s.row)
      recovered == Succeeded(s.row) \cap actions
      own == aud.run = s.run
      rejected == {e \in s.log : e.name \in Rejections}
  IN {BoundedUse(s),
      Check(uses # {}, FALSE),                                      \* singleAcceptance
      Unchanged(s, actions, Named(s.log, "RETRY_MATCHED")),         \* retryIdempotency
      Unchanged(s, actions, rejected),               \* noFailedVerificationConsumption
      Unchanged(s, actions, Named(s.log, "OVER_LIMIT_REJECTED")),   \* overLimitRejected
      SingleExternalEffect(s, actions),
      Check(recovered # {}, FALSE),                                 \* recoverability
      Check(recovered # {} /\ Succeeded(s.row) \subseteq actions, FALSE), \* allReceiptsStable
      Unlinkability(s, aud),
      Check(own /\ aud.same # {}, own /\ aud.same # {} /\ aud.refs # uses)} \* retryRecognition

Overall(checks) ==
  IF "FAIL" \in checks THEN "FAIL"
  ELSE IF "INCOMPLETE" \in checks THEN "INCOMPLETE"
  ELSE IF checks = {"PASS"} THEN "PASS"
  ELSE "NOT_RUN"

-----------------------------------------------------------------------------
(* getEvidence: the snapshot is one REPEATABLE READ transaction; the       *)
(* destination is asked after it, and the audit is read last.              *)

TakeSnapshot(p) ==
  /\ reader[p].pc = "idle"
  /\ reader' = [reader EXCEPT ![p] = [pc |-> "asking", run |-> run, row |-> row, log |-> log]]
  /\ UNCHANGED <<Protocol, audit, auditor, shown>>

\* The destination answers with the actions it has of the run, none of an old one.
Receipts(r) == IF r = run THEN action ELSE {}

FinishReport(p) ==
  LET s == reader[p] IN
  /\ s.pc = "asking"
  /\ shown' = [shown EXCEPT ![p] =
       [run |-> s.run, uses |-> Accepted(s.row),
        overall |-> Overall(Checks(s, Receipts(s.run), audit))]]
  /\ reader' = [reader EXCEPT ![p] = Idle]
  /\ UNCHANGED <<Protocol, audit, auditor>>

\* The destination is unavailable or too slow: the caller gets an error.
ReportFails(p) ==
  /\ reader[p].pc = "asking"
  /\ reader' = [reader EXCEPT ![p] = Idle]
  /\ UNCHANGED <<Protocol, audit, auditor, shown>>

-----------------------------------------------------------------------------
(* runLinkability: the snapshot, a look-up of every presentation, and the  *)
(* comparisons.  The last call to end leaves its audit.                    *)

\* A client sends the presentations of some uses, of some of them two copies.
StartAudit(a, sent, twice) ==
  /\ auditor[a].pc = "idle"
  /\ auditor' = [auditor EXCEPT ![a] =
       [pc |-> "preparing", run |-> run, uses |-> Accepted(row),
        same |-> twice \cap {e.use : e \in Named(log, "RETRY_MATCHED")},
        sent |-> sent]]
  /\ UNCHANGED <<Protocol, audit, reader, shown>>

\* The presentations are those of the run and cover the uses of the snapshot.
Covers(c) ==
  /\ c.run = run /\ c.sent \subseteq Accepted(row)
  /\ c.sent = c.uses

\* Comparable: two uses, and one exact retry that the verifier has matched.
PrepareAudit(a) ==
  LET c == auditor[a]
      enough == Covers(c) /\ Cardinality(c.uses) >= 2 /\ c.same # {}
  IN
  /\ c.pc = "preparing"
  /\ auditor' = [auditor EXCEPT ![a] =
       IF enough THEN [c EXCEPT !.pc = "comparing", !.sent = {}] ELSE Resting]
  /\ audit' = IF enough THEN audit ELSE Incomplete(c.run)
  /\ UNCHANGED <<Protocol, reader, shown>>

\* Mutant: a comparison that could not be made is no failure.
Compare_Unavailable(a, available) ==
  LET c == auditor[a] IN
  /\ c.pc = "comparing"
  /\ audit' = [run |-> c.run, refs |-> c.uses, same |-> c.same, status |-> "PASS",
                compared |-> available]
  /\ auditor' = [auditor EXCEPT ![a] = Resting]
  /\ UNCHANGED <<Protocol, reader, shown>>

\* The adapter compares all pairs and the retries, or one comparison fails.
Compare(a, available) ==
  LET c == auditor[a] IN
  /\ c.pc = "comparing"
  /\ audit' = IF ~available THEN Incomplete(c.run)
              ELSE [run |-> c.run, refs |-> c.uses, same |-> c.same,
                    status |-> "PASS", compared |-> TRUE]
  /\ auditor' = [auditor EXCEPT ![a] = Resting]
  /\ UNCHANGED <<Protocol, reader, shown>>

-----------------------------------------------------------------------------
Run ==
  \/ Issue \/ Fence \/ Erase
  \/ \E name \in Rejections : Probe(name)
  \/ \E u \in Uses : Accept(u) \/ Commit(u) \/ Complete(u) \/ FailFinal(u) \/ Retry(u)

Report(p) == TakeSnapshot(p) \/ FinishReport(p)

Linkability(a) ==
  \/ \E sent \in (SUBSET Uses) \ {{}} : \E twice \in SUBSET sent : StartAudit(a, sent, twice)
  \/ PrepareAudit(a)
  \/ \E available \in BOOLEAN : Compare(a, available)

Next ==
  \/ Run
  \/ \E p \in Readers : Report(p) \/ ReportFails(p)
  \/ \E a \in Auditors : Linkability(a)

Spec == Init /\ [][Next]_vars

-----------------------------------------------------------------------------
\* Type correctness.
TypeOK ==
  /\ run \in 1..MaxRun /\ fenced \in BOOLEAN
  /\ row \in [Uses -> {"NONE", "PENDING", "SUCCEEDED", "FAILED"}]
  /\ log \subseteq Events /\ action \subseteq Uses
  /\ audit \in [run : 0..MaxRun, refs : SUBSET Uses, same : SUBSET Uses,
                status : {"PASS", "INCOMPLETE"}, compared : BOOLEAN]
  /\ DOMAIN reader = Readers
  /\ \A p \in Readers :
       /\ DOMAIN reader[p] = {"pc", "run", "row", "log"}
       /\ reader[p].pc \in {"idle", "asking"} /\ reader[p].run \in 0..MaxRun
       /\ reader[p].row \in [Uses -> {"NONE", "PENDING", "SUCCEEDED", "FAILED"}]
       /\ reader[p].log \subseteq Events
  /\ auditor \in [Auditors -> [pc : {"idle", "preparing", "comparing"}, run : 0..MaxRun,
                     uses : SUBSET Uses, same : SUBSET Uses, sent : SUBSET Uses]]
  /\ shown \in [Readers -> [run : 0..MaxRun, uses : SUBSET Uses, overall : Statuses]]

\* While a run that was reported PASS is not being reset, each reported use is
\* still settled and each success still has its effect: the snapshot, the later
\* read of the destination and the audit, taken together, did not describe a
\* state that never was (evidence-controller.ts, evidenceFromSnapshot).
PassIsTrue ==
  \A p \in Readers :
    shown[p].overall = "PASS" /\ shown[p].run = run /\ ~fenced =>
      /\ Cardinality(shown[p].uses) = L
      /\ \A u \in shown[p].uses : /\ row[u] \in {"SUCCEEDED", "FAILED"}
                                  /\ row[u] = "SUCCEEDED" => u \in action

\* The one stored audit, and each report that passed on its strength, rest on
\* comparisons that were made, of that run and of exactly those uses, however
\* the calls of runLinkability overtake each other.
PassWasAudited ==
  [][\A p \in Readers :
       shown'[p].overall = "PASS" /\ shown'[p] # shown[p] =>
         /\ audit.compared /\ audit.run = shown'[p].run
         /\ audit.refs = shown'[p].uses /\ Cardinality(audit.refs) >= 2]_vars

\* A report of FAIL has a cause: a reset cut in, the destination has an effect
\* that the snapshot denies, or the stored audit is of other uses.  Traffic that
\* merely went on between the reads is no cause.
FailHasCause ==
  [][\A p \in Readers :
       shown'[p] # shown[p] /\ shown'[p].overall = "FAIL" =>
         \/ reader[p].run # run \/ fenced
         \/ \E u \in action : reader[p].row[u] \in {"NONE", "FAILED"}
         \/ audit.run = reader[p].run /\ audit.refs # Accepted(reader[p].row)]_vars

\* All that the report measures has happened, and the audit of it is stored.
RunComplete ==
  /\ ~fenced
  /\ Cardinality(Named(log, "CREDENTIAL_ISSUED")) = 1
  /\ Cardinality(Accepted(row)) = L
  /\ \A u \in Accepted(row) : row[u] # "PENDING" /\ (row[u] = "SUCCEEDED" <=> u \in action)
  /\ action # {}
  /\ Named(log, "RETRY_MATCHED") # {} /\ Named(log, "OVER_LIMIT_REJECTED") # {}
  /\ audit.run = run /\ audit.status = "PASS" /\ audit.same # {}
  /\ audit.refs = Accepted(row)

\* No way of getting there hides it: whatever the retries, the failures and the
\* calls that lost a race on the way, a complete run that has not changed since
\* the snapshot is reported PASS.
CompleteRunPasses ==
  [][\A p \in Readers :
       /\ RunComplete /\ FinishReport(p)
       /\ reader[p].run = run /\ reader[p].row = row /\ reader[p].log = log
       => shown'[p].overall = "PASS"]_vars
=============================================================================
