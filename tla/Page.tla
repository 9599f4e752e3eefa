-------------------------------- MODULE Page --------------------------------
(***************************************************************************)
(* The page of the demo lab: it polls the evidence, the event stream and   *)
(* the insights, each in its own time, while events commit in another      *)
(* order than they are numbered, other tabs reset the run, and the page    *)
(* itself resets and probes the boundary.                                  *)
(*                                                                         *)
(* A poll belongs to the effect that began it.  An effect is taken down    *)
(* and begun anew (its cleanup sets active to false) some time after the   *)
(* state that it depends on has changed; its polls may outlive it.  The    *)
(* timer between two polls is not modelled: the next one may take any time.*)
(***************************************************************************)
EXTENDS Integers, Sequences, FiniteSets, FiniteSetsExt

CONSTANTS
  Limit,      \* LIMIT of getProtocolEvents
  MaxRun,     \* bound: demo runs
  MaxSeq,     \* bound: the sequence of the event log
  MaxRefresh, \* bound: how often the page refreshes
  MaxFails    \* bound: reads that fail

ASSUME PageAssumption ==
  /\ Limit \in Nat \ {0}
  /\ MaxRun \in Nat \ {0}
  /\ {MaxSeq, MaxRefresh, MaxFails} \subseteq Nat

VARIABLES
  run,       \* the active run
  row,       \* protocol_events, by sequence
  overtaken, \* history: events uncommitted when a batch with a later one was read
  refresh,   \* refreshKey
  effect,    \* the refreshKey of the effect of useEvidence in place
  poll,      \* the polls of each effect of useEvidence
  evidence,  \* the report shown, of run 0 if there is none
  shown,     \* the events shown
  live,      \* is streamState "Live"
  insight,   \* useInsights: its effect, its snapshot, its request
  op,        \* the control under way, which makes the page busy
  wallet,    \* the run of the credential, 0 if there is none
  rejected,  \* boundaryRejected
  invalid,   \* invalidatedInsightsRun
  fails      \* reads that have failed

server == <<run, row, overtaken>>
stream == <<effect, poll, evidence, shown, live>>
controls == <<op, wallet, rejected, invalid>>
vars == <<server, refresh, stream, insight, controls, fails>>

Runs == 1..MaxRun
Effects == 0..MaxRefresh

OverLimit == "OVER_LIMIT_REJECTED"

NoPoll == [pc |-> "off", report |-> 0, runId |-> 0, cursor |-> 0, batch |-> {}]
NoSnapshot == [run |-> 0, refresh |-> 0, report |-> 0]
NoOp == [kind |-> "none", pc |-> "idle", run |-> 0, challenge |-> 0, closure |-> 0]

Init ==
  /\ run = 1 /\ row = <<>> /\ overtaken = {}
  /\ refresh = 0 /\ effect = 0
  /\ poll = [e \in Effects |-> IF e = 0 THEN [NoPoll EXCEPT !.pc = "asks"] ELSE NoPoll]
  /\ evidence = 0 /\ shown = {} /\ live = FALSE
  /\ insight = [on |-> FALSE, run |-> 0, refresh |-> 0, snapshot |-> NoSnapshot, asks |-> "none", of |-> 0]
  /\ op = NoOp /\ wallet = 0 /\ rejected = FALSE /\ invalid = 0 /\ fails = 0

-----------------------------------------------------------------------------
(* The event log.  The identity numbers an event when it is inserted; its  *)
(* transaction commits later, or never: it cannot when the run is erased.  *)

Committed(r) == {i \in DOMAIN row : row[i].run = r /\ row[i].state = "committed"}

Insert ==
  /\ Len(row) < MaxSeq
  /\ row' = Append(row, [run |-> run, name |-> "USE_ACCEPTED", state |-> "open"])
  /\ UNCHANGED <<run, overtaken, refresh, stream, insight, controls, fails>>

Commit(i) ==
  /\ row[i].state = "open" /\ row[i].run = run
  /\ row' = [row EXCEPT ![i].state = "committed"]
  /\ UNCHANGED <<run, overtaken, refresh, stream, insight, controls, fails>>

\* resetDemoRun: the events of the run are deleted, the new run begins with one.
ResetRun ==
  /\ run < MaxRun /\ Len(row) < MaxSeq
  /\ run' = run + 1
  /\ row' = Append([i \in DOMAIN row |-> IF i \in Committed(run) THEN [row[i] EXCEPT !.state = "gone"] ELSE row[i]],
                   [run |-> run + 1, name |-> "DEMO_RESET", state |-> "committed"])

\* Another tab resets the demo.
OtherTabResets ==
  /\ ResetRun
  /\ UNCHANGED <<overtaken, refresh, stream, insight, controls, fails>>

-----------------------------------------------------------------------------
(* useEvidence                                                             *)

Fail == fails < MaxFails /\ fails' = fails + 1

\* The cleanup of the effect and the first poll of the next one.
EvidenceEffect ==
  /\ effect # refresh
  /\ effect' = refresh
  /\ poll' = [poll EXCEPT ![refresh] = [NoPoll EXCEPT !.pc = "asks"]]
  /\ UNCHANGED <<server, refresh, evidence, shown, live, insight, controls, fails>>

\* The snapshot of the report.
ReadEvidence(e) ==
  /\ poll[e].pc = "asks"
  /\ poll' = [poll EXCEPT ![e].pc = "told", ![e].report = run]
  /\ UNCHANGED <<server, refresh, effect, evidence, shown, live, insight, controls, fails>>

\* Mutant: an effect that was taken down goes on.
TakeEvidence_Inactive(e) ==
  LET new == poll[e].runId # poll[e].report IN
  /\ poll[e].pc = "told"
  /\ evidence' = poll[e].report
  /\ shown' = IF new THEN {} ELSE shown
  /\ poll' = [poll EXCEPT ![e] = [pc |-> "fetches", report |-> 0, runId |-> @.report,
                                  cursor |-> IF new THEN 0 ELSE @.cursor, batch |-> {}]]
  /\ UNCHANGED <<server, refresh, effect, live, insight, controls, fails>>

TakeEvidence(e) ==
  LET new == poll[e].runId # poll[e].report IN
  /\ poll[e].pc = "told" /\ e = effect
  /\ evidence' = poll[e].report
  /\ shown' = IF new THEN {} ELSE shown
  /\ poll' = [poll EXCEPT ![e] = [pc |-> "fetches", report |-> 0, runId |-> @.report,
                                  cursor |-> IF new THEN 0 ELSE @.cursor, batch |-> {}]]
  /\ UNCHANGED <<server, refresh, effect, live, insight, controls, fails>>

Rows(r, after) == {i \in Committed(r) : i > after}

\* Mutant: the order of the rows is not asked for.
Batch_Unordered(r, after) ==
  {i \in Rows(r, after) : Cardinality({j \in Rows(r, after) : j > i}) < Limit}

\* ORDER BY sequence LIMIT: the first of the rows of a run.
Batch(r, after) ==
  {i \in Rows(r, after) : Cardinality({j \in Rows(r, after) : j < i}) < Limit}

\* getProtocolEvents reads the active run and then its rows, which are deleted
\* if there is a reset in between.
ReadRows(e, r) ==
  LET batch == Batch(r, poll[e].cursor) IN
  /\ poll[e].pc = "fetches" /\ r \in {poll[e].runId, run}
  /\ poll' = [poll EXCEPT ![e].pc = "batch", ![e].batch = batch]
  /\ overtaken' = overtaken \cup {i \in DOMAIN row : row[i].state = "open" /\ \E j \in batch : i < j}
  /\ UNCHANGED <<run, row, refresh, effect, evidence, shown, live, insight, controls, fails>>

\* A reset between the two reads: begin again rather than mix two runs.
TakeBatch(e) ==
  LET batch == poll[e].batch IN
  /\ poll[e].pc = "batch" /\ e = effect
  /\ IF \E i \in batch : row[i].run # poll[e].runId
     THEN /\ poll' = [poll EXCEPT ![e].pc = "asks", ![e].batch = {}, ![e].cursor = 0]
          /\ evidence' = 0 /\ shown' = {} /\ live' = FALSE
     ELSE /\ poll' = [poll EXCEPT ![e].pc = "asks", ![e].batch = {}, ![e].cursor = Max(batch \cup {@})]
          /\ shown' = shown \cup batch /\ live' = TRUE
          /\ UNCHANGED evidence
  /\ UNCHANGED <<server, refresh, effect, insight, controls, fails>>

\* Mutant: a poll that has failed is not repeated.
PollFails_Ends(e) ==
  /\ poll[e].pc \in {"asks", "fetches"} /\ e = effect /\ Fail
  /\ poll' = [poll EXCEPT ![e].pc = "off"]
  /\ live' = FALSE
  /\ UNCHANGED <<server, refresh, effect, evidence, shown, insight, controls>>

\* What is shown stays.
PollFails(e) ==
  /\ poll[e].pc \in {"asks", "fetches"} /\ e = effect /\ Fail
  /\ poll' = [poll EXCEPT ![e].pc = "asks"]
  /\ live' = FALSE
  /\ UNCHANGED <<server, refresh, effect, evidence, shown, insight, controls>>

\* Not active any more: the poll ends without a trace.
PollEnds(e) ==
  /\ poll[e].pc \in {"told", "batch"} /\ e # effect
  /\ poll' = [poll EXCEPT ![e] = NoPoll]
  /\ UNCHANGED <<server, refresh, effect, evidence, shown, live, insight, controls, fails>>

Poll(e) ==
  ReadEvidence(e) \/ TakeEvidence(e) \/ TakeBatch(e) \/ \E r \in Runs : ReadRows(e, r)

-----------------------------------------------------------------------------
(* useInsights                                                             *)

Enabled == op.kind = "none" /\ live /\ evidence # 0 /\ evidence # invalid

\* The dependencies of the effect have changed: the last one is taken down.
InsightsEffect ==
  /\ <<insight.on, insight.run, insight.refresh>> # <<Enabled, evidence, refresh>>
  /\ insight' = [on |-> Enabled, run |-> evidence, refresh |-> refresh,
                 snapshot |-> IF Enabled THEN [run |-> evidence, refresh |-> refresh, report |-> 0]
                              ELSE NoSnapshot,
                 asks |-> IF Enabled THEN "asks" ELSE "none", of |-> 0]
  /\ UNCHANGED <<server, refresh, stream, controls, fails>>

ReadInsights ==
  /\ insight.asks = "asks"
  /\ insight' = [insight EXCEPT !.asks = "told", !.of = run]
  /\ UNCHANGED <<server, refresh, stream, controls, fails>>

\* The report of another run is not shown.
TakeInsights ==
  /\ insight.asks = "told"
  /\ insight' = [insight EXCEPT !.asks = "asks", !.of = 0,
                   !.snapshot.report = IF insight.of = insight.run THEN insight.of ELSE 0]
  /\ UNCHANGED <<server, refresh, stream, controls, fails>>

InsightsFail ==
  /\ insight.asks = "asks" /\ Fail
  /\ insight' = [insight EXCEPT !.asks = "asks", !.snapshot.report = 0]
  /\ UNCHANGED <<server, refresh, stream, controls>>

\* Mutant: a snapshot is rendered whatever it was asked for.
Rendered_Any == IF Enabled THEN insight.snapshot.report ELSE 0

\* The guards of the render, which comes before the effect.
Rendered ==
  LET s == insight.snapshot IN
  IF Enabled /\ s.run = evidence /\ s.refresh = refresh THEN s.report ELSE 0

-----------------------------------------------------------------------------
(* The controls.  A busy page has all of them disabled.                    *)

Stale == wallet # 0 /\ evidence # 0 /\ wallet # evidence

Begin(kind) == op' = [NoOp EXCEPT !.kind = kind, !.pc = "asks", !.closure = evidence]

\* A credential is issued for the active run, and all its slots are used.
UsePass ==
  /\ op.kind = "none" /\ ~Stale /\ wallet = 0
  /\ wallet' = run
  /\ UNCHANGED <<server, refresh, stream, insight, op, rejected, invalid, fails>>

StartReset ==
  /\ op.kind = "none" /\ refresh < MaxRefresh
  /\ Begin("reset")
  /\ UNCHANGED <<server, refresh, stream, insight, wallet, rejected, invalid, fails>>

ResetAnswers ==
  /\ op.kind = "reset" /\ op.pc = "asks"
  /\ ResetRun
  /\ op' = [op EXCEPT !.pc = "told"]
  /\ UNCHANGED <<overtaken, refresh, stream, insight, wallet, rejected, invalid, fails>>

\* The closure holds the evidence that was shown when the reset began.
FinishReset ==
  /\ op.kind = "reset" /\ op.pc = "told"
  /\ op' = NoOp /\ wallet' = 0 /\ rejected' = FALSE /\ invalid' = op.closure
  /\ refresh' = refresh + 1
  /\ UNCHANGED <<server, stream, insight, fails>>

\* A reset that failed, or whose answer was lost: the wallet is kept.
ResetFails ==
  /\ op.kind = "reset" /\ Fail
  /\ op' = NoOp
  /\ UNCHANGED <<server, refresh, stream, insight, wallet, rejected, invalid>>

StartProbe ==
  /\ op.kind = "none" /\ ~Stale /\ wallet # 0 /\ refresh < MaxRefresh
  /\ Begin("probe")
  /\ rejected' = FALSE
  /\ UNCHANGED <<server, refresh, stream, insight, wallet, invalid, fails>>

\* attemptFourthUse reads the active run, then createChallenge reads it again.
ReadProbeRun ==
  /\ op.kind = "probe" /\ op.pc = "asks"
  /\ op' = [op EXCEPT !.pc = "read", !.run = run]
  /\ UNCHANGED <<server, refresh, stream, insight, wallet, rejected, invalid, fails>>

ChallengeProbe ==
  /\ op.kind = "probe" /\ op.pc = "read"
  /\ op' = [op EXCEPT !.pc = "challenged", !.challenge = run]
  /\ UNCHANGED <<server, refresh, stream, insight, wallet, rejected, invalid, fails>>

\* The probe is sealed for slot L of the run that was read: beyond the limit of
\* the active run, not valid for another one.
ProbeEvent == IF op.run = run THEN OverLimit ELSE "PRESENTATION_REJECTED"

\* Mutant: the probe is refused before its event is appended.
PresentProbe_Unlogged ==
  /\ op.kind = "probe" /\ op.pc = "challenged"
  /\ op' = [op EXCEPT !.pc = "refused"]
  /\ UNCHANGED <<server, refresh, stream, insight, wallet, rejected, invalid, fails>>

\* The ordinary verifier refuses the probe, without an event if its challenge
\* was erased.
PresentProbe ==
  /\ op.kind = "probe" /\ op.pc = "challenged" /\ Len(row) < MaxSeq
  /\ op' = [op EXCEPT !.pc = "refused"]
  /\ row' = IF op.challenge # run THEN row
            ELSE Append(row, [run |-> run, state |-> "committed", name |-> ProbeEvent])
  /\ UNCHANGED <<run, overtaken, refresh, stream, insight, wallet, rejected, invalid, fails>>

FinishProbe ==
  /\ op.kind = "probe" /\ op.pc = "refused"
  /\ op' = NoOp /\ rejected' = TRUE /\ refresh' = refresh + 1
  /\ UNCHANGED <<server, stream, insight, wallet, invalid, fails>>

\* A probe that cannot be made, or whose answer is lost, is unavailable.
ProbeFails ==
  /\ op.kind = "probe" /\ Fail
  /\ op' = NoOp /\ refresh' = refresh + 1
  /\ UNCHANGED <<server, stream, insight, wallet, rejected, invalid>>

-----------------------------------------------------------------------------
Log == Insert \/ \E i \in DOMAIN row : Commit(i)
Insights == InsightsEffect \/ ReadInsights \/ TakeInsights
Controls ==
  \/ UsePass \/ StartReset \/ ResetAnswers \/ FinishReset \/ ResetFails
  \/ StartProbe \/ ReadProbeRun \/ ChallengeProbe \/ PresentProbe \/ FinishProbe \/ ProbeFails

Next ==
  \/ Log \/ OtherTabResets
  \/ EvidenceEffect \/ \E e \in Effects : Poll(e) \/ PollFails(e) \/ PollEnds(e)
  \/ Insights \/ InsightsFail
  \/ Controls

Spec == Init /\ [][Next]_vars

\* The page goes on polling and the API answers.
FairSpec ==
  /\ Spec
  /\ WF_vars(EvidenceEffect)
  /\ \A e \in Effects : WF_vars(Poll(e))

-----------------------------------------------------------------------------
\* Type correctness.
TypeOK ==
  /\ run \in Runs /\ Len(row) <= MaxSeq
  /\ \A i \in DOMAIN row : row[i].run \in 1..run /\ row[i].state \in {"open", "committed", "gone"}
  /\ overtaken \subseteq DOMAIN row /\ shown \subseteq DOMAIN row
  /\ refresh \in Effects /\ effect \in 0..refresh
  /\ \A e \in Effects :
       /\ poll[e].pc \in {"off", "asks", "told", "fetches", "batch"}
       /\ {poll[e].report, poll[e].runId} \subseteq 0..run
       /\ poll[e].cursor \in 0..Len(row) /\ poll[e].batch \subseteq DOMAIN row
  /\ {evidence, wallet, invalid} \subseteq 0..run
  /\ live \in BOOLEAN /\ rejected \in BOOLEAN
  /\ {insight.run, insight.of, insight.snapshot.run, insight.snapshot.report} \subseteq 0..run
  /\ insight.asks \in {"none", "asks", "told"}
  /\ op.kind \in {"none", "reset", "probe"}
  /\ {op.run, op.challenge, op.closure} \subseteq 0..run

\* The events that are shown are of the run of the report beside them, however
\* resets, refreshes and the two reads of a poll follow each other.
EventsAreOfShownRun == \A i \in shown : row[i].run = evidence

\* So is the report of insights, which is polled apart, and read after a state
\* has changed but before the effect that follows it.
InsightsAreOfShownRun == Rendered # 0 => Rendered = evidence

\* An event of the shown run that the cursor has passed is shown, unless it was
\* uncommitted when a batch with a later one was read: the one way to miss one.
OnlyOvertakenAreMissed ==
  LET p == poll[effect] IN
  \A i \in Committed(p.runId) :
    i <= p.cursor /\ p.runId = evidence /\ i \notin shown => i \in overtaken

\* A rejection that the page reports is in the log of the run of its credential,
\* while that run is active.
RejectionIsMeasured ==
  rejected /\ wallet = run => \E i \in Committed(run) : row[i].name = OverLimit

\* At last the page shows the active run and all its events but those missed.
PageCatchesUp == <>[](evidence = run /\ \A i \in Committed(run) : i \in shown \cup overtaken)
=============================================================================
