----------------------------- MODULE PageProofs -----------------------------
(***************************************************************************)
(* Proofs about Page, for any number of runs, events, refreshes and        *)
(* failures, and any size of a batch.                                      *)
(***************************************************************************)
EXTENDS Page, TLAPS, FiniteSetTheorems, SequenceTheorems, WellFoundedInduction

RowRecords == [run : Runs, name : {"USE_ACCEPTED", "DEMO_RESET", "PRESENTATION_REJECTED", OverLimit},
               state : {"open", "committed", "gone"}]
PollPcs == {"off", "asks", "told", "fetches", "batch"}
PollRecords == [pc : PollPcs, report : 0..MaxRun,
                runId : 0..MaxRun, cursor : 0..MaxSeq, batch : SUBSET (1..MaxSeq)]
SnapshotRecords == [run : 0..MaxRun, refresh : Effects, report : 0..MaxRun]
InsightRecords == [on : BOOLEAN, run : 0..MaxRun, refresh : Effects, snapshot : SnapshotRecords,
                   asks : {"none", "asks", "told"}, of : 0..MaxRun]
OpRecords == [kind : {"none", "reset", "probe"},
              pc : {"idle", "asks", "told", "read", "challenged", "refused"},
              run : 0..MaxRun, challenge : 0..MaxRun, closure : 0..MaxRun]

-----------------------------------------------------------------------------
(* Type correctness.                                                       *)

LogOK ==
  /\ run \in Runs
  /\ row \in Seq(RowRecords) /\ Len(row) <= MaxSeq
  /\ \A i \in DOMAIN row : row[i].run <= run
  /\ overtaken \subseteq DOMAIN row

StreamOK ==
  /\ refresh \in Effects /\ effect \in 0..refresh
  /\ poll \in [Effects -> PollRecords]
  /\ \A e \in Effects : /\ {poll[e].report, poll[e].runId} \subseteq 0..run
                        /\ poll[e].pc = "told" => poll[e].report # 0
                        /\ poll[e].cursor <= Len(row) /\ poll[e].batch \subseteq DOMAIN row
  /\ evidence \in 0..run /\ shown \subseteq DOMAIN row /\ live \in BOOLEAN

InsightOK ==
  /\ insight \in InsightRecords
  /\ {insight.run, insight.of, insight.snapshot.run, insight.snapshot.report} \subseteq 0..run

ControlsOK ==
  /\ op \in OpRecords /\ {op.run, op.challenge, op.closure} \subseteq 0..run
  /\ op.kind # "none" => refresh < MaxRefresh
  /\ wallet \in 0..run /\ invalid \in 0..run /\ rejected \in BOOLEAN

ShapeOK == LogOK /\ StreamOK /\ InsightOK /\ ControlsOK

LEMMA ShapeIsType == ShapeOK => TypeOK
<1> SUFFICES ASSUME ShapeOK PROVE TypeOK
  OBVIOUS
<1>1. DOMAIN row = 1..Len(row) /\ Len(row) \in Nat
  BY LenProperties DEF ShapeOK, LogOK
<1>2. \A i \in DOMAIN row : row[i] \in RowRecords
  BY <1>1, ElementOfSeq DEF ShapeOK, LogOK
<1>3. \A i \in DOMAIN row : row[i].run \in 1..run /\ row[i].state \in {"open", "committed", "gone"}
  BY <1>2 DEF ShapeOK, LogOK, RowRecords, Runs
<1>4. \A e \in Effects :
       /\ poll[e].pc \in {"off", "asks", "told", "fetches", "batch"}
       /\ {poll[e].report, poll[e].runId} \subseteq 0..run
       /\ poll[e].cursor \in 0..Len(row) /\ poll[e].batch \subseteq DOMAIN row
  BY <1>1 DEF ShapeOK, StreamOK, PollRecords, PollPcs
<1>5. insight.asks \in {"none", "asks", "told"} /\ op.kind \in {"none", "reset", "probe"}
  BY DEF ShapeOK, InsightOK, ControlsOK, InsightRecords, OpRecords
<1> QED
  BY <1>3, <1>4, <1>5 DEF TypeOK, ShapeOK, LogOK, StreamOK, InsightOK, ControlsOK

-----------------------------------------------------------------------------
(* The log grows at its end; no event changes its run, none is uncommitted *)
(* again, and while the run is active its committed events stay.           *)

Grown ==
  /\ run <= run' /\ Len(row) <= Len(row')
  /\ \A i \in DOMAIN row :
       /\ row'[i].run = row[i].run /\ row'[i].name = row[i].name
       /\ row'[i].state = "open" => row[i].state = "open"
       /\ row'[i].state = "committed" => row[i].state \in {"open", "committed"}
       /\ row[i].state = "committed" /\ run' = run => row'[i].state = "committed"

LEMMA AppendGrows ==
  ASSUME LogOK, NEW rows \in Seq(RowRecords), Len(rows) = Len(row), Len(row) < MaxSeq,
         \A i \in DOMAIN row :
           /\ rows[i].run = row[i].run /\ rows[i].name = row[i].name
           /\ rows[i].state = "open" => row[i].state = "open"
           /\ rows[i].state = "committed" => row[i].state = "committed"
           /\ row[i].state = "committed" /\ run' = run => rows[i].state = "committed",
         NEW x \in RowRecords, row' = Append(rows, x), x.run <= run',
         run <= run', run' \in Runs, overtaken' = overtaken
  PROVE  LogOK' /\ Grown /\ Len(row') = Len(row) + 1 /\ row'[Len(row')] = x
<1>1. /\ row' \in Seq(RowRecords) /\ Len(row') = Len(row) + 1
      /\ \A i \in 1..Len(row) : row'[i] = rows[i]
      /\ row'[Len(row) + 1] = x
  BY AppendProperties
<1>2. Len(row) \in Nat /\ DOMAIN row = 1..Len(row) /\ DOMAIN row' = 1..Len(row')
  BY <1>1, LenProperties DEF LogOK
<1>3. Grown
  BY <1>1, <1>2 DEF Grown, LogOK, Runs
<1>4. \A i \in DOMAIN row' : row'[i].run <= run'
  <2>1. \A i \in DOMAIN row : row[i] \in RowRecords
    BY <1>2, ElementOfSeq DEF LogOK
  <2>2. \A i \in DOMAIN row : row'[i].run <= run'
    BY <1>1, <1>2, <2>1 DEF LogOK, RowRecords, Runs
  <2> QED
    BY <1>1, <1>2, <2>2
<1>5. LogOK'
  BY <1>1, <1>2, <1>4, PageAssumption DEF LogOK
<1> QED
  BY <1>1, <1>3, <1>5

LEMMA InsertGrows == ASSUME LogOK, Insert PROVE LogOK' /\ Grown
<1> DEFINE x == [run |-> run, name |-> "USE_ACCEPTED", state |-> "open"]
<1>1. x \in RowRecords /\ x.run <= run'
  BY DEF LogOK, RowRecords, Insert, Runs
<1>2. \A i \in DOMAIN row : row[i] \in RowRecords
  BY LenProperties, ElementOfSeq DEF LogOK
<1> QED
  BY <1>1, <1>2, AppendGrows DEF LogOK, Insert, Runs

LEMMA CommitGrows == ASSUME LogOK, NEW i \in DOMAIN row, Commit(i) PROVE LogOK' /\ Grown
<1>1. Len(row) \in Nat /\ DOMAIN row = 1..Len(row) /\ \A j \in DOMAIN row : row[j] \in RowRecords
  BY LenProperties, ElementOfSeq DEF LogOK
<1> DEFINE x == [row[i] EXCEPT !.state = "committed"]
<1>2. x \in RowRecords /\ x.run = row[i].run /\ x.name = row[i].name /\ x.state = "committed"
  BY <1>1 DEF RowRecords
<1>3. /\ row' \in Seq(RowRecords) /\ Len(row') = Len(row)
      /\ \A j \in 1..Len(row) : row'[j] = IF j = i THEN x ELSE row[j]
  BY <1>1, <1>2, ExceptSeq DEF LogOK, Commit
<1>4. DOMAIN row' = DOMAIN row
  BY <1>1, <1>3, LenProperties
<1>5. row[i].state = "open" /\ run' = run /\ overtaken' = overtaken
  BY DEF Commit
<1>6. Grown
  <2>1. run <= run' /\ Len(row) <= Len(row')
    BY <1>1, <1>3, <1>5 DEF LogOK, Runs
  <2>2. \A j \in DOMAIN row : row'[j] = row[j] \/ (j = i /\ row'[j] = x)
    BY <1>1, <1>3
  <2> HIDE DEF x
  <2> QED
    BY <1>2, <1>5, <2>1, <2>2 DEF Grown
<1>7. LogOK'
  BY <1>1, <1>2, <1>3, <1>4, <1>5 DEF LogOK
<1> QED
  BY <1>6, <1>7

LEMMA ResetGrows == ASSUME LogOK, ResetRun, overtaken' = overtaken PROVE LogOK' /\ Grown /\ run' = run + 1
<1>1. Len(row) \in Nat /\ DOMAIN row = 1..Len(row) /\ \A j \in DOMAIN row : row[j] \in RowRecords
  BY LenProperties, ElementOfSeq DEF LogOK
<1> DEFINE rows == [i \in DOMAIN row |-> IF i \in Committed(run) THEN [row[i] EXCEPT !.state = "gone"] ELSE row[i]]
           x == [run |-> run + 1, name |-> "DEMO_RESET", state |-> "committed"]
<1>2. \A i \in DOMAIN row : /\ rows[i] \in RowRecords
                            /\ rows[i].run = row[i].run /\ rows[i].name = row[i].name
                            /\ rows[i].state # "gone" => rows[i] = row[i]
  BY <1>1 DEF RowRecords
<1>3. rows \in [1..Len(row) -> RowRecords]
  BY <1>1, <1>2
<1>4. rows \in Seq(RowRecords) /\ Len(rows) = Len(row)
  BY <1>1, <1>3, SeqDef, LenProperties
<1>5. run' = run + 1 /\ run' \in Runs /\ run' # run /\ run <= run'
  BY PageAssumption DEF ResetRun, LogOK, Runs
<1>6. x \in RowRecords /\ x.run <= run'
  BY <1>5 DEF RowRecords, Runs
<1>7. \A i \in DOMAIN row :
        /\ rows[i].run = row[i].run /\ rows[i].name = row[i].name
        /\ rows[i].state = "open" => row[i].state = "open"
        /\ rows[i].state = "committed" => row[i].state = "committed"
        /\ row[i].state = "committed" /\ run' = run => rows[i].state = "committed"
  <2> SUFFICES ASSUME NEW i \in DOMAIN row
               PROVE  /\ rows[i].run = row[i].run /\ rows[i].name = row[i].name
                      /\ rows[i].state = "open" => row[i].state = "open"
                      /\ rows[i].state = "committed" => row[i].state = "committed"
                      /\ row[i].state = "committed" /\ run' = run => rows[i].state = "committed"
    OBVIOUS
  <2> HIDE DEF rows
  <2> QED
    BY <1>2, <1>5
<1>8. row' = Append(rows, x) /\ Len(row) < MaxSeq
  BY DEF ResetRun
<1> HIDE DEF rows, x
<1> QED
  BY <1>4, <1>5, <1>6, <1>7, <1>8, AppendGrows

LEMMA ProbeGrows == ASSUME LogOK, PresentProbe PROVE LogOK' /\ Grown
<1>1. Len(row) \in Nat /\ DOMAIN row = 1..Len(row) /\ \A i \in DOMAIN row : row[i] \in RowRecords
  BY LenProperties, ElementOfSeq DEF LogOK
<1>2. run' = run /\ overtaken' = overtaken /\ Len(row) < MaxSeq
  BY DEF PresentProbe
<1>3. CASE row' = row
  BY <1>1, <1>2, <1>3 DEF LogOK, Grown, RowRecords, Runs
<1>4. CASE row' # row
  <2> DEFINE x == [run |-> run, state |-> "committed", name |-> ProbeEvent]
  <2>1. x \in RowRecords /\ x.run <= run'
    BY <1>2 DEF LogOK, RowRecords, ProbeEvent, Runs
  <2>2. row' = Append(row, x)
    BY <1>4 DEF PresentProbe
  <2> HIDE DEF x
  <2> QED
    BY <1>1, <1>2, <2>1, <2>2, AppendGrows DEF LogOK, Runs
<1> QED
  BY <1>3, <1>4

LogSteps == Log \/ OtherTabResets \/ ResetAnswers \/ PresentProbe

LEMMA LogStepsGrow == ASSUME LogOK, LogSteps PROVE LogOK' /\ Grown /\ UNCHANGED <<refresh, stream, insight>>
<1>1. UNCHANGED <<refresh, stream, insight>>
  BY DEF LogSteps, Log, Insert, Commit, OtherTabResets, ResetAnswers, PresentProbe
<1>2. CASE Insert
  BY <1>1, <1>2, InsertGrows
<1>3. CASE \E i \in DOMAIN row : Commit(i)
  BY <1>1, <1>3, CommitGrows
<1>4. CASE OtherTabResets \/ ResetAnswers
  BY <1>1, <1>4, ResetGrows DEF OtherTabResets, ResetAnswers
<1>5. CASE PresentProbe
  BY <1>1, <1>5, ProbeGrows
<1> QED
  BY <1>2, <1>3, <1>4, <1>5 DEF LogSteps, Log

LEMMA RowIndices == LogOK => Len(row) \in Nat /\ DOMAIN row = 1..Len(row) /\ \A i \in DOMAIN row : row[i] \in RowRecords
BY LenProperties, ElementOfSeq DEF LogOK

\* The greatest element of a bounded set: the least of its bounds is in it.
LEMMA MaxExists ==
  ASSUME NEW S \in SUBSET Nat, S # {}, NEW n \in Nat, \A x \in S : x <= n
  PROVE  Max(S) \in S /\ \A x \in S : x <= Max(S)
<1> DEFINE Bounds == {b \in Nat : \A x \in S : x <= b}
<1>1. PICK b \in Bounds : \A c \in Bounds : ~ (<<c, b>> \in OpToRel(<, Nat))
  <2>1. Bounds \subseteq Nat /\ Bounds # {}
    OBVIOUS
  <2> HIDE DEF Bounds
  <2> QED
    BY <2>1, NatLessThanWellFounded, WFMin
<1>2. \A c \in Bounds : ~ (c < b)
  BY <1>1 DEF OpToRel
<1>3. b \in S
  <2> SUFFICES ASSUME b \notin S PROVE FALSE
    OBVIOUS
  <2>1. PICK x \in S : TRUE
    OBVIOUS
  <2>2. \A y \in S : y <= b - 1
    OBVIOUS
  <2>3. b - 1 \in Nat
    BY <2>1, <2>2
  <2> QED
    BY <1>2, <2>2, <2>3
<1>4. \E m \in S : \A y \in S : m >= y
  BY <1>3
<1>5. Max(S) \in S /\ \A y \in S : Max(S) >= y
  BY <1>4 DEF Max
<1> QED
  BY <1>5

-----------------------------------------------------------------------------
(* The stream keeps its shape.                                             *)

LEMMA StreamStays ==
  ASSUME LogOK, LogOK', StreamOK, Grown, UNCHANGED <<refresh, stream>>
  PROVE  StreamOK'
<1>1. /\ Len(row) \in Nat /\ DOMAIN row = 1..Len(row)
      /\ Len(row') \in Nat /\ DOMAIN row' = 1..Len(row')
  BY RowIndices, LenProperties DEF LogOK
<1>2. run \in Nat /\ run' \in Nat /\ run <= run' /\ Len(row) <= Len(row')
  BY PageAssumption DEF LogOK, Grown, Runs
<1>3. DOMAIN row \subseteq DOMAIN row'
  BY <1>1, <1>2
<1>4. \A e \in Effects : poll'[e] = poll[e] /\ poll[e] \in PollRecords
  BY DEF StreamOK, stream
<1>5. \A e \in Effects : /\ {poll'[e].report, poll'[e].runId} \subseteq 0..run'
                         /\ poll'[e].cursor <= Len(row')
  BY <1>1, <1>2, <1>4 DEF StreamOK, PollRecords
<1> QED
  BY <1>2, <1>3, <1>4, <1>5 DEF StreamOK, stream

\* A step of the poll of one effect.
LEMMA PollStep ==
  ASSUME LogOK, StreamOK, NEW e \in Effects, NEW p \in PollRecords,
         poll' = [poll EXCEPT ![e] = p],
         {p.report, p.runId} \subseteq 0..run, p.pc = "told" => p.report # 0,
         p.cursor <= Len(row), p.batch \subseteq DOMAIN row,
         UNCHANGED <<run, row, refresh, effect>>,
         evidence' \in 0..run, shown' \subseteq DOMAIN row, live' \in BOOLEAN
  PROVE  StreamOK' /\ poll'[e] = p
<1>1. poll' \in [Effects -> PollRecords] /\ poll'[e] = p /\ \A f \in Effects \ {e} : poll'[f] = poll[f]
  BY DEF StreamOK
<1> QED
  BY <1>1 DEF StreamOK

\* What the steps of a poll change of it.
Told(q, r) == [q EXCEPT !.pc = "told", !.report = r]
Fetched(q, b) == [q EXCEPT !.pc = "batch", !.batch = b]
Taken(q, c) == [q EXCEPT !.pc = "asks", !.batch = {}, !.cursor = c]
Again(q) == [q EXCEPT !.pc = "asks"]

LEMMA PollEdits ==
  ASSUME NEW q \in PollRecords
  PROVE  /\ \A r \in 0..MaxRun :
              /\ Told(q, r) \in PollRecords /\ Told(q, r).pc = "told" /\ Told(q, r).report = r
              /\ Told(q, r).runId = q.runId /\ Told(q, r).cursor = q.cursor /\ Told(q, r).batch = q.batch
         /\ \A b \in SUBSET (1..MaxSeq) :
              /\ Fetched(q, b) \in PollRecords /\ Fetched(q, b).pc = "batch" /\ Fetched(q, b).report = q.report
              /\ Fetched(q, b).runId = q.runId /\ Fetched(q, b).cursor = q.cursor /\ Fetched(q, b).batch = b
         /\ \A c \in 0..MaxSeq :
              /\ Taken(q, c) \in PollRecords /\ Taken(q, c).pc = "asks" /\ Taken(q, c).report = q.report
              /\ Taken(q, c).runId = q.runId /\ Taken(q, c).cursor = c /\ Taken(q, c).batch = {}
         /\ Again(q) \in PollRecords /\ Again(q).pc = "asks" /\ Again(q).report = q.report
         /\ Again(q).runId = q.runId /\ Again(q).cursor = q.cursor /\ Again(q).batch = q.batch
<1>1. ASSUME NEW r \in 0..MaxRun
      PROVE  /\ Told(q, r) \in PollRecords /\ Told(q, r).pc = "told" /\ Told(q, r).report = r
             /\ Told(q, r).runId = q.runId /\ Told(q, r).cursor = q.cursor /\ Told(q, r).batch = q.batch
  BY DEF Told, PollRecords, PollPcs
<1>2. ASSUME NEW b \in SUBSET (1..MaxSeq)
      PROVE  /\ Fetched(q, b) \in PollRecords /\ Fetched(q, b).pc = "batch" /\ Fetched(q, b).report = q.report
             /\ Fetched(q, b).runId = q.runId /\ Fetched(q, b).cursor = q.cursor /\ Fetched(q, b).batch = b
  BY DEF Fetched, PollRecords, PollPcs
<1>3. ASSUME NEW c \in 0..MaxSeq
      PROVE  /\ Taken(q, c) \in PollRecords /\ Taken(q, c).pc = "asks" /\ Taken(q, c).report = q.report
             /\ Taken(q, c).runId = q.runId /\ Taken(q, c).cursor = c /\ Taken(q, c).batch = {}
  BY DEF Taken, PollRecords, PollPcs
<1>4. /\ Again(q) \in PollRecords /\ Again(q).pc = "asks" /\ Again(q).report = q.report
      /\ Again(q).runId = q.runId /\ Again(q).cursor = q.cursor /\ Again(q).batch = q.batch
  BY DEF Again, PollRecords, PollPcs
<1> QED
  BY <1>1, <1>2, <1>3, <1>4

\* What each step makes of the poll that it is of.
LEMMA PollOutcome ==
  ASSUME LogOK, StreamOK, NEW e \in Effects
  PROVE  /\ ReadEvidence(e) =>
              /\ poll' = [poll EXCEPT ![e] = poll'[e]] /\ poll'[e] \in PollRecords
              /\ poll'[e].pc = "told" /\ poll'[e].report = run /\ poll'[e].runId = poll[e].runId
              /\ poll'[e].cursor = poll[e].cursor /\ poll'[e].batch = poll[e].batch
         /\ TakeEvidence(e) =>
              /\ poll' = [poll EXCEPT ![e] = poll'[e]] /\ poll'[e] \in PollRecords
              /\ poll'[e].pc = "fetches" /\ poll'[e].report = 0 /\ poll'[e].runId = poll[e].report
              /\ poll'[e].cursor = IF poll[e].runId # poll[e].report THEN 0 ELSE poll[e].cursor
              /\ poll'[e].batch = {}
         /\ \A r \in Runs : ReadRows(e, r) =>
              /\ poll' = [poll EXCEPT ![e] = poll'[e]] /\ poll'[e] \in PollRecords
              /\ poll'[e].pc = "batch" /\ poll'[e].report = poll[e].report /\ poll'[e].runId = poll[e].runId
              /\ poll'[e].cursor = poll[e].cursor /\ poll'[e].batch = Batch(r, poll[e].cursor)
         /\ TakeBatch(e) =>
              /\ poll' = [poll EXCEPT ![e] = poll'[e]] /\ poll'[e] \in PollRecords
              /\ poll'[e].pc = "asks" /\ poll'[e].report = poll[e].report /\ poll'[e].runId = poll[e].runId
              /\ poll'[e].cursor = IF \E i \in poll[e].batch : row[i].run # poll[e].runId THEN 0
                                   ELSE Max(poll[e].batch \cup {poll[e].cursor})
              /\ poll'[e].batch = {}
         /\ PollFails(e) =>
              /\ poll' = [poll EXCEPT ![e] = poll'[e]] /\ poll'[e] \in PollRecords
              /\ poll'[e].pc = "asks" /\ poll'[e].report = poll[e].report /\ poll'[e].runId = poll[e].runId
              /\ poll'[e].cursor = poll[e].cursor /\ poll'[e].batch = poll[e].batch
         /\ PollEnds(e) => poll' = [poll EXCEPT ![e] = NoPoll]
<1>1. /\ Len(row) \in Nat /\ DOMAIN row = 1..Len(row) /\ Len(row) <= MaxSeq /\ MaxSeq \in Nat
      /\ run \in 0..MaxRun /\ MaxRun \in Nat
  BY RowIndices, PageAssumption DEF LogOK, Runs
<1>2. DOMAIN poll = Effects /\ poll[e] \in PollRecords /\ poll[e].batch \subseteq DOMAIN row
      /\ poll[e].cursor <= Len(row)
  BY DEF StreamOK
<1>3. ASSUME ReadEvidence(e)
      PROVE  /\ poll' = [poll EXCEPT ![e] = poll'[e]] /\ poll'[e] \in PollRecords
             /\ poll'[e].pc = "told" /\ poll'[e].report = run /\ poll'[e].runId = poll[e].runId
             /\ poll'[e].cursor = poll[e].cursor /\ poll'[e].batch = poll[e].batch
  <2>1. poll'[e] = Told(poll[e], run)
    BY <1>2, <1>3 DEF ReadEvidence, Told
  <2>2. poll' = [poll EXCEPT ![e] = poll'[e]]
    BY <1>2, <1>3, <2>1 DEF ReadEvidence
  <2>3. run \in 0..MaxRun
    BY <1>1
  <2>4. /\ Told(poll[e], run) \in PollRecords
        /\ Told(poll[e], run).pc = "told" /\ Told(poll[e], run).report = run
        /\ Told(poll[e], run).runId = poll[e].runId
        /\ Told(poll[e], run).cursor = poll[e].cursor /\ Told(poll[e], run).batch = poll[e].batch
    <3>1. \A r \in 0..MaxRun :
            /\ Told(poll[e], r) \in PollRecords
            /\ Told(poll[e], r).pc = "told" /\ Told(poll[e], r).report = r
            /\ Told(poll[e], r).runId = poll[e].runId
            /\ Told(poll[e], r).cursor = poll[e].cursor /\ Told(poll[e], r).batch = poll[e].batch
      BY <1>2, PollEdits
    <3> QED
      BY <2>3, <3>1
  <2> QED
    BY <2>1, <2>2, <2>4
<1>4. ASSUME TakeEvidence(e)
      PROVE  /\ poll' = [poll EXCEPT ![e] = poll'[e]] /\ poll'[e] \in PollRecords
             /\ poll'[e].pc = "fetches" /\ poll'[e].report = 0 /\ poll'[e].runId = poll[e].report
             /\ poll'[e].cursor = IF poll[e].runId # poll[e].report THEN 0 ELSE poll[e].cursor
             /\ poll'[e].batch = {}
  <2>1. poll'[e] = [pc |-> "fetches", report |-> 0, runId |-> poll[e].report,
                    cursor |-> IF poll[e].runId # poll[e].report THEN 0 ELSE poll[e].cursor, batch |-> {}]
    BY <1>2, <1>4 DEF TakeEvidence
  <2>2. poll' = [poll EXCEPT ![e] = poll'[e]]
    BY <1>2, <1>4, <2>1 DEF TakeEvidence
  <2> QED
    BY <1>1, <1>2, <2>1, <2>2 DEF PollRecords, PollPcs
<1>5. ASSUME NEW r \in Runs, ReadRows(e, r)
      PROVE  /\ poll' = [poll EXCEPT ![e] = poll'[e]] /\ poll'[e] \in PollRecords
             /\ poll'[e].pc = "batch" /\ poll'[e].report = poll[e].report /\ poll'[e].runId = poll[e].runId
             /\ poll'[e].cursor = poll[e].cursor /\ poll'[e].batch = Batch(r, poll[e].cursor)
  <2>1. poll'[e] = Fetched(poll[e], Batch(r, poll[e].cursor))
    BY <1>2, <1>5 DEF ReadRows, Fetched
  <2>2. poll' = [poll EXCEPT ![e] = poll'[e]]
    BY <1>2, <1>5, <2>1 DEF ReadRows
  <2>4. Batch(r, poll[e].cursor) \in SUBSET (1..MaxSeq)
    BY <1>1 DEF Batch, Rows, Committed
  <2> QED
    BY <1>2, <2>1, <2>2, <2>4, PollEdits
<1>6. ASSUME TakeBatch(e)
      PROVE  /\ poll' = [poll EXCEPT ![e] = poll'[e]] /\ poll'[e] \in PollRecords
             /\ poll'[e].pc = "asks" /\ poll'[e].report = poll[e].report /\ poll'[e].runId = poll[e].runId
             /\ poll'[e].cursor = IF \E i \in poll[e].batch : row[i].run # poll[e].runId THEN 0
                                  ELSE Max(poll[e].batch \cup {poll[e].cursor})
             /\ poll'[e].batch = {}
  <2> DEFINE b == poll[e].batch \cup {poll[e].cursor}
             c == IF \E i \in poll[e].batch : row[i].run # poll[e].runId THEN 0 ELSE Max(b)
  <2>1. poll'[e] = Taken(poll[e], c)
    BY <1>2, <1>6 DEF TakeBatch, Taken
  <2>2. poll' = [poll EXCEPT ![e] = poll'[e]]
    BY <1>2, <1>6, <2>1 DEF TakeBatch
  <2>4. b \in SUBSET Nat /\ b # {} /\ \A x \in b : x <= Len(row)
    BY <1>1, <1>2 DEF PollRecords
  <2>5. Max(b) \in b
    BY <1>1, <2>4, MaxExists
  <2>6. c \in 0..MaxSeq
    <3>1. Max(b) \in Nat /\ Max(b) <= Len(row)
      BY <2>4, <2>5
    <3>2. Max(b) \in 0..MaxSeq
      BY <1>1, <3>1
    <3>3. c = 0 \/ c = Max(b)
      OBVIOUS
    <3> HIDE DEF b, c
    <3> QED
      BY <1>1, <3>2, <3>3
  <2> HIDE DEF c
  <2>7. /\ poll'[e] \in PollRecords /\ poll'[e].pc = "asks" /\ poll'[e].report = poll[e].report
        /\ poll'[e].runId = poll[e].runId /\ poll'[e].cursor = c /\ poll'[e].batch = {}
    BY <1>2, <2>1, <2>6, PollEdits
  <2> QED
    BY <2>2, <2>7 DEF c
<1>7. ASSUME PollFails(e)
      PROVE  /\ poll' = [poll EXCEPT ![e] = poll'[e]] /\ poll'[e] \in PollRecords
             /\ poll'[e].pc = "asks" /\ poll'[e].report = poll[e].report /\ poll'[e].runId = poll[e].runId
             /\ poll'[e].cursor = poll[e].cursor /\ poll'[e].batch = poll[e].batch
  <2>1. poll'[e] = Again(poll[e])
    BY <1>2, <1>7 DEF PollFails, Again
  <2>2. poll' = [poll EXCEPT ![e] = poll'[e]]
    BY <1>2, <1>7, <2>1 DEF PollFails
  <2> QED
    BY <1>2, <2>1, <2>2, PollEdits
<1>8. PollEnds(e) => poll' = [poll EXCEPT ![e] = NoPoll]
  BY DEF PollEnds
<1> QED
  BY <1>3, <1>4, <1>5, <1>6, <1>7, <1>8

LEMMA PollKeepsShape ==
  ASSUME LogOK, StreamOK, NEW e \in Effects, Poll(e) \/ PollFails(e) \/ PollEnds(e)
  PROVE  StreamOK'
<1>1. /\ Len(row) \in Nat /\ DOMAIN row = 1..Len(row)
      /\ run \in 1..MaxRun /\ MaxRun \in Nat /\ 0 \in 0..run /\ run \in 0..run
  BY RowIndices, PageAssumption DEF LogOK, Runs
<1>2. /\ poll[e] \in PollRecords /\ poll[e].report \in 0..run /\ poll[e].runId \in 0..run
      /\ poll[e].cursor <= Len(row) /\ poll[e].batch \subseteq DOMAIN row
      /\ poll[e].pc = "told" => poll[e].report # 0
      /\ evidence \in 0..run /\ shown \subseteq DOMAIN row /\ live \in BOOLEAN
  BY DEF StreamOK
<1>3. UNCHANGED <<run, row, refresh, effect>>
  BY DEF Poll, ReadEvidence, TakeEvidence, ReadRows, TakeBatch, PollFails, PollEnds, server
<1>4. evidence' \in 0..run /\ shown' \subseteq DOMAIN row /\ live' \in BOOLEAN
  BY <1>1, <1>2 DEF Poll, ReadEvidence, TakeEvidence, ReadRows, TakeBatch, PollFails, PollEnds
<1>5. CASE PollEnds(e)
  <2>1. poll' = [poll EXCEPT ![e] = NoPoll]
    BY <1>5 DEF PollEnds
  <2>2. NoPoll \in PollRecords /\ NoPoll.report \in 0..run /\ NoPoll.runId \in 0..run
        /\ NoPoll.cursor <= Len(row) /\ NoPoll.batch \subseteq DOMAIN row /\ NoPoll.pc # "told"
    BY <1>1, PageAssumption DEF PollRecords, PollPcs, NoPoll
  <2> QED
    BY <1>3, <1>4, <2>1, <2>2, PollStep
<1>6. CASE Poll(e) \/ PollFails(e)
  <2>1. /\ poll' = [poll EXCEPT ![e] = poll'[e]] /\ poll'[e] \in PollRecords
        /\ poll'[e].report \in 0..run /\ poll'[e].runId \in 0..run
        /\ poll'[e].pc = "told" => poll'[e].report # 0
    <3>1. CASE ReadEvidence(e)
      <4>1. /\ poll' = [poll EXCEPT ![e] = poll'[e]] /\ poll'[e] \in PollRecords
            /\ poll'[e].report = run /\ poll'[e].runId = poll[e].runId
        BY <3>1, PollOutcome
      <4>2. run # 0
        BY <1>1
      <4> QED
        BY <1>1, <1>2, <4>1, <4>2
    <3>2. CASE TakeEvidence(e)
      BY <1>1, <1>2, <3>2, PollOutcome
    <3>3. CASE \E r \in Runs : ReadRows(e, r)
      BY <1>1, <1>2, <3>3, PollOutcome
    <3>4. CASE TakeBatch(e)
      BY <1>1, <1>2, <3>4, PollOutcome
    <3>5. CASE PollFails(e)
      BY <1>1, <1>2, <3>5, PollOutcome
    <3> QED
      BY <1>6, <3>1, <3>2, <3>3, <3>4, <3>5 DEF Poll
  <2>2. poll'[e].cursor <= Len(row) /\ poll'[e].batch \subseteq DOMAIN row
    <3>1. CASE ReadEvidence(e) \/ PollFails(e)
      BY <1>2, <3>1, PollOutcome
    <3>4. CASE TakeEvidence(e)
      <4>1. poll'[e].cursor \in {0, poll[e].cursor} /\ poll'[e].batch = {}
        BY <3>4, PollOutcome
      <4>2. 0 <= Len(row)
        BY <1>1
      <4> QED
        BY <1>2, <4>1, <4>2
    <3>2. ASSUME NEW r \in Runs, ReadRows(e, r)
          PROVE  poll'[e].cursor <= Len(row) /\ poll'[e].batch \subseteq DOMAIN row
      <4>1. Batch(r, poll[e].cursor) \subseteq DOMAIN row
        BY DEF Batch, Rows, Committed
      <4>2. poll'[e].cursor = poll[e].cursor /\ poll'[e].batch = Batch(r, poll[e].cursor)
        BY <3>2, PollOutcome
      <4> QED
        BY <1>2, <4>1, <4>2
    <3>3. CASE TakeBatch(e)
      <4> DEFINE b == poll[e].batch \cup {poll[e].cursor}
      <4>1. b \in SUBSET Nat /\ b # {} /\ \A x \in b : x <= Len(row)
        BY <1>1, <1>2 DEF PollRecords
      <4>2. Max(b) \in b
        BY <1>1, <4>1, MaxExists
      <4>3. poll'[e].batch = {} /\ poll'[e].cursor \in {0, Max(b)}
        BY <3>3, PollOutcome
      <4>4. Max(b) <= Len(row)
        BY <4>1, <4>2
      <4> HIDE DEF b
      <4> QED
        BY <1>1, <4>3, <4>4
    <3> QED
      BY <1>6, <3>1, <3>2, <3>3, <3>4 DEF Poll
  <2>3. {poll'[e].report, poll'[e].runId} \subseteq 0..run
    BY <2>1
  <2> QED
    BY <1>3, <1>4, <2>1, <2>2, <2>3, PollStep
<1> QED
  BY <1>5, <1>6

LEMMA EffectKeepsShape == ASSUME LogOK, StreamOK, EvidenceEffect PROVE StreamOK'
<1> DEFINE p == [NoPoll EXCEPT !.pc = "asks"]
<1>1. /\ Len(row) \in Nat /\ run \in 1..MaxRun /\ MaxRun \in Nat /\ MaxSeq \in Nat /\ MaxRefresh \in Nat
      /\ refresh \in 0..MaxRefresh
  BY RowIndices, PageAssumption DEF LogOK, StreamOK, Runs, Effects
<1>2. /\ p \in PollRecords /\ p.report \in 0..run /\ p.runId \in 0..run
      /\ p.pc # "told" /\ p.cursor <= Len(row) /\ p.batch \subseteq DOMAIN row
  BY <1>1 DEF NoPoll, PollRecords, PollPcs
<1> HIDE DEF p
<1>3. /\ poll' = [poll EXCEPT ![refresh] = p] /\ effect' = refresh
      /\ UNCHANGED <<run, row, refresh, evidence, shown, live>>
  BY DEF EvidenceEffect, server, p
<1>4. poll' \in [Effects -> PollRecords] /\ \A e \in Effects : poll'[e] = p \/ poll'[e] = poll[e]
  BY <1>1, <1>2, <1>3 DEF StreamOK
<1>5. effect' \in 0..refresh'
  BY <1>1, <1>3
<1>6. \A e \in Effects : /\ {poll'[e].report, poll'[e].runId} \subseteq 0..run'
                         /\ poll'[e].pc = "told" => poll'[e].report # 0
                         /\ poll'[e].cursor <= Len(row') /\ poll'[e].batch \subseteq DOMAIN row'
  BY <1>2, <1>3, <1>4 DEF StreamOK
<1> QED
  BY <1>3, <1>4, <1>5, <1>6 DEF StreamOK

-----------------------------------------------------------------------------
(* Insights and the controls keep their shape.                             *)

InsightSteps == InsightsEffect \/ ReadInsights \/ TakeInsights \/ InsightsFail

LEMMA InsightsKeepShape == ASSUME ShapeOK, InsightSteps PROVE InsightOK'
<1>1. /\ run \in 0..run /\ 0 \in 0..run /\ 0..run \subseteq 0..MaxRun /\ MaxRun \in Nat
      /\ evidence \in 0..run /\ refresh \in Effects /\ run' = run
  BY PageAssumption DEF ShapeOK, LogOK, StreamOK, Runs, Effects, InsightSteps, InsightsEffect,
     ReadInsights, TakeInsights, InsightsFail, server
<1>2. /\ insight \in InsightRecords /\ insight.run \in 0..run /\ insight.of \in 0..run
      /\ insight.snapshot.run \in 0..run /\ insight.snapshot.report \in 0..run
  BY DEF ShapeOK, InsightOK
<1>3. 0 \in Effects
  BY PageAssumption DEF Effects
<1>4. CASE InsightsEffect
  <2> DEFINE s == IF Enabled THEN [run |-> evidence, refresh |-> refresh, report |-> 0] ELSE NoSnapshot
  <2>1. s \in SnapshotRecords /\ s.run \in 0..run /\ s.report \in 0..run
    BY <1>1, <1>3 DEF SnapshotRecords, NoSnapshot
  <2>2. Enabled \in BOOLEAN
    BY DEF Enabled
  <2>3. insight' = [on |-> Enabled, run |-> evidence, refresh |-> refresh, snapshot |-> s,
                    asks |-> IF Enabled THEN "asks" ELSE "none", of |-> 0]
    BY <1>4 DEF InsightsEffect
  <2> HIDE DEF s
  <2>4. /\ insight'.run = evidence /\ insight'.of = 0 /\ insight'.snapshot = s
        /\ insight' \in InsightRecords
    BY <1>1, <2>1, <2>2, <2>3 DEF InsightRecords
  <2> QED
    BY <1>1, <2>1, <2>4 DEF InsightOK
<1>5. CASE ReadInsights
  <2>1. insight' = [insight EXCEPT !.asks = "told", !.of = run]
    BY <1>5 DEF ReadInsights
  <2>2. /\ insight' \in InsightRecords /\ insight'.run = insight.run /\ insight'.of = run
        /\ insight'.snapshot = insight.snapshot
    BY <1>1, <1>2, <2>1 DEF InsightRecords
  <2> QED
    BY <1>1, <1>2, <2>2 DEF InsightOK
<1>6. CASE TakeInsights \/ InsightsFail
  <2>1. PICK n \in 0..run, m \in {0, insight.of} :
          insight' = [insight EXCEPT !.asks = "asks", !.of = m, !.snapshot.report = n]
    <3>1. CASE TakeInsights
      BY <1>1, <1>2, <3>1 DEF TakeInsights
    <3>2. CASE InsightsFail
      <4>1. insight' = [insight EXCEPT !.asks = "asks", !.of = insight.of, !.snapshot.report = 0]
        BY <1>2, <3>2 DEF InsightsFail, InsightRecords
      <4> QED
        BY <1>1, <4>1
    <3> QED
      BY <1>6, <3>1, <3>2
  <2>2. /\ insight'.run = insight.run /\ insight'.of = m
        /\ insight'.snapshot = [insight.snapshot EXCEPT !.report = n]
        /\ insight' \in InsightRecords
    BY <1>1, <1>2, <2>1 DEF InsightRecords, SnapshotRecords
  <2>3. insight'.snapshot.run = insight.snapshot.run /\ insight'.snapshot.report = n
    BY <1>2, <2>2 DEF InsightRecords, SnapshotRecords
  <2> QED
    BY <1>1, <1>2, <2>1, <2>2, <2>3 DEF InsightOK
<1> QED
  BY <1>4, <1>5, <1>6 DEF InsightSteps

LEMMA ControlsKeepShape ==
  ASSUME ShapeOK, Controls, run <= run', run' \in Runs
  PROVE  ControlsOK' /\ refresh' \in Effects /\ refresh <= refresh'
<1>1. /\ run \in Nat /\ run' \in Nat /\ 0..run \subseteq 0..run' /\ 0..run' \subseteq 0..MaxRun
      /\ 0 \in 0..run' /\ run \in 0..run' /\ MaxRefresh \in Nat /\ refresh \in Effects
      /\ refresh <= refresh /\ evidence \in 0..run
  BY PageAssumption DEF ShapeOK, LogOK, StreamOK, Runs, Effects
<1>2. /\ op \in OpRecords /\ op.run \in 0..run /\ op.challenge \in 0..run /\ op.closure \in 0..run
      /\ op.kind # "none" => refresh < MaxRefresh
      /\ wallet \in 0..run /\ invalid \in 0..run /\ rejected \in BOOLEAN
  BY DEF ShapeOK, ControlsOK
<1>3. /\ NoOp \in OpRecords /\ NoOp.run = 0 /\ NoOp.challenge = 0 /\ NoOp.closure = 0
      /\ NoOp.kind = "none" /\ NoOp.pc = "idle"
  BY PageAssumption DEF NoOp, OpRecords
<1>4. wallet' \in 0..run' /\ invalid' \in 0..run' /\ rejected' \in BOOLEAN
  BY <1>1, <1>2 DEF Controls, UsePass, StartReset, ResetAnswers, FinishReset, ResetFails, StartProbe,
     ReadProbeRun, ChallengeProbe, PresentProbe, FinishProbe, ProbeFails
<1>5. CASE UsePass
  BY <1>1, <1>2, <1>4, <1>5 DEF UsePass, ControlsOK
<1>6. CASE StartReset \/ StartProbe
  <2>1. PICK kind \in {"reset", "probe"} : op' = [NoOp EXCEPT !.kind = kind, !.pc = "asks", !.closure = evidence]
    BY <1>6 DEF StartReset, StartProbe, Begin
  <2>2. /\ op' \in OpRecords /\ op'.run = 0 /\ op'.challenge = 0 /\ op'.closure = evidence
    BY <1>1, <2>1 DEF NoOp, OpRecords
  <2>3. refresh' = refresh /\ refresh < MaxRefresh
    BY <1>6 DEF StartReset, StartProbe
  <2> QED
    BY <1>1, <1>4, <2>2, <2>3 DEF ControlsOK
<1>7. CASE ResetAnswers \/ ReadProbeRun \/ ChallengeProbe \/ PresentProbe
  <2>1. PICK pc \in {"told", "read", "challenged", "refused"}, n \in {op.run, run}, m \in {op.challenge, run} :
          op' = [op EXCEPT !.pc = pc, !.run = n, !.challenge = m]
    <3>1. CASE ResetAnswers \/ PresentProbe
      <4>1. op' = [op EXCEPT !.pc = "told", !.run = op.run, !.challenge = op.challenge]
            \/ op' = [op EXCEPT !.pc = "refused", !.run = op.run, !.challenge = op.challenge]
        BY <1>2, <3>1 DEF ResetAnswers, PresentProbe, OpRecords
      <4> QED
        BY <4>1
    <3>2. CASE ReadProbeRun
      <4>1. op' = [op EXCEPT !.pc = "read", !.run = run, !.challenge = op.challenge]
        BY <1>2, <3>2 DEF ReadProbeRun, OpRecords
      <4> QED
        BY <4>1
    <3>3. CASE ChallengeProbe
      <4>1. op' = [op EXCEPT !.pc = "challenged", !.run = op.run, !.challenge = run]
        BY <1>2, <3>3 DEF ChallengeProbe, OpRecords
      <4> QED
        BY <4>1
    <3> QED
      BY <1>7, <3>1, <3>2, <3>3
  <2>2. n \in 0..run' /\ m \in 0..run' /\ n \in 0..MaxRun /\ m \in 0..MaxRun
    BY <1>1, <1>2, <2>1
  <2>3. /\ op' \in OpRecords /\ op'.kind = op.kind /\ op'.run = n /\ op'.challenge = m
        /\ op'.closure = op.closure
    BY <1>2, <2>1, <2>2 DEF OpRecords
  <2>4. refresh' = refresh
    BY <1>7 DEF ResetAnswers, ReadProbeRun, ChallengeProbe, PresentProbe
  <2> QED
    BY <1>1, <1>2, <1>4, <2>2, <2>3, <2>4 DEF ControlsOK
<1>8. CASE FinishReset \/ ResetFails \/ FinishProbe \/ ProbeFails
  <2>1. op' = NoOp /\ refresh' \in {refresh, refresh + 1} /\ refresh < MaxRefresh
    BY <1>2, <1>8 DEF FinishReset, ResetFails, FinishProbe, ProbeFails
  <2>2. refresh' \in Effects /\ refresh <= refresh'
    BY <1>1, <2>1 DEF Effects
  <2> QED
    BY <1>1, <1>3, <1>4, <2>1, <2>2 DEF ControlsOK
<1> QED
  BY <1>5, <1>6, <1>7, <1>8 DEF Controls

-----------------------------------------------------------------------------
LEMMA InitShape == Init => ShapeOK
<1> SUFFICES ASSUME Init PROVE ShapeOK
  OBVIOUS
<1> USE PageAssumption
<1>1. LogOK
  BY EmptySeq DEF LogOK, Runs, Init
<1>2. StreamOK
  <2>1. NoPoll \in PollRecords /\ [NoPoll EXCEPT !.pc = "asks"] \in PollRecords
    BY DEF NoPoll, PollRecords, PollPcs
  <2>2. \A e \in Effects : poll[e] \in PollRecords /\ poll[e].pc # "told" /\ poll[e].report = 0
                           /\ poll[e].runId = 0 /\ poll[e].cursor = 0 /\ poll[e].batch = {}
    BY <2>1 DEF NoPoll, Init
  <2>3. poll \in [Effects -> PollRecords]
    BY <2>2 DEF Init
  <2>4. 0 <= Len(row)
    BY EmptySeq DEF Init
  <2>5. 0 \in Effects
    BY DEF Effects
  <2>6. 0 \in 0..run /\ evidence \in 0..run /\ shown = {} /\ live \in BOOLEAN
    <3>1. run = 1 /\ evidence = 0 /\ shown = {} /\ live = FALSE
      BY DEF Init
    <3>2. 0 \in 0..run
      BY <3>1
    <3>3. live \in BOOLEAN
      BY <3>1
    <3> QED
      BY <3>1, <3>2, <3>3
  <2>7. refresh \in Effects /\ effect \in 0..refresh
    BY <2>5 DEF Init
  <2> QED
    BY <2>2, <2>3, <2>4, <2>6, <2>7 DEF StreamOK
<1>3. InsightOK
  BY DEF InsightOK, InsightRecords, SnapshotRecords, NoSnapshot, Effects, Init
<1>4. ControlsOK
  <2>1. NoOp \in OpRecords /\ NoOp.run = 0 /\ NoOp.challenge = 0 /\ NoOp.closure = 0 /\ NoOp.kind = "none"
    BY DEF OpRecords, NoOp
  <2>2. op = NoOp /\ run = 1 /\ wallet = 0 /\ invalid = 0 /\ rejected = FALSE
    BY DEF Init
  <2>3. 0 \in 0..run
    BY <2>2
  <2> QED
    BY <2>1, <2>2, <2>3 DEF ControlsOK
<1> QED
  BY <1>1, <1>2, <1>3, <1>4 DEF ShapeOK

\* The parts that a step leaves alone keep their shape while the log grows.
LEMMA RestStays ==
  ASSUME ShapeOK, run <= run', run' \in Runs
  PROVE  /\ UNCHANGED insight => InsightOK'
         /\ UNCHANGED <<refresh, controls>> => ControlsOK'
<1>1. 0..run \subseteq 0..run'
  BY DEF ShapeOK, LogOK, Runs
<1> QED
  BY <1>1 DEF ShapeOK, InsightOK, ControlsOK, controls

LEMMA NextShape == ASSUME ShapeOK, [Next]_vars PROVE ShapeOK'
<1>1. run \in Runs /\ run <= run
  BY PageAssumption DEF ShapeOK, LogOK, Runs
<1>2. CASE LogSteps
  <2>1. LogOK' /\ Grown /\ UNCHANGED <<refresh, stream, insight>>
    BY <1>2, LogStepsGrow DEF ShapeOK
  <2>2. run <= run' /\ run' \in Runs
    BY <2>1 DEF Grown, LogOK
  <2>3. StreamOK'
    BY <2>1, StreamStays DEF ShapeOK
  <2>4. ControlsOK'
    <3>1. CASE Log \/ OtherTabResets
      <4>1. UNCHANGED <<refresh, controls>>
        BY <3>1 DEF Log, Insert, Commit, OtherTabResets
      <4> QED
        BY <2>2, <4>1, RestStays
    <3>2. CASE ResetAnswers \/ PresentProbe
      BY <2>2, <3>2, ControlsKeepShape DEF Controls
    <3> QED
      BY <1>2, <3>1, <3>2 DEF LogSteps
  <2> QED
    BY <2>1, <2>2, <2>3, <2>4, RestStays DEF ShapeOK
<1>3. CASE Controls /\ ~LogSteps
  <2>1. UNCHANGED <<server, stream, insight>>
    BY <1>3 DEF Controls, LogSteps, UsePass, StartReset, FinishReset, ResetFails, StartProbe,
       ReadProbeRun, ChallengeProbe, FinishProbe, ProbeFails
  <2>2. ControlsOK' /\ refresh' \in Effects /\ refresh <= refresh'
    BY <1>1, <1>3, <2>1, ControlsKeepShape DEF server
  <2>3. effect' \in 0..refresh'
    BY <2>1, <2>2, PageAssumption DEF ShapeOK, StreamOK, stream, Effects
  <2>4. StreamOK'
    BY <2>1, <2>2, <2>3 DEF ShapeOK, StreamOK, stream, server
  <2> QED
    BY <1>1, <2>1, <2>2, <2>4, RestStays DEF ShapeOK, LogOK, server
<1>4. CASE EvidenceEffect
  <2>1. UNCHANGED <<server, refresh, insight, controls>>
    BY <1>4 DEF EvidenceEffect
  <2>2. StreamOK'
    BY <1>4, EffectKeepsShape DEF ShapeOK
  <2> QED
    BY <1>1, <2>1, <2>2, RestStays DEF ShapeOK, LogOK, server
<1>5. ASSUME NEW e \in Effects, Poll(e) \/ PollFails(e) \/ PollEnds(e)
      PROVE  ShapeOK'
  <2>1. UNCHANGED <<run, row, refresh, insight, controls>> /\ overtaken' \subseteq DOMAIN row
    BY <1>5 DEF Poll, ReadEvidence, TakeEvidence, ReadRows, TakeBatch, PollFails, PollEnds, server,
       ShapeOK, LogOK
  <2>2. StreamOK'
    BY <1>5, PollKeepsShape DEF ShapeOK
  <2> QED
    BY <1>1, <2>1, <2>2, RestStays DEF ShapeOK, LogOK
<1>6. CASE InsightSteps
  <2>1. UNCHANGED <<server, refresh, stream, controls>>
    BY <1>6 DEF InsightSteps, InsightsEffect, ReadInsights, TakeInsights, InsightsFail
  <2>2. InsightOK'
    BY <1>6, InsightsKeepShape
  <2> QED
    BY <1>1, <2>1, <2>2, RestStays DEF ShapeOK, LogOK, StreamOK, server, stream
<1>7. CASE UNCHANGED vars
  BY <1>7 DEF ShapeOK, LogOK, StreamOK, InsightOK, ControlsOK, vars, server, stream, controls
<1> QED
  BY <1>2, <1>3, <1>4, <1>5, <1>6, <1>7 DEF Next, LogSteps, InsightSteps, Insights

\* Every variable keeps its type, for any number of runs, events and refreshes.
THEOREM TypeCorrect == Spec => []TypeOK
<1>1. Init => ShapeOK
  BY InitShape
<1>2. ShapeOK /\ [Next]_vars => ShapeOK'
  BY NextShape
<1>3. ShapeOK => TypeOK
  BY ShapeIsType
<1> QED
  BY <1>1, <1>2, <1>3, PTL DEF Spec

-----------------------------------------------------------------------------
(* What every step does to the log, and which steps are the stream's.      *)

StreamSteps == EvidenceEffect \/ \E e \in Effects : Poll(e) \/ PollFails(e) \/ PollEnds(e)

LEMMA SameGrows == ASSUME LogOK, run' = run, row' = row PROVE Grown
<1>1. run <= run /\ Len(row) <= Len(row)
  BY RowIndices, PageAssumption DEF LogOK, Runs
<1>2. \A i \in DOMAIN row : row[i].state = "committed" => row[i].state \in {"open", "committed"}
  OBVIOUS
<1> QED
  BY <1>1, <1>2 DEF Grown

LEMMA NextGrows == ASSUME ShapeOK, [Next]_vars PROVE Grown
<1>1. CASE LogSteps
  BY <1>1, LogStepsGrow DEF ShapeOK
<1>2. CASE ~LogSteps
  <2>1. run' = run /\ row' = row
    BY <1>2 DEF LogSteps, Next, Controls, UsePass, StartReset, FinishReset, ResetFails, StartProbe,
       ReadProbeRun, ChallengeProbe, FinishProbe, ProbeFails, EvidenceEffect, Poll, ReadEvidence,
       TakeEvidence, ReadRows, TakeBatch, PollFails, PollEnds, Insights, InsightsEffect, ReadInsights,
       TakeInsights, InsightsFail, server, vars
  <2> QED
    BY <2>1, SameGrows DEF ShapeOK
<1> QED
  BY <1>1, <1>2

LEMMA OthersLeaveStream == ASSUME [Next]_vars, ~StreamSteps PROVE UNCHANGED <<stream, overtaken>>
BY DEF StreamSteps, Next, Log, Insert, Commit, OtherTabResets, Controls, UsePass, StartReset, ResetAnswers,
   FinishReset, ResetFails, StartProbe, ReadProbeRun, ChallengeProbe, PresentProbe, FinishProbe, ProbeFails,
   Insights, InsightsEffect, ReadInsights, TakeInsights, InsightsFail, server, vars

LEMMA EffectFacts ==
  ASSUME ShapeOK
  PROVE  /\ effect \in Effects /\ poll[effect] \in PollRecords /\ poll \in [Effects -> PollRecords]
         /\ poll[effect].pc = "told" => poll[effect].report # 0
         /\ poll[effect].cursor \in Nat /\ poll[effect].cursor <= Len(row)
         /\ poll[effect].batch \subseteq DOMAIN row /\ shown \subseteq DOMAIN row
         /\ Len(row) \in Nat /\ DOMAIN row = 1..Len(row)
<1>1. effect \in Effects
  BY PageAssumption DEF ShapeOK, StreamOK, Effects
<1>2. Len(row) \in Nat /\ DOMAIN row = 1..Len(row)
  BY RowIndices DEF ShapeOK
<1> QED
  BY <1>1, <1>2 DEF ShapeOK, StreamOK, PollRecords

\* A step of another effect's poll, or none: what the effect in place has is kept.
Kept ==
  /\ effect' = effect /\ poll'[effect] = poll[effect]
  /\ evidence' = evidence /\ shown' = shown /\ overtaken \subseteq overtaken'

LEMMA OtherStepsKeep ==
  ASSUME ShapeOK, [Next]_vars,
         ~EvidenceEffect, ~Poll(effect), ~PollFails(effect), ~PollEnds(effect)
  PROVE  Kept
<1>1. CASE ~StreamSteps
  BY <1>1, OthersLeaveStream DEF Kept, stream
<1>2. CASE \E e \in Effects \ {effect} : Poll(e) \/ PollFails(e) \/ PollEnds(e)
  <2>1. PICK e \in Effects \ {effect} : Poll(e) \/ PollFails(e) \/ PollEnds(e)
    BY <1>2
  <2>2. ~TakeEvidence(e) /\ ~TakeBatch(e) /\ ~PollFails(e)
    BY <2>1 DEF TakeEvidence, TakeBatch, PollFails
  <2>3. effect' = effect /\ evidence' = evidence /\ shown' = shown /\ overtaken \subseteq overtaken'
    BY <2>1, <2>2 DEF Poll, ReadEvidence, ReadRows, PollEnds, server
  <2>4. poll' = [poll EXCEPT ![e] = poll'[e]] \/ poll' = [poll EXCEPT ![e] = NoPoll]
    BY <2>1, <2>2, PollOutcome DEF Poll, ShapeOK
  <2>5. poll'[effect] = poll[effect]
    BY <2>1, <2>4, EffectFacts
  <2> QED
    BY <2>3, <2>5 DEF Kept
<1> QED
  BY <1>1, <1>2 DEF StreamSteps

-----------------------------------------------------------------------------
(* The events shown are of the report shown.  A poll takes its batch only  *)
(* while the report it read last is shown; and a poll that is behind it    *)
(* begins at the first event, beside an empty list.                        *)

ShownInv ==
  LET p == poll[effect] IN
  /\ p.pc \in {"fetches", "batch"} => p.runId = evidence
  /\ p.runId # evidence => p.cursor = 0 /\ (p.runId = 0 \/ shown = {})
  /\ EventsAreOfShownRun

LEMMA NextShown == ASSUME ShapeOK, ShownInv, [Next]_vars PROVE ShownInv'
<1> DEFINE p == poll[effect]
<1>1. /\ effect \in Effects /\ p \in PollRecords /\ poll \in [Effects -> PollRecords]
      /\ p.pc = "told" => p.report # 0
      /\ p.batch \subseteq DOMAIN row /\ shown \subseteq DOMAIN row
  BY EffectFacts
<1>2. \A i \in DOMAIN row : row'[i].run = row[i].run
  BY NextGrows DEF Grown
<1>3. CASE Kept
  BY <1>1, <1>2, <1>3 DEF ShownInv, EventsAreOfShownRun, Kept
<1>4. CASE EvidenceEffect
  <2>1. effect' = refresh /\ poll'[effect'] = [NoPoll EXCEPT !.pc = "asks"]
        /\ evidence' = evidence /\ shown' = shown
    BY <1>1, <1>4 DEF EvidenceEffect, ShapeOK, StreamOK
  <2>2. poll'[effect'].pc = "asks" /\ poll'[effect'].runId = 0 /\ poll'[effect'].cursor = 0
    BY <2>1 DEF NoPoll
  <2>3. EventsAreOfShownRun'
    BY <1>1, <1>2, <2>1 DEF ShownInv, EventsAreOfShownRun
  <2> QED
    BY <2>2, <2>3 DEF ShownInv
<1>5. CASE ReadEvidence(effect) \/ PollFails(effect)
  <2>1. effect' = effect /\ evidence' = evidence /\ shown' = shown
    BY <1>5 DEF ReadEvidence, PollFails
  <2>2. poll'[effect].pc \in {"asks", "told"} /\ poll'[effect].runId = p.runId /\ poll'[effect].cursor = p.cursor
    BY <1>1, <1>5, PollOutcome DEF ShapeOK
  <2> QED
    BY <1>1, <1>2, <2>1, <2>2 DEF ShownInv, EventsAreOfShownRun
<1>6. CASE TakeEvidence(effect)
  <2>1. /\ effect' = effect /\ evidence' = p.report /\ p.report # 0
        /\ shown' = IF p.runId # p.report THEN {} ELSE shown
    BY <1>1, <1>6 DEF TakeEvidence
  <2>2. poll'[effect].pc = "fetches" /\ poll'[effect].runId = p.report
    BY <1>1, <1>6, PollOutcome DEF ShapeOK
  <2>3. EventsAreOfShownRun'
    BY <1>1, <1>2, <2>1 DEF ShownInv, EventsAreOfShownRun
  <2> QED
    BY <2>1, <2>2, <2>3 DEF ShownInv
<1>7. CASE \E r \in Runs : ReadRows(effect, r)
  <2>1. effect' = effect /\ evidence' = evidence /\ shown' = shown /\ p.pc = "fetches"
    BY <1>7 DEF ReadRows
  <2>2. poll'[effect].pc = "batch" /\ poll'[effect].runId = p.runId /\ poll'[effect].cursor = p.cursor
    BY <1>1, <1>7, PollOutcome DEF ShapeOK
  <2> QED
    BY <1>1, <1>2, <2>1, <2>2 DEF ShownInv, EventsAreOfShownRun
<1>8. CASE TakeBatch(effect)
  <2>1. /\ poll'[effect].pc = "asks" /\ poll'[effect].runId = p.runId
        /\ (\E i \in p.batch : row[i].run # p.runId) => poll'[effect].cursor = 0
    BY <1>1, <1>8, PollOutcome DEF ShapeOK
  <2>2. effect' = effect /\ p.pc = "batch" /\ p.runId = evidence
    BY <1>8 DEF TakeBatch, ShownInv
  <2>3. CASE \E i \in p.batch : row[i].run # p.runId
    <3>1. evidence' = 0 /\ shown' = {}
      BY <1>8, <2>3 DEF TakeBatch
    <3> QED
      BY <2>1, <2>2, <2>3, <3>1 DEF ShownInv, EventsAreOfShownRun
  <2>4. CASE ~ \E i \in p.batch : row[i].run # p.runId
    <3>1. evidence' = evidence /\ shown' = shown \cup p.batch
      BY <1>8, <2>4 DEF TakeBatch
    <3>2. EventsAreOfShownRun'
      BY <1>1, <1>2, <2>2, <2>4, <3>1 DEF ShownInv, EventsAreOfShownRun
    <3> QED
      BY <2>1, <2>2, <3>1, <3>2 DEF ShownInv
  <2> QED
    BY <2>3, <2>4
<1>9. ~PollEnds(effect)
  BY DEF PollEnds
<1> QED
  BY <1>3, <1>4, <1>5, <1>6, <1>7, <1>8, <1>9, OtherStepsKeep DEF Poll

LEMMA InitShown == Init => ShownInv
BY PageAssumption DEF Init, ShownInv, EventsAreOfShownRun, NoPoll, Effects

\* The page never shows events of one run beside the report of another.
THEOREM EventsMatchReport == Spec => []EventsAreOfShownRun
<1>1. Init => ShapeOK /\ ShownInv
  BY InitShape, InitShown
<1>2. ShapeOK /\ ShownInv /\ [Next]_vars => ShapeOK' /\ ShownInv'
  BY NextShape, NextShown
<1>3. ShownInv => EventsAreOfShownRun
  BY DEF ShownInv
<1> QED
  BY <1>1, <1>2, <1>3, PTL DEF Spec

-----------------------------------------------------------------------------
(* The snapshot of insights is of the run that its effect asked for.       *)

SnapshotInv ==
  /\ insight.asks # "none" => insight.snapshot.run = insight.run
  /\ insight.snapshot.report \in {0, insight.snapshot.run}

LEMMA NextSnapshot == ASSUME ShapeOK, SnapshotInv, [Next]_vars PROVE SnapshotInv'
<1>1. insight \in InsightRecords /\ insight.snapshot \in SnapshotRecords
  BY DEF ShapeOK, InsightOK, InsightRecords
<1>2. CASE InsightsEffect
  <2> DEFINE s == IF Enabled THEN [run |-> evidence, refresh |-> refresh, report |-> 0] ELSE NoSnapshot
  <2>1. /\ insight'.run = evidence /\ insight'.snapshot = s
        /\ insight'.asks = IF Enabled THEN "asks" ELSE "none"
    BY <1>2 DEF InsightsEffect
  <2>2. s.report = 0 /\ (Enabled => s.run = evidence)
    BY DEF NoSnapshot
  <2> QED
    BY <2>1, <2>2 DEF SnapshotInv
<1>3. CASE ReadInsights
  <2>1. /\ insight'.run = insight.run /\ insight'.snapshot = insight.snapshot /\ insight.asks = "asks"
    BY <1>1, <1>3 DEF ReadInsights, InsightRecords
  <2> QED
    BY <2>1 DEF SnapshotInv
<1>4. CASE TakeInsights
  <2>1. /\ insight.asks = "told" /\ insight'.run = insight.run
        /\ insight'.snapshot = [insight.snapshot EXCEPT !.report = IF insight.of = insight.run THEN insight.of ELSE 0]
    BY <1>1, <1>4 DEF TakeInsights, InsightRecords
  <2>2. /\ insight'.snapshot.run = insight.snapshot.run
        /\ insight'.snapshot.report \in {0, insight.run}
    BY <1>1, <2>1 DEF SnapshotRecords
  <2> QED
    BY <2>1, <2>2 DEF SnapshotInv
<1>5. CASE InsightsFail
  <2>1. /\ insight.asks = "asks" /\ insight'.run = insight.run
        /\ insight'.snapshot = [insight.snapshot EXCEPT !.report = 0]
    BY <1>1, <1>5 DEF InsightsFail, InsightRecords
  <2>2. insight'.snapshot.run = insight.snapshot.run /\ insight'.snapshot.report = 0
    BY <1>1, <2>1 DEF SnapshotRecords
  <2> QED
    BY <2>1, <2>2 DEF SnapshotInv
<1>6. CASE UNCHANGED insight
  BY <1>6 DEF SnapshotInv
<1>7. InsightSteps \/ UNCHANGED insight
  BY DEF InsightSteps, Next, Log, Insert, Commit, OtherTabResets, EvidenceEffect, Poll, ReadEvidence,
     TakeEvidence, ReadRows, TakeBatch, PollFails, PollEnds, Insights, Controls, UsePass, StartReset,
     ResetAnswers, FinishReset, ResetFails, StartProbe, ReadProbeRun, ChallengeProbe, PresentProbe,
     FinishProbe, ProbeFails, vars
<1> QED
  BY <1>2, <1>3, <1>4, <1>5, <1>6, <1>7 DEF InsightSteps

\* No insights of another run are rendered, before or after the effect.
THEOREM InsightsMatchReport == Spec => []InsightsAreOfShownRun
<1>1. Init => ShapeOK /\ SnapshotInv
  <2>1. Init => SnapshotInv
    BY DEF Init, SnapshotInv, NoSnapshot
  <2> QED
    BY <2>1, InitShape
<1>2. ShapeOK /\ SnapshotInv /\ [Next]_vars => ShapeOK' /\ SnapshotInv'
  BY NextShape, NextSnapshot
<1>3. SnapshotInv => InsightsAreOfShownRun
  BY DEF SnapshotInv, InsightsAreOfShownRun, Rendered
<1> QED
  BY <1>1, <1>2, <1>3, PTL DEF Spec

-----------------------------------------------------------------------------
(* What the cursor has passed, and what the batch in hand will pass, is    *)
(* shown, in the batch, or overtaken.                                      *)

CursorInv ==
  LET p == poll[effect] IN
  /\ \A i \in DOMAIN row : row[i].state = "open" =>
       /\ i <= p.cursor => i \in overtaken
       /\ \A j \in p.batch : i < j => i \in overtaken
  /\ \A j \in p.batch : row[j].state # "open"
  /\ \A j \in p.batch : \A i \in Committed(row[j].run) :
       p.cursor < i /\ i < j => i \in p.batch \cup overtaken
  /\ OnlyOvertakenAreMissed

\* The first rows of a run: with a row, the batch has those before it.
LEMMA BatchIsFirst ==
  ASSUME ShapeOK, NEW r \in Runs, NEW after \in Nat, NEW j \in Batch(r, after),
         NEW i \in Committed(r), after < i, i < j
  PROVE  i \in Batch(r, after)
<1>1. Len(row) \in Nat /\ DOMAIN row = 1..Len(row)
  BY EffectFacts
<1> DEFINE Before(k) == {m \in Rows(r, after) : m < k}
<1>2. \A k \in 1..Len(row) : IsFiniteSet(Before(k)) /\ Cardinality(Before(k)) \in Nat
  <2> SUFFICES ASSUME NEW k \in 1..Len(row)
               PROVE  IsFiniteSet(Before(k)) /\ Cardinality(Before(k)) \in Nat
    OBVIOUS
  <2>1. Before(k) \in SUBSET (1..Len(row)) /\ IsFiniteSet(1..Len(row))
    BY <1>1, FS_Interval DEF Rows, Committed
  <2>2. IsFiniteSet(Before(k))
    BY <2>1, FS_Subset
  <2> QED
    BY <2>2, FS_CardinalityType
<1>3. i \in 1..Len(row) /\ j \in 1..Len(row) /\ i \in Rows(r, after)
  BY <1>1 DEF Batch, Rows, Committed
<1>4. Before(i) \in SUBSET Before(j)
  BY <1>1, <1>3 DEF Rows, Committed
<1>5. Cardinality(Before(i)) <= Cardinality(Before(j))
  <2> HIDE DEF Before
  <2> QED
    BY <1>2, <1>3, <1>4, FS_Subset
<1>6. Cardinality(Before(j)) < Limit
  BY DEF Batch
<1>7. Cardinality(Before(i)) < Limit
  <2> HIDE DEF Before
  <2> QED
    BY <1>2, <1>3, <1>5, <1>6, PageAssumption
<1> QED
  BY <1>3, <1>7 DEF Batch

\* Steps that leave the effect's poll alone: the log only grows.
LEMMA KeptCursor == ASSUME ShapeOK, ShapeOK', CursorInv, Grown, Kept PROVE CursorInv'
<1> DEFINE p == poll[effect]
<1>1. /\ p.cursor \in Nat /\ p.cursor <= Len(row) /\ p.batch \subseteq DOMAIN row
      /\ Len(row) \in Nat /\ DOMAIN row = 1..Len(row)
  BY EffectFacts
<1>2. poll'[effect'] = p /\ evidence' = evidence /\ shown' = shown /\ overtaken \subseteq overtaken'
  BY DEF Kept
<1>3. \A i \in DOMAIN row' : i \in Nat /\ (i \in DOMAIN row \/ i > Len(row))
  <2>1. Len(row') \in Nat /\ DOMAIN row' = 1..Len(row')
    BY RowIndices, LenProperties DEF ShapeOK, LogOK
  <2> QED
    BY <1>1, <2>1
<1>4. \A i \in DOMAIN row' : row'[i].state = "open" =>
        /\ i <= p.cursor => i \in overtaken'
        /\ \A j \in p.batch : i < j => i \in overtaken'
  <2> SUFFICES ASSUME NEW i \in DOMAIN row', row'[i].state = "open"
               PROVE  /\ i <= p.cursor => i \in overtaken'
                      /\ \A j \in p.batch : i < j => i \in overtaken'
    OBVIOUS
  <2>1. CASE i \in DOMAIN row
    BY <1>2, <2>1 DEF CursorInv, Grown
  <2>2. CASE i > Len(row)
    BY <1>1, <1>3, <2>2
  <2> QED
    BY <1>3, <2>1, <2>2
<1>5. \A j \in p.batch : \A i \in Committed(row[j].run)' :
        p.cursor < i /\ i < j => i \in p.batch \cup overtaken'
  <2> SUFFICES ASSUME NEW j \in p.batch, NEW i \in DOMAIN row', row'[i].run = row'[j].run,
                      row'[i].state = "committed", p.cursor < i, i < j
               PROVE  i \in p.batch \cup overtaken'
    BY DEF Committed
  <2>1. j \in DOMAIN row /\ i \in DOMAIN row
    BY <1>1, <1>3
  <2>2. row[i].run = row[j].run /\ row[i].state \in {"open", "committed"}
    BY <2>1 DEF Grown
  <2>3. CASE row[i].state = "open"
    BY <1>2, <2>1, <2>3 DEF CursorInv
  <2>4. CASE row[i].state = "committed"
    BY <1>2, <2>1, <2>2, <2>4 DEF CursorInv, Committed
  <2> QED
    BY <2>2, <2>3, <2>4
<1>6. OnlyOvertakenAreMissed'
  <2> SUFFICES ASSUME NEW i \in DOMAIN row', row'[i].run = p.runId, row'[i].state = "committed",
                      i <= p.cursor, p.runId = evidence, i \notin shown
               PROVE  i \in overtaken'
    BY <1>2 DEF OnlyOvertakenAreMissed, Committed
  <2>1. i \in DOMAIN row
    BY <1>1, <1>3
  <2>2. row[i].run = p.runId /\ row[i].state \in {"open", "committed"}
    BY <2>1 DEF Grown
  <2>3. CASE row[i].state = "open"
    BY <1>2, <2>1, <2>3 DEF CursorInv
  <2>4. CASE row[i].state = "committed"
    BY <1>2, <2>1, <2>2, <2>4 DEF CursorInv, OnlyOvertakenAreMissed, Committed
  <2> QED
    BY <2>2, <2>3, <2>4
<1>7. \A j \in p.batch : row'[j].state # "open"
  BY <1>1 DEF CursorInv, Grown
<1> QED
  BY <1>2, <1>4, <1>5, <1>6, <1>7 DEF CursorInv

\* A poll with no batch whose cursor is at the start, or where it was.
LEMMA CursorBack ==
  ASSUME ShapeOK, CursorInv, UNCHANGED <<row, overtaken, effect>>, poll'[effect].batch \in {{}, poll[effect].batch},
         \/ poll'[effect].cursor = 0
            /\ poll'[effect].batch = {}
         \/ /\ poll'[effect].cursor = poll[effect].cursor
            /\ poll'[effect].runId = evidence' => /\ poll'[effect].runId = poll[effect].runId
                                                  /\ poll[effect].runId = evidence \/ poll[effect].cursor = 0
            /\ shown' = shown
  PROVE  CursorInv'
<1> DEFINE p == poll[effect]
           q == poll'[effect]
<1>1. /\ p.cursor \in Nat /\ Len(row) \in Nat /\ DOMAIN row = 1..Len(row)
  BY EffectFacts
<1>2. CASE q.cursor = 0 /\ q.batch = {}
  BY <1>1, <1>2 DEF CursorInv, OnlyOvertakenAreMissed, Committed
<1>3. CASE /\ q.cursor = p.cursor
           /\ q.runId = evidence' => q.runId = p.runId /\ (p.runId = evidence \/ p.cursor = 0)
           /\ shown' = shown
  <2>1. OnlyOvertakenAreMissed'
    BY <1>1, <1>3 DEF CursorInv, OnlyOvertakenAreMissed, Committed
  <2> QED
    BY <1>3, <2>1 DEF CursorInv, Committed
<1> QED
  BY <1>2, <1>3

LEMMA TakenCursor == ASSUME ShapeOK, ShownInv, CursorInv, TakeBatch(effect) PROVE CursorInv'
<1> DEFINE p == poll[effect]
           q == poll'[effect]
<1>1. /\ p.cursor \in Nat /\ p.cursor <= Len(row) /\ p.batch \subseteq DOMAIN row
      /\ Len(row) \in Nat /\ DOMAIN row = 1..Len(row) /\ effect \in Effects
  BY EffectFacts
<1>2. UNCHANGED <<row, overtaken, effect>> /\ p.pc = "batch" /\ p.runId = evidence
  BY DEF TakeBatch, server, ShownInv
<1>3. q.batch = {} /\ q.runId = p.runId
      /\ q.cursor = IF \E i \in p.batch : row[i].run # p.runId THEN 0 ELSE Max(p.batch \cup {p.cursor})
  BY <1>1, PollOutcome DEF ShapeOK
<1>4. CASE \E i \in p.batch : row[i].run # p.runId
  BY <1>2, <1>3, <1>4, CursorBack
<1>5. CASE ~ \E i \in p.batch : row[i].run # p.runId
  <2> DEFINE b == p.batch \cup {p.cursor}
  <2>1. b \in SUBSET Nat /\ b # {} /\ \A x \in b : x <= Len(row)
    BY <1>1
  <2>2. q.cursor \in b /\ \A x \in b : x <= q.cursor
    <3>1. q.cursor = Max(b)
      BY <1>3, <1>5
    <3> HIDE DEF b
    <3> QED
      BY <1>1, <2>1, <3>1, MaxExists
  <2>3. shown' = shown \cup p.batch /\ evidence' = evidence
    BY <1>5 DEF TakeBatch
  <2>4. \A i \in DOMAIN row : row[i].state = "open" /\ i <= q.cursor => i \in overtaken
    <3> SUFFICES ASSUME NEW i \in DOMAIN row, row[i].state = "open", i <= q.cursor PROVE i \in overtaken
      OBVIOUS
    <3>1. CASE i <= p.cursor
      BY <3>1 DEF CursorInv
    <3>2. CASE ~(i <= p.cursor)
      <4>1. q.cursor \in p.batch
        BY <1>1, <2>2, <3>2
      <4>2. CASE i < q.cursor
        BY <4>1, <4>2 DEF CursorInv
      <4>3. CASE i = q.cursor
        BY <4>1, <4>3 DEF CursorInv
      <4> QED
        BY <1>1, <2>1, <2>2, <4>2, <4>3
    <3> QED
      BY <3>1, <3>2
  <2>5. \A i \in Committed(p.runId) : i <= q.cursor /\ i \notin shown' => i \in overtaken
    <3> SUFFICES ASSUME NEW i \in Committed(p.runId), i <= q.cursor, i \notin shown' PROVE i \in overtaken
      OBVIOUS
    <3>1. i \in Nat
      BY <1>1 DEF Committed
    <3>2. CASE i <= p.cursor
      BY <1>2, <2>3, <3>2 DEF CursorInv, OnlyOvertakenAreMissed
    <3>3. CASE ~(i <= p.cursor)
      <4>1. q.cursor \in p.batch
        BY <1>1, <2>2, <3>1, <3>3
      <4>2. row[q.cursor].run = p.runId /\ i # q.cursor
        BY <1>5, <2>3, <4>1
      <4>3. i < q.cursor /\ p.cursor < i
        BY <1>1, <3>1, <3>3, <4>1, <4>2
      <4>4. i \in p.batch \cup overtaken
        BY <4>1, <4>2, <4>3 DEF CursorInv
      <4> QED
        BY <2>3, <4>4
    <3> QED
      BY <3>2, <3>3
  <2> QED
    BY <1>2, <1>3, <2>3, <2>4, <2>5 DEF CursorInv, OnlyOvertakenAreMissed, Committed
<1> QED
  BY <1>4, <1>5

LEMMA ReadCursor ==
  ASSUME ShapeOK, CursorInv, NEW r \in Runs, ReadRows(effect, r)
  PROVE  CursorInv'
<1> DEFINE p == poll[effect]
           q == poll'[effect]
<1>1. /\ p.cursor \in Nat /\ Len(row) \in Nat /\ DOMAIN row = 1..Len(row) /\ effect \in Effects
  BY EffectFacts
<1>2. q.runId = p.runId /\ q.cursor = p.cursor /\ q.batch = Batch(r, p.cursor)
  BY <1>1, PollOutcome DEF ShapeOK
<1>3. /\ UNCHANGED <<row, effect, evidence, shown>>
      /\ overtaken' = overtaken \cup {i \in DOMAIN row : row[i].state = "open" /\ \E j \in q.batch : i < j}
  BY <1>2 DEF ReadRows
<1>4. \A i \in DOMAIN row : row[i].state = "open" =>
        /\ i <= q.cursor => i \in overtaken'
        /\ \A j \in q.batch : i < j => i \in overtaken'
  BY <1>2, <1>3 DEF CursorInv
<1>5. \A j \in q.batch : \A i \in Committed(row[j].run) : p.cursor < i /\ i < j => i \in q.batch
  <2> SUFFICES ASSUME NEW j \in q.batch, NEW i \in Committed(row[j].run), p.cursor < i, i < j
               PROVE  i \in q.batch
    OBVIOUS
  <2>1. row[j].run = r
    BY <1>2 DEF Batch, Rows, Committed
  <2> QED
    BY <1>1, <1>2, <2>1, BatchIsFirst
<1>6. OnlyOvertakenAreMissed'
  BY <1>2, <1>3 DEF CursorInv, OnlyOvertakenAreMissed, Committed
<1>7. \A j \in q.batch : row[j].state # "open"
  BY <1>2 DEF Batch, Rows, Committed
<1> QED
  BY <1>2, <1>3, <1>4, <1>5, <1>6, <1>7 DEF CursorInv, Committed

LEMMA NextCursor == ASSUME ShapeOK, ShapeOK', ShownInv, CursorInv, [Next]_vars PROVE CursorInv'
<1> DEFINE p == poll[effect]
<1>1. /\ effect \in Effects /\ p.cursor \in Nat /\ poll \in [Effects -> PollRecords]
      /\ DOMAIN row \subseteq Nat \ {0}
  BY EffectFacts
<1>2. CASE Kept
  BY <1>2, KeptCursor, NextGrows
<1>3. CASE EvidenceEffect
  <2>1. effect' = refresh /\ poll'[effect'] = [NoPoll EXCEPT !.pc = "asks"] /\ row' = row
    BY <1>1, <1>3 DEF EvidenceEffect, ShapeOK, StreamOK, server
  <2>2. poll'[effect'].cursor = 0 /\ poll'[effect'].batch = {}
    BY <2>1 DEF NoPoll
  <2> QED
    BY <1>1, <2>1, <2>2 DEF CursorInv, OnlyOvertakenAreMissed, Committed
<1>4. CASE ReadEvidence(effect) \/ PollFails(effect)
  <2>1. poll'[effect].runId = p.runId /\ poll'[effect].cursor = p.cursor /\ poll'[effect].batch = p.batch
    BY <1>1, <1>4, PollOutcome DEF ShapeOK
  <2>2. UNCHANGED <<row, overtaken, effect, evidence, shown>>
    BY <1>4 DEF ReadEvidence, PollFails, server
  <2> QED
    BY <2>1, <2>2 DEF CursorInv, OnlyOvertakenAreMissed, Committed
<1>5. CASE TakeEvidence(effect)
  <2>1. /\ poll'[effect].runId = p.report /\ poll'[effect].batch = {}
        /\ poll'[effect].cursor = IF p.runId # p.report THEN 0 ELSE p.cursor
    BY <1>1, <1>5, PollOutcome DEF ShapeOK
  <2>2. UNCHANGED <<row, overtaken, effect>> /\ shown' = IF p.runId # p.report THEN {} ELSE shown
    BY <1>5 DEF TakeEvidence, server
  <2>3. p.runId = evidence \/ p.cursor = 0
    BY DEF ShownInv
  <2> QED
    BY <2>1, <2>2, <2>3, CursorBack
<1>6. CASE \E r \in Runs : ReadRows(effect, r)
  BY <1>6, ReadCursor
<1>7. CASE TakeBatch(effect)
  BY <1>7, TakenCursor
<1>8. ~PollEnds(effect)
  BY DEF PollEnds
<1> QED
  BY <1>2, <1>3, <1>4, <1>5, <1>6, <1>7, <1>8, OtherStepsKeep DEF Poll

LEMMA InitCursor == Init => CursorInv
<1> SUFFICES ASSUME Init PROVE CursorInv
  OBVIOUS
<1>1. DOMAIN row = {} /\ poll[effect].batch = {}
  BY PageAssumption DEF Init, NoPoll, Effects
<1> QED
  BY <1>1 DEF CursorInv, OnlyOvertakenAreMissed, Committed

\* The cursor loses no event that was committed when a batch passed it, for any
\* size of a batch.
THEOREM NothingElseIsMissed == Spec => []OnlyOvertakenAreMissed
<1>1. Init => ShapeOK /\ ShownInv /\ CursorInv
  BY InitShape, InitShown, InitCursor
<1>2. ShapeOK /\ ShownInv /\ CursorInv /\ [Next]_vars => (ShapeOK /\ ShownInv /\ CursorInv)'
  BY NextShape, NextShown, NextCursor
<1>3. CursorInv => OnlyOvertakenAreMissed
  BY DEF CursorInv
<1> QED
  BY <1>1, <1>2, <1>3, PTL DEF Spec

-----------------------------------------------------------------------------
(* The probe reads runs that are not older than its credential's, so while *)
(* that run is active it probed that run.                                  *)

ProbeInv ==
  /\ rejected => wallet # 0
  /\ op.kind = "probe" =>
       /\ wallet # 0 /\ ~rejected
       /\ op.pc \in {"read", "challenged", "refused"} => wallet <= op.run
       /\ op.pc \in {"challenged", "refused"} => wallet <= op.challenge
       /\ op.pc = "refused" /\ wallet = run => \E i \in Committed(run) : row[i].name = OverLimit
  /\ RejectionIsMeasured

Measured == \E i \in Committed(run) : row[i].name = OverLimit

LEMMA MeasuredStays == ASSUME ShapeOK, ShapeOK', Grown, Measured, run' = run PROVE Measured'
<1>1. PICK i \in DOMAIN row : row[i].run = run /\ row[i].state = "committed" /\ row[i].name = OverLimit
  BY DEF Measured, Committed
<1>2. i \in DOMAIN row'
  <2>1. /\ Len(row) \in Nat /\ DOMAIN row = 1..Len(row)
        /\ Len(row') \in Nat /\ DOMAIN row' = 1..Len(row') /\ Len(row) <= Len(row')
    BY RowIndices, LenProperties DEF ShapeOK, LogOK, Grown
  <2> QED
    BY <2>1
<1>3. row'[i].run = run' /\ row'[i].state = "committed" /\ row'[i].name = OverLimit
  BY <1>1 DEF Grown
<1> QED
  BY <1>2, <1>3 DEF Measured, Committed

LEMMA NextProbe == ASSUME ShapeOK, ShapeOK', ProbeInv, [Next]_vars PROVE ProbeInv'
<1>1. /\ op \in OpRecords /\ wallet \in 0..run /\ op.run \in 0..run /\ op.challenge \in 0..run
      /\ run \in Nat /\ run' \in Nat /\ run <= run' /\ run # 0
  BY NextGrows, PageAssumption DEF ShapeOK, LogOK, ControlsOK, Grown, Runs
<1>2. Measured /\ run' = run => Measured'
  BY MeasuredStays, NextGrows
<1>3. CASE UNCHANGED controls
  BY <1>1, <1>2, <1>3 DEF ProbeInv, RejectionIsMeasured, Measured, controls
<1>4. CASE UsePass
  <2>1. wallet = 0 /\ wallet' = run /\ run' = run /\ op' = op /\ rejected' = rejected /\ op.kind = "none"
    BY <1>4 DEF UsePass, server
  <2> QED
    BY <1>1, <2>1 DEF ProbeInv, RejectionIsMeasured
<1>5. CASE StartReset
  <2>1. op' = [NoOp EXCEPT !.kind = "reset", !.pc = "asks", !.closure = evidence]
        /\ UNCHANGED <<run, wallet, rejected>>
    BY <1>5 DEF StartReset, Begin, server
  <2>2. op'.kind = "reset"
    BY <2>1 DEF NoOp
  <2> QED
    BY <1>2, <2>1, <2>2 DEF ProbeInv, RejectionIsMeasured, Measured
<1>6. CASE StartProbe
  <2>1. op' = [NoOp EXCEPT !.kind = "probe", !.pc = "asks", !.closure = evidence]
        /\ wallet # 0 /\ wallet' = wallet /\ ~rejected'
    BY <1>6 DEF StartProbe, Begin
  <2>2. op'.pc = "asks"
    BY <2>1 DEF NoOp
  <2> QED
    BY <2>1, <2>2 DEF ProbeInv, RejectionIsMeasured
<1>7. CASE ResetAnswers
  <2>1. op' = [op EXCEPT !.pc = "told"] /\ op.kind = "reset" /\ run' = run + 1 /\ UNCHANGED <<wallet, rejected>>
    BY <1>7 DEF ResetAnswers, ResetRun
  <2>2. op'.kind = "reset"
    BY <1>1, <2>1 DEF OpRecords
  <2>3. wallet' # run'
    BY <1>1, <2>1
  <2> QED
    BY <2>1, <2>2, <2>3 DEF ProbeInv, RejectionIsMeasured
<1>8. CASE ReadProbeRun
  <2>1. op' = [op EXCEPT !.pc = "read", !.run = run] /\ op.kind = "probe" /\ UNCHANGED <<run, wallet, rejected>>
    BY <1>8 DEF ReadProbeRun, server
  <2>2. op'.kind = "probe" /\ op'.pc = "read" /\ op'.run = run
    BY <1>1, <2>1 DEF OpRecords
  <2> QED
    BY <1>1, <2>1, <2>2 DEF ProbeInv, RejectionIsMeasured
<1>9. CASE ChallengeProbe
  <2>1. /\ op' = [op EXCEPT !.pc = "challenged", !.challenge = run]
        /\ op.kind = "probe" /\ op.pc = "read" /\ UNCHANGED <<run, wallet, rejected>>
    BY <1>9 DEF ChallengeProbe, server
  <2>2. op'.kind = "probe" /\ op'.pc = "challenged" /\ op'.run = op.run /\ op'.challenge = run
    BY <1>1, <2>1 DEF OpRecords
  <2> QED
    BY <1>1, <2>1, <2>2 DEF ProbeInv, RejectionIsMeasured
<1>10. CASE PresentProbe
  <2>1. /\ op' = [op EXCEPT !.pc = "refused"] /\ op.kind = "probe" /\ op.pc = "challenged"
        /\ UNCHANGED <<run, wallet, rejected>> /\ Len(row) < MaxSeq
    BY <1>10 DEF PresentProbe
  <2>2. /\ op'.kind = "probe" /\ op'.pc = "refused" /\ op'.run = op.run /\ op'.challenge = op.challenge
    BY <1>1, <2>1 DEF OpRecords
  <2>3. wallet <= op.run /\ wallet <= op.challenge /\ wallet # 0 /\ ~rejected
    BY <2>1 DEF ProbeInv
  <2>4. ASSUME wallet = run PROVE Measured'
    <3>1. op.run = run /\ op.challenge = run
      BY <1>1, <2>3, <2>4
    <3> DEFINE x == [run |-> run, state |-> "committed", name |-> OverLimit]
    <3>2. row' = Append(row, x)
      BY <1>10, <3>1 DEF PresentProbe, ProbeEvent
    <3>3. x \in RowRecords
      BY DEF RowRecords, ShapeOK, LogOK
    <3>4. Len(row) \in Nat /\ Len(row') = Len(row) + 1 /\ row'[Len(row) + 1] = x
      <4> HIDE DEF x
      <4> QED
        BY <3>2, <3>3, AppendProperties, EffectFacts DEF ShapeOK, LogOK
    <3>5. Len(row) + 1 \in DOMAIN row'
      <4>1. DOMAIN row' = 1..Len(row')
        BY LenProperties DEF ShapeOK, LogOK
      <4> QED
        BY <3>4, <4>1
    <3> QED
      BY <2>1, <3>4, <3>5 DEF Measured, Committed
  <2> QED
    BY <2>1, <2>2, <2>3, <2>4 DEF ProbeInv, RejectionIsMeasured, Measured
<1>11. CASE FinishReset
  <2>1. op' = NoOp /\ rejected' = FALSE
    BY <1>11 DEF FinishReset
  <2> QED
    BY <2>1 DEF ProbeInv, RejectionIsMeasured, NoOp
<1>12. CASE ResetFails \/ ProbeFails
  <2>1. op' = NoOp /\ UNCHANGED <<run, wallet, rejected>>
    BY <1>12 DEF ResetFails, ProbeFails, server
  <2> QED
    BY <1>2, <2>1 DEF ProbeInv, RejectionIsMeasured, Measured, NoOp
<1>13. CASE FinishProbe
  <2>1. /\ op.kind = "probe" /\ op.pc = "refused" /\ op' = NoOp /\ rejected' = TRUE
        /\ UNCHANGED <<run, wallet>>
    BY <1>13 DEF FinishProbe, server
  <2> QED
    BY <1>2, <2>1 DEF ProbeInv, RejectionIsMeasured, Measured, NoOp
<1>14. Controls \/ UNCHANGED controls
  BY DEF Next, Log, Insert, Commit, OtherTabResets, EvidenceEffect, Poll, ReadEvidence,
     TakeEvidence, ReadRows, TakeBatch, PollFails, PollEnds, Insights, InsightsEffect, ReadInsights,
     TakeInsights, InsightsFail, vars
<1> QED
  BY <1>3, <1>4, <1>5, <1>6, <1>7, <1>8, <1>9, <1>10, <1>11, <1>12, <1>13, <1>14 DEF Controls

\* A probe reported as rejected has left its event, unless its run is gone.
THEOREM RejectionsAreMeasured == Spec => []RejectionIsMeasured
<1>1. Init => ShapeOK /\ ProbeInv
  <2>1. Init => ProbeInv
    BY DEF Init, ProbeInv, NoOp, RejectionIsMeasured
  <2> QED
    BY <2>1, InitShape
<1>2. ShapeOK /\ ProbeInv /\ [Next]_vars => ShapeOK' /\ ProbeInv'
  BY NextShape, NextProbe
<1>3. ProbeInv => RejectionIsMeasured
  BY DEF ProbeInv
<1> QED
  BY <1>1, <1>2, <1>3, PTL DEF Spec
=============================================================================
