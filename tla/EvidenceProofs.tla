--------------------------- MODULE EvidenceProofs ---------------------------
(***************************************************************************)
(* Proofs about Evidence, for any uses, any limit, and any number of       *)
(* readers, auditors, credentials, retries and runs.                       *)
(***************************************************************************)
EXTENDS Evidence, TLAPS, FiniteSetTheorems, FunctionTheorems

UseRows == [Uses -> {"NONE", "PENDING", "SUCCEEDED", "FAILED"}]
ReaderRecords == [pc : {"idle", "asking"}, run : 0..MaxRun, row : UseRows, log : SUBSET Events]
AuditRecords == [run : 0..MaxRun, refs : SUBSET Uses, same : SUBSET Uses,
                 status : {"PASS", "INCOMPLETE"}, compared : BOOLEAN]
AuditorRecords == [pc : {"idle", "preparing", "comparing"}, run : 0..MaxRun,
                   uses : SUBSET Uses, same : SUBSET Uses, sent : SUBSET Uses]
ReportRecords == [run : 0..MaxRun, uses : SUBSET Uses, overall : Statuses]

-----------------------------------------------------------------------------
(* The log.                                                                *)

AcceptedEvent(u) == Event("USE_ACCEPTED", u, "accept", 0)
EffectEvent(u) == Event("EXTERNAL_ACTION_COMMITTED", u, "worker", 0)

\* What the log of a run says of its uses.
LogOf(rows, events) ==
  /\ Named(events, "USE_ACCEPTED") = {AcceptedEvent(u) : u \in Accepted(rows)}
  /\ Named(events, "EXTERNAL_ACTION_COMMITTED") = {EffectEvent(u) : u \in Succeeded(rows)}
  /\ \A e \in Named(events, "RETRY_MATCHED") :
       /\ e.trace[1] = "retry" /\ e.use \in Accepted(rows)
       /\ \E f \in Named(events, "RETRY_RESULT") : f.trace = e.trace /\ f.use = e.use
  /\ \A e \in events : e.name \in Rejections => e.trace[1] = "probe"
  /\ IsFiniteSet(events)
  /\ Cardinality(Accepted(rows)) <= L * Cardinality(Named(events, "CREDENTIAL_ISSUED"))

\* The values, apart from those that the log of the run is about.
RunOK ==
  /\ run \in 1..MaxRun /\ fenced \in BOOLEAN
  /\ row \in UseRows /\ log \subseteq Events /\ action \subseteq Uses

ControllerOK ==
  /\ audit \in AuditRecords
  /\ reader \in [Readers -> ReaderRecords]
  /\ auditor \in [Auditors -> AuditorRecords]
  /\ shown \in [Readers -> ReportRecords]

\* The destination has the action of each success, and of no use that is not
\* accepted.
LedgerInv ==
  /\ LogOf(row, log)
  /\ action \subseteq Accepted(row)
  /\ ~fenced => Succeeded(row) \subseteq action

Settled(status) == status \in {"SUCCEEDED", "FAILED"}

\* A snapshot was a state of its run, whose settled uses have stayed as they were.
SnapshotTrue(s) ==
  /\ LogOf(s.row, s.log)
  /\ s.run <= run
  /\ s.run = run => \A u \in Uses : Settled(s.row[u]) => row[u] = s.row[u]

SnapshotInv == \A p \in Readers : reader[p].pc = "asking" => SnapshotTrue(reader[p])

\* An audit is of two uses at least, and its comparisons were made.
AuditInv ==
  /\ audit.status = "PASS" => audit.compared /\ Cardinality(audit.refs) >= 2
  /\ \A a \in Auditors : auditor[a].pc = "comparing" => Cardinality(auditor[a].uses) >= 2

IInv == RunOK /\ ControllerOK /\ LedgerInv /\ SnapshotInv /\ AuditInv /\ PassIsTrue

-----------------------------------------------------------------------------
(* Events and the sets of them.                                            *)

LEMMA EventFields ==
  ASSUME NEW name, NEW u, NEW by, NEW n
  PROVE  /\ Event(name, u, by, n).name = name /\ Event(name, u, by, n).use = u
         /\ Event(name, u, by, n).trace = <<by, u, n>>
         /\ Event(name, u, by, n).trace[1] = by
  BY DEF Event

LEMMA EventTypes ==
  ASSUME NEW name \in Names, NEW u \in Uses \cup {NoUse}, NEW by \in Requests,
         NEW n \in 0..(MaxIssued + MaxRetries + MaxProbes)
  PROVE  Event(name, u, by, n) \in Events
  BY DEF Events

LEMMA NamedUnion ==
  ASSUME NEW A, NEW B, NEW name
  PROVE  Named(A \cup B, name) = Named(A, name) \cup Named(B, name)
  BY DEF Named

LEMMA NamedFinite ==
  ASSUME NEW A, IsFiniteSet(A), NEW name
  PROVE  /\ IsFiniteSet(Named(A, name)) /\ Named(A, name) \subseteq A
         /\ Cardinality(Named(A, name)) \in Nat
<1>1. Named(A, name) \subseteq A
  BY DEF Named
<1> QED BY <1>1, FS_Subset, FS_CardinalityType

LEMMA UsesFinite ==
  ASSUME NEW rows \in UseRows
  PROVE  /\ IsFiniteSet(Accepted(rows)) /\ Cardinality(Accepted(rows)) \in Nat
         /\ IsFiniteSet(Succeeded(rows)) /\ Cardinality(Succeeded(rows)) \in Nat
         /\ Succeeded(rows) \subseteq Accepted(rows) /\ Accepted(rows) \subseteq Uses
<1>1. Succeeded(rows) \subseteq Accepted(rows) /\ Accepted(rows) \subseteq Uses
  BY DEF Accepted, Succeeded
<1>2. IsFiniteSet(Uses)
  BY EvidenceAssumption
<1> QED BY <1>1, <1>2, FS_Subset, FS_CardinalityType

\* One event for each of some uses.
LEMMA OneEachUse ==
  ASSUME NEW S, IsFiniteSet(S), NEW name, NEW by
  PROVE  LET E == {Event(name, u, by, 0) : u \in S} IN
         Cardinality(E) = Cardinality(S) /\ {e.use : e \in E} = S
<1> DEFINE E == {Event(name, u, by, 0) : u \in S}
            f == [u \in S |-> Event(name, u, by, 0)]
<1>1. ExistsBijection(S, E)
  <2>1. f \in [S -> E]
    OBVIOUS
  <2>2. \A u, v \in S : f[u] = f[v] => u = v
    <3> SUFFICES ASSUME NEW u \in S, NEW v \in S, f[u] = f[v] PROVE u = v
      OBVIOUS
    <3> QED BY EventFields
  <2>3. \A e \in E : \E u \in S : f[u] = e
    OBVIOUS
  <2> HIDE DEF f
  <2>4. f \in Bijection(S, E)
    BY <2>1, <2>2, <2>3, Fun_IsBij
  <2> QED BY <2>4 DEF ExistsBijection
<1>2. Cardinality(E) = Cardinality(S)
  BY <1>1, FS_Bijection
<1>3. {e.use : e \in E} = S
  <2>1. \A u \in S : Event(name, u, by, 0).use = u
    BY EventFields
  <2> QED BY <2>1
<1> QED BY <1>2, <1>3

LEMMA NamedAdd ==
  ASSUME NEW A, NEW name, NEW u, NEW by, NEW n, NEW other
  PROVE  Named(A \cup {Event(name, u, by, n)}, other) =
           IF other = name THEN Named(A, other) \cup {Event(name, u, by, n)} ELSE Named(A, other)
  BY EventFields DEF Named

LEMMA RowSet ==
  ASSUME NEW rows \in UseRows, NEW u \in Uses, NEW status \in {"PENDING", "SUCCEEDED", "FAILED"}
  PROVE  LET new == [rows EXCEPT ![u] = status] IN
         /\ new \in UseRows
         /\ Accepted(new) = Accepted(rows) \cup {u}
         /\ Succeeded(new) = IF status = "SUCCEEDED" THEN Succeeded(rows) \cup {u}
                             ELSE Succeeded(rows) \ {u}
  BY DEF UseRows, Accepted, Succeeded

LEMMA LogBegins == LogOf([u \in Uses |-> "NONE"], {})
<1> DEFINE none == [u \in Uses |-> "NONE"]
<1>1. Accepted(none) = {} /\ Succeeded(none) = {} /\ \A name : Named({}, name) = {}
  BY DEF Accepted, Succeeded, Named
<1>2. IsFiniteSet({}) /\ Cardinality({}) = 0
  BY FS_EmptySet
<1>3. 0 <= L * 0
  BY EvidenceAssumption
<1> QED BY <1>1, <1>2, <1>3 DEF LogOf

\* An entry that says nothing of the uses.
LEMMA LogIssued ==
  ASSUME NEW rows \in UseRows, NEW events, LogOf(rows, events), NEW n
  PROVE  LogOf(rows, events \cup {Event("CREDENTIAL_ISSUED", NoUse, "issue", n)})
<1> DEFINE e == Event("CREDENTIAL_ISSUED", NoUse, "issue", n)
           new == events \cup {e}
<1>1. e.name = "CREDENTIAL_ISSUED"
  BY EventFields
<1>2. /\ Named(new, "USE_ACCEPTED") = Named(events, "USE_ACCEPTED")
      /\ Named(new, "EXTERNAL_ACTION_COMMITTED") = Named(events, "EXTERNAL_ACTION_COMMITTED")
      /\ Named(new, "RETRY_MATCHED") = Named(events, "RETRY_MATCHED")
      /\ Named(new, "RETRY_RESULT") = Named(events, "RETRY_RESULT")
      /\ Named(events, "CREDENTIAL_ISSUED") \subseteq Named(new, "CREDENTIAL_ISSUED")
  BY <1>1 DEF Named
<1>3. IsFiniteSet(new)
  BY FS_AddElement DEF LogOf
<1>4. Cardinality(Accepted(rows)) <= L * Cardinality(Named(new, "CREDENTIAL_ISSUED"))
  <2> DEFINE a == Cardinality(Named(events, "CREDENTIAL_ISSUED"))
             b == Cardinality(Named(new, "CREDENTIAL_ISSUED"))
             c == Cardinality(Accepted(rows))
  <2>1. IsFiniteSet(events)
    BY DEF LogOf
  <2>2. a \in Nat /\ b \in Nat /\ IsFiniteSet(Named(new, "CREDENTIAL_ISSUED"))
    BY <1>3, <2>1, NamedFinite
  <2>3. a <= b
    BY <1>2, <2>2, FS_Subset
  <2>4. c \in Nat /\ c <= L * a
    BY UsesFinite DEF LogOf
  <2>5. L \in Nat
    BY EvidenceAssumption
  <2> HIDE DEF a, b, c
  <2>6. L * a <= L * b
    BY <2>2, <2>3, <2>5
  <2>7. L * a \in Nat /\ L * b \in Nat
    BY <2>2, <2>5
  <2> QED BY <2>4, <2>6, <2>7 DEF b, c
<1>5. \A f \in new : f.name \in Rejections => f.trace[1] = "probe"
  BY <1>1 DEF LogOf, Rejections
<1> HIDE DEF e, new
<1>6. LogOf(rows, new)
  BY <1>2, <1>3, <1>4, <1>5 DEF LogOf
<1> QED BY <1>6 DEF new, e

\* An accepted use has its row and its entry together, within the limit.
LEMMA LogAccepted ==
  ASSUME NEW rows \in UseRows, NEW events, LogOf(rows, events), NEW u \in Uses, rows[u] = "NONE",
         Cardinality(Accepted(rows)) < L * Cardinality(Named(events, "CREDENTIAL_ISSUED"))
  PROVE  LogOf([rows EXCEPT ![u] = "PENDING"], events \cup {AcceptedEvent(u)})
<1> DEFINE next == [rows EXCEPT ![u] = "PENDING"]
           new == events \cup {AcceptedEvent(u)}
<1>1. next \in UseRows /\ Accepted(next) = Accepted(rows) \cup {u} /\ Succeeded(next) = Succeeded(rows)
  <2>1. u \notin Succeeded(rows)
    BY DEF Succeeded
  <2>2. /\ next \in UseRows /\ Accepted(next) = Accepted(rows) \cup {u}
        /\ Succeeded(next) = Succeeded(rows) \ {u}
    BY RowSet
  <2> QED BY <2>1, <2>2
<1>2. AcceptedEvent(u).name = "USE_ACCEPTED"
  BY EventFields DEF AcceptedEvent
<1>3. /\ Named(new, "USE_ACCEPTED") = Named(events, "USE_ACCEPTED") \cup {AcceptedEvent(u)}
      /\ Named(new, "EXTERNAL_ACTION_COMMITTED") = Named(events, "EXTERNAL_ACTION_COMMITTED")
      /\ Named(new, "RETRY_MATCHED") = Named(events, "RETRY_MATCHED")
      /\ Named(new, "RETRY_RESULT") = Named(events, "RETRY_RESULT")
      /\ Named(new, "CREDENTIAL_ISSUED") = Named(events, "CREDENTIAL_ISSUED")
  BY <1>2 DEF Named
<1>4. IsFiniteSet(new)
  BY FS_AddElement DEF LogOf
<1>5. Named(new, "USE_ACCEPTED") = {AcceptedEvent(v) : v \in Accepted(next)}
  BY <1>1, <1>3 DEF LogOf
<1>6. Cardinality(Accepted(next)) <= L * Cardinality(Named(new, "CREDENTIAL_ISSUED"))
  <2> DEFINE m == L * Cardinality(Named(events, "CREDENTIAL_ISSUED"))
             c == Cardinality(Accepted(rows))
  <2>1. Cardinality(Accepted(next)) <= c + 1 /\ c \in Nat
    <3>1. IsFiniteSet(Accepted(rows)) /\ c \in Nat
      BY UsesFinite
    <3>2. Cardinality(Accepted(rows) \cup {u}) = IF u \in Accepted(rows) THEN c ELSE c + 1
      BY <3>1, FS_AddElement
    <3>3. Accepted(next) = Accepted(rows) \cup {u}
      BY <1>1
    <3> HIDE DEF next, c
    <3>4. Cardinality(Accepted(next)) = IF u \in Accepted(rows) THEN c ELSE c + 1
      BY <3>2, <3>3
    <3> QED BY <3>1, <3>4
  <2>2. m \in Nat
    BY NamedFinite, EvidenceAssumption DEF LogOf
  <2>3. Cardinality(Accepted(next)) \in Nat
    BY <1>1, UsesFinite
  <2>4. c < m
    OBVIOUS
  <2>5. Cardinality(Accepted(next)) <= m
    <3> HIDE DEF m, c, next
    <3> QED BY <2>1, <2>2, <2>3, <2>4
  <2> QED BY <1>3, <2>5
<1>7. \A f \in new : f.name \in Rejections => f.trace[1] = "probe"
  BY <1>2 DEF LogOf, Rejections
<1>8. \A e \in Named(new, "RETRY_MATCHED") :
        /\ e.trace[1] = "retry" /\ e.use \in Accepted(next)
        /\ \E f \in Named(new, "RETRY_RESULT") : f.trace = e.trace /\ f.use = e.use
  BY <1>1, <1>3 DEF LogOf
<1> HIDE DEF new, next
<1> QED BY <1>1, <1>3, <1>4, <1>5, <1>6, <1>7, <1>8 DEF LogOf, new, next

LEMMA LogCompleted ==
  ASSUME NEW rows \in UseRows, NEW events, LogOf(rows, events), NEW u \in Uses, rows[u] = "PENDING"
  PROVE  LogOf([rows EXCEPT ![u] = "SUCCEEDED"], events \cup {EffectEvent(u)})
<1> DEFINE next == [rows EXCEPT ![u] = "SUCCEEDED"]
           new == events \cup {EffectEvent(u)}
<1>1. Accepted(next) = Accepted(rows) /\ Succeeded(next) = Succeeded(rows) \cup {u}
  <2>1. u \in Accepted(rows)
    BY DEF Accepted
  <2>2. Accepted(next) = Accepted(rows) \cup {u} /\ Succeeded(next) = Succeeded(rows) \cup {u}
    BY RowSet
  <2> QED BY <2>1, <2>2
<1>2. EffectEvent(u).name = "EXTERNAL_ACTION_COMMITTED"
  BY EventFields DEF EffectEvent
<1>3. /\ Named(new, "USE_ACCEPTED") = Named(events, "USE_ACCEPTED")
      /\ Named(new, "EXTERNAL_ACTION_COMMITTED")
           = Named(events, "EXTERNAL_ACTION_COMMITTED") \cup {EffectEvent(u)}
      /\ Named(new, "RETRY_MATCHED") = Named(events, "RETRY_MATCHED")
      /\ Named(new, "RETRY_RESULT") = Named(events, "RETRY_RESULT")
      /\ Named(new, "CREDENTIAL_ISSUED") = Named(events, "CREDENTIAL_ISSUED")
  BY <1>2 DEF Named
<1>4. IsFiniteSet(new)
  BY FS_AddElement DEF LogOf
<1>5. Named(new, "EXTERNAL_ACTION_COMMITTED") = {EffectEvent(v) : v \in Succeeded(next)}
  BY <1>1, <1>3 DEF LogOf
<1>6. \A f \in new : f.name \in Rejections => f.trace[1] = "probe"
  BY <1>2 DEF LogOf, Rejections
<1> HIDE DEF new, next
<1> QED BY <1>1, <1>3, <1>4, <1>5, <1>6 DEF LogOf, new, next

LEMMA LogFailed ==
  ASSUME NEW rows \in UseRows, NEW events, LogOf(rows, events), NEW u \in Uses, rows[u] = "PENDING"
  PROVE  LogOf([rows EXCEPT ![u] = "FAILED"], events)
<1>1. LET next == [rows EXCEPT ![u] = "FAILED"] IN
      Accepted(next) = Accepted(rows) /\ Succeeded(next) = Succeeded(rows)
  <2>1. u \in Accepted(rows) /\ u \notin Succeeded(rows)
    BY DEF Accepted, Succeeded
  <2>2. LET next == [rows EXCEPT ![u] = "FAILED"] IN
        Accepted(next) = Accepted(rows) \cup {u} /\ Succeeded(next) = Succeeded(rows) \ {u}
    BY RowSet
  <2> QED BY <2>1, <2>2
<1> QED BY <1>1 DEF LogOf

\* A match of an accepted use is recorded with its result.
LEMMA LogRetried ==
  ASSUME NEW rows \in UseRows, NEW events, LogOf(rows, events), NEW u \in Accepted(rows), NEW n
  PROVE  LogOf(rows, events \cup {Event("RETRY_MATCHED", u, "retry", n), Event("RETRY_RESULT", u, "retry", n)})
<1> DEFINE e == Event("RETRY_MATCHED", u, "retry", n)
           f == Event("RETRY_RESULT", u, "retry", n)
           new == events \cup {e, f}
<1>1. /\ e.name = "RETRY_MATCHED" /\ e.use = u /\ e.trace[1] = "retry"
      /\ f.name = "RETRY_RESULT" /\ f.use = u /\ f.trace = e.trace
  BY EventFields
<1> HIDE DEF e, f
<1>2. /\ Named(new, "USE_ACCEPTED") = Named(events, "USE_ACCEPTED")
      /\ Named(new, "EXTERNAL_ACTION_COMMITTED") = Named(events, "EXTERNAL_ACTION_COMMITTED")
      /\ Named(new, "RETRY_MATCHED") = Named(events, "RETRY_MATCHED") \cup {e}
      /\ Named(new, "RETRY_RESULT") = Named(events, "RETRY_RESULT") \cup {f}
      /\ Named(new, "CREDENTIAL_ISSUED") = Named(events, "CREDENTIAL_ISSUED")
  BY <1>1 DEF Named
<1>3. IsFiniteSet(new)
  <2>1. IsFiniteSet((events \cup {e}) \cup {f})
    BY FS_AddElement DEF LogOf
  <2>2. new = (events \cup {e}) \cup {f}
    OBVIOUS
  <2> QED BY <2>1, <2>2
<1>4. \A g \in new : g.name \in Rejections => g.trace[1] = "probe"
  BY <1>1 DEF LogOf, Rejections
<1>5. \A g \in Named(new, "RETRY_MATCHED") :
        /\ g.trace[1] = "retry" /\ g.use \in Accepted(rows)
        /\ \E h \in Named(new, "RETRY_RESULT") : h.trace = g.trace /\ h.use = g.use
  BY <1>1, <1>2 DEF LogOf
<1> HIDE DEF new
<1>6. LogOf(rows, new)
  BY <1>2, <1>3, <1>4, <1>5 DEF LogOf
<1> QED BY <1>6 DEF new, e, f

LEMMA LogRejected ==
  ASSUME NEW rows \in UseRows, NEW events, LogOf(rows, events), NEW name \in Rejections, NEW n
  PROVE  LogOf(rows, events \cup {Event(name, NoUse, "probe", n)})
<1> DEFINE e == Event(name, NoUse, "probe", n)
           new == events \cup {e}
<1>1. e.name = name /\ e.trace[1] = "probe"
  BY EventFields
<1> HIDE DEF e
<1>2. /\ Named(new, "USE_ACCEPTED") = Named(events, "USE_ACCEPTED")
      /\ Named(new, "EXTERNAL_ACTION_COMMITTED") = Named(events, "EXTERNAL_ACTION_COMMITTED")
      /\ Named(new, "RETRY_MATCHED") = Named(events, "RETRY_MATCHED")
      /\ Named(new, "RETRY_RESULT") = Named(events, "RETRY_RESULT")
      /\ Named(new, "CREDENTIAL_ISSUED") = Named(events, "CREDENTIAL_ISSUED")
  BY <1>1 DEF Named, Rejections
<1>3. IsFiniteSet(new)
  BY FS_AddElement DEF LogOf
<1>4. \A g \in new : g.name \in Rejections => g.trace[1] = "probe"
  BY <1>1 DEF LogOf
<1> HIDE DEF new
<1>6. LogOf(rows, new)
  BY <1>2, <1>3, <1>4 DEF LogOf
<1> QED BY <1>6 DEF new, e

-----------------------------------------------------------------------------
(* The run goes on.                                                        *)

\* What the steps of a run have in common, but for its end.
Goes ==
  /\ RunOK' /\ LedgerInv'
  /\ run' = run /\ UNCHANGED Controller
  /\ \A u \in Uses : Settled(row[u]) => row'[u] = row[u]
  /\ ~fenced' => ~fenced /\ action \subseteq action'

LEMMA GoesKeeps == ASSUME IInv, Goes PROVE IInv'
<1>1. ControllerOK' /\ AuditInv'
  BY DEF Goes, Controller, IInv, ControllerOK, AuditInv
<1>2. SnapshotInv'
  <2> SUFFICES ASSUME NEW p \in Readers, reader[p].pc = "asking" PROVE SnapshotTrue(reader[p])'
    BY DEF SnapshotInv, Goes, Controller
  <2>1. SnapshotTrue(reader[p]) /\ reader' = reader
    BY DEF IInv, SnapshotInv, Goes, Controller
  <2> QED BY <2>1 DEF SnapshotTrue, Goes, Settled
<1>3. PassIsTrue'
  <2> SUFFICES ASSUME NEW p \in Readers, shown[p].overall = "PASS", shown[p].run = run, ~fenced'
               PROVE  /\ Cardinality(shown[p].uses) = L
                      /\ \A u \in shown[p].uses : /\ row'[u] \in {"SUCCEEDED", "FAILED"}
                                                  /\ row'[u] = "SUCCEEDED" => u \in action'
    BY DEF PassIsTrue, Goes, Controller
  <2>1. /\ Cardinality(shown[p].uses) = L
        /\ \A u \in shown[p].uses : /\ row[u] \in {"SUCCEEDED", "FAILED"}
                                    /\ row[u] = "SUCCEEDED" => u \in action
    BY DEF IInv, PassIsTrue, Goes
  <2>2. shown[p].uses \subseteq Uses
    BY DEF IInv, ControllerOK, ReportRecords
  <2> QED BY <2>1, <2>2 DEF Goes, Settled
<1> QED BY <1>1, <1>2, <1>3 DEF IInv, Goes

LEMMA RunFacts ==
  ASSUME IInv
  PROVE  /\ row \in UseRows /\ log \subseteq Events /\ LogOf(row, log) /\ IsFiniteSet(log)
         /\ {MaxIssued, MaxRetries, MaxProbes} \subseteq Nat
         /\ "CREDENTIAL_ISSUED" \in Names /\ "RETRY_MATCHED" \in Names /\ "RETRY_RESULT" \in Names
         /\ "USE_ACCEPTED" \in Names /\ "EXTERNAL_ACTION_COMMITTED" \in Names
         /\ Rejections \subseteq Names
         /\ {"issue", "accept", "worker", "retry", "probe"} \subseteq Requests
  BY EvidenceAssumption DEF IInv, RunOK, LedgerInv, LogOf, Names, Rejections, Requests

LEMMA IssueGoes == ASSUME IInv, Issue PROVE Goes
<1> DEFINE n == Cardinality(Named(log, "CREDENTIAL_ISSUED")) + 1
           e == Event("CREDENTIAL_ISSUED", NoUse, "issue", n)
<1>1. n \in 0..(MaxIssued + MaxRetries + MaxProbes)
  <2>1. Cardinality(Named(log, "CREDENTIAL_ISSUED")) \in Nat /\ n <= MaxIssued
    BY RunFacts, NamedFinite DEF Issue
  <2> QED BY <2>1, RunFacts
<1>2. e \in Events
  BY <1>1, RunFacts, EventTypes
<1>3. LogOf(row, log \cup {e})
  BY RunFacts, LogIssued
<1>4. log' = log \cup {e} /\ UNCHANGED <<run, fenced, row, action, Controller>>
  BY DEF Issue
<1> HIDE DEF e
<1> QED BY <1>2, <1>3, <1>4 DEF Goes, IInv, RunOK, LedgerInv, Succeeded, Accepted

LEMMA AcceptGoes == ASSUME IInv, NEW u \in Uses, Accept(u) PROVE Goes
<1> DEFINE next == [row EXCEPT ![u] = "PENDING"]
<1>1. AcceptedEvent(u) \in Events
  <2>1. 0 \in 0..(MaxIssued + MaxRetries + MaxProbes)
    BY RunFacts
  <2> QED BY <2>1, RunFacts, EventTypes DEF AcceptedEvent
<1>2. /\ row' = next /\ log' = log \cup {AcceptedEvent(u)} /\ row[u] = "NONE"
      /\ UNCHANGED <<run, fenced, action, Controller>>
  BY DEF Accept, AcceptedEvent
<1>3. LogOf(next, log \cup {AcceptedEvent(u)})
  BY RunFacts, LogAccepted DEF Accept
<1>4. next \in UseRows /\ Accepted(next) = Accepted(row) \cup {u} /\ Succeeded(next) = Succeeded(row) \ {u}
  BY RunFacts, RowSet
<1>5. \A v \in Uses : Settled(row[v]) => next[v] = row[v]
  BY <1>2, RunFacts DEF Settled, UseRows
<1> HIDE DEF next
<1> QED BY <1>1, <1>2, <1>3, <1>4, <1>5 DEF Goes, IInv, RunOK, LedgerInv

LEMMA CommitGoes == ASSUME IInv, NEW u \in Uses, Commit(u) PROVE Goes
<1>1. u \in Accepted(row)
  BY DEF Commit, Accepted
<1> QED BY <1>1 DEF Commit, Goes, IInv, RunOK, LedgerInv

LEMMA CompleteGoes == ASSUME IInv, NEW u \in Uses, Complete(u) PROVE Goes
<1> DEFINE next == [row EXCEPT ![u] = "SUCCEEDED"]
<1>1. EffectEvent(u) \in Events
  <2>1. 0 \in 0..(MaxIssued + MaxRetries + MaxProbes)
    BY RunFacts
  <2> QED BY <2>1, RunFacts, EventTypes DEF EffectEvent
<1>2. /\ row' = next /\ log' = log \cup {EffectEvent(u)} /\ row[u] = "PENDING" /\ u \in action
      /\ UNCHANGED <<run, fenced, action, Controller>>
  BY DEF Complete, EffectEvent
<1>3. LogOf(next, log \cup {EffectEvent(u)})
  BY <1>2, RunFacts, LogCompleted
<1>4. next \in UseRows /\ Accepted(next) = Accepted(row) \cup {u} /\ Succeeded(next) = Succeeded(row) \cup {u}
  BY RunFacts, RowSet
<1>5. \A v \in Uses : Settled(row[v]) => next[v] = row[v]
  BY <1>2, RunFacts DEF Settled, UseRows
<1> HIDE DEF next
<1> QED BY <1>1, <1>2, <1>3, <1>4, <1>5 DEF Goes, IInv, RunOK, LedgerInv

LEMMA FailFinalGoes == ASSUME IInv, NEW u \in Uses, FailFinal(u) PROVE Goes
<1> DEFINE next == [row EXCEPT ![u] = "FAILED"]
<1>1. row' = next /\ row[u] = "PENDING" /\ UNCHANGED <<run, fenced, log, action, Controller>>
  BY DEF FailFinal
<1>2. LogOf(next, log)
  BY <1>1, RunFacts, LogFailed
<1>3. next \in UseRows /\ Accepted(next) = Accepted(row) \cup {u} /\ Succeeded(next) = Succeeded(row) \ {u}
  BY RunFacts, RowSet
<1>4. \A v \in Uses : Settled(row[v]) => next[v] = row[v]
  BY <1>1, RunFacts DEF Settled, UseRows
<1> HIDE DEF next
<1> QED BY <1>1, <1>2, <1>3, <1>4 DEF Goes, IInv, RunOK, LedgerInv

LEMMA RetryGoes == ASSUME IInv, NEW u \in Uses, Retry(u) PROVE Goes
<1> DEFINE n == Cardinality(Named(log, "RETRY_MATCHED")) + 1
           e == Event("RETRY_MATCHED", u, "retry", n)
           f == Event("RETRY_RESULT", u, "retry", n)
<1>1. n \in 0..(MaxIssued + MaxRetries + MaxProbes)
  <2>1. Cardinality(Named(log, "RETRY_MATCHED")) \in Nat /\ n <= MaxRetries
    BY RunFacts, NamedFinite DEF Retry
  <2> QED BY <2>1, RunFacts
<1>2. e \in Events /\ f \in Events
  BY <1>1, RunFacts, EventTypes
<1>3. LogOf(row, log \cup {e, f})
  <2>1. u \in Accepted(row)
    BY DEF Retry, Accepted
  <2> QED BY <2>1, RunFacts, LogRetried
<1>4. log' = log \cup {e, f} /\ UNCHANGED <<run, fenced, row, action, Controller>>
  BY DEF Retry
<1> HIDE DEF e, f
<1> QED BY <1>2, <1>3, <1>4 DEF Goes, IInv, RunOK, LedgerInv, Succeeded, Accepted

LEMMA ProbeGoes == ASSUME IInv, NEW name \in Rejections, Probe(name) PROVE Goes
<1> DEFINE S == {e \in log : e.name \in Rejections}
           n == Cardinality(S) + 1
           e == Event(name, NoUse, "probe", n)
<1>1. n \in 0..(MaxIssued + MaxRetries + MaxProbes)
  <2>1. Cardinality(S) \in Nat
    BY RunFacts, FS_Subset, FS_CardinalityType
  <2>2. n <= MaxProbes
    BY DEF Probe
  <2> QED BY <2>1, <2>2, RunFacts
<1>2. e \in Events
  BY <1>1, RunFacts, EventTypes
<1>3. LogOf(row, log \cup {e})
  BY RunFacts, LogRejected
<1>4. log' = log \cup {e} /\ UNCHANGED <<run, fenced, row, action, Controller>>
  BY DEF Probe
<1> HIDE DEF e
<1> QED BY <1>2, <1>3, <1>4 DEF Goes, IInv, RunOK, LedgerInv, Succeeded, Accepted

LEMMA FenceGoes == ASSUME IInv, Fence PROVE Goes
  BY DEF Fence, Goes, IInv, RunOK, LedgerInv

\* A new run has an empty log, and nothing was reported of it.
LEMMA EraseKeeps == ASSUME IInv, Erase PROVE IInv'
<1> DEFINE none == [u \in Uses |-> "NONE"]
<1>1. /\ run' = run + 1 /\ run < MaxRun /\ fenced' = FALSE /\ row' = none /\ log' = {} /\ action' = {}
      /\ shown' = [p \in Readers |-> NoReport]
      /\ UNCHANGED <<audit, reader, auditor>>
  BY DEF Erase
<1>2. none \in UseRows /\ Succeeded(none) = {}
  BY DEF UseRows, Succeeded
<1>3. MaxRun \in Nat
  BY EvidenceAssumption
<1>4. RunOK'
  <2>1. run \in 1..MaxRun
    BY DEF IInv, RunOK
  <2>2. run' \in 1..MaxRun
    BY <1>1, <1>3, <2>1
  <2> HIDE DEF none
  <2> QED BY <1>1, <1>2, <2>2 DEF RunOK
<1>5. LogOf(none, {})
  BY LogBegins
<1>6. LedgerInv'
  <2> HIDE DEF none
  <2> QED BY <1>1, <1>2, <1>5 DEF LedgerInv
<1>7. NoReport \in ReportRecords /\ NoReport.overall = "NOT_RUN"
  BY <1>3 DEF NoReport, ReportRecords, Statuses
<1>8. ControllerOK' /\ AuditInv'
  BY <1>1, <1>7 DEF IInv, ControllerOK, AuditInv
<1>9. PassIsTrue'
  BY <1>1, <1>7 DEF PassIsTrue
<1>10. SnapshotInv'
  <2> SUFFICES ASSUME NEW p \in Readers, reader[p].pc = "asking" PROVE SnapshotTrue(reader[p])'
    BY <1>1 DEF SnapshotInv
  <2>1. LogOf(reader[p].row, reader[p].log)
    BY DEF IInv, SnapshotInv, SnapshotTrue
  <2>2. reader[p].run <= run
    BY DEF IInv, SnapshotInv, SnapshotTrue
  <2>3. run \in Nat /\ reader[p].run \in Nat
    BY <1>3 DEF IInv, RunOK, ControllerOK, ReaderRecords
  <2>4. reader[p].run <= run + 1 /\ reader[p].run # run + 1
    BY <2>2, <2>3
  <2> QED BY <1>1, <2>1, <2>4 DEF SnapshotTrue
<1> QED BY <1>4, <1>6, <1>8, <1>9, <1>10 DEF IInv

-----------------------------------------------------------------------------
(* The report.                                                             *)

LEMMA CheckIs ==
  ASSUME NEW holds \in BOOLEAN, NEW fails \in BOOLEAN
  PROVE  /\ Check(holds, fails) = "PASS" <=> holds /\ ~fails
         /\ Check(holds, fails) = "FAIL" <=> fails
         /\ Check(holds, fails) # "INCOMPLETE"
  BY DEF Check

LEMMA OverallIs ==
  ASSUME NEW checks
  PROVE  /\ Overall(checks) \in Statuses
         /\ Overall(checks) = "FAIL" <=> "FAIL" \in checks
         /\ Overall(checks) = "PASS" <=> checks = {"PASS"}
<1>1. CASE "FAIL" \in checks
  <2>1. Overall(checks) = "FAIL"
    BY <1>1 DEF Overall
  <2>2. checks # {"PASS"}
    BY <1>1
  <2> QED BY <1>1, <2>1, <2>2 DEF Statuses
<1>2. CASE "FAIL" \notin checks /\ "INCOMPLETE" \in checks
  BY <1>2 DEF Overall, Statuses
<1>3. CASE checks = {"PASS"}
  <2>1. "FAIL" \notin checks /\ "INCOMPLETE" \notin checks
    BY <1>3
  <2>2. Overall(checks) = "PASS"
    BY <1>3, <2>1 DEF Overall
  <2> QED BY <1>3, <2>1, <2>2 DEF Statuses
<1>4. CASE "FAIL" \notin checks /\ "INCOMPLETE" \notin checks /\ checks # {"PASS"}
  <2>1. Overall(checks) = "NOT_RUN"
    BY <1>4 DEF Overall
  <2> QED BY <1>4, <2>1 DEF Statuses
<1> QED BY <1>1, <1>2, <1>3, <1>4

\* What a PASS says of the snapshot, the destination and the audit.
LEMMA PassSays ==
  ASSUME NEW s \in ReaderRecords, NEW actions, NEW aud \in AuditRecords,
         Overall(Checks(s, actions, aud)) = "PASS"
  PROVE  /\ Cardinality(Accepted(s.row)) = L
         /\ \A u \in Accepted(s.row) : Settled(s.row[u]) /\ (s.row[u] = "SUCCEEDED" <=> u \in actions)
         /\ aud.run = s.run /\ aud.status = "PASS"
         /\ aud.refs = Accepted(s.row) /\ Cardinality(aud.refs) >= 2
<1>1. Checks(s, actions, aud) = {"PASS"}
  BY OverallIs
<1>2. BoundedUse(s) = "PASS" /\ SingleExternalEffect(s, actions) = "PASS" /\ Unlinkability(s, aud) = "PASS"
  <2>1. BoundedUse(s) \in Checks(s, actions, aud)
    BY Zenon DEF Checks
  <2>2. SingleExternalEffect(s, actions) \in Checks(s, actions, aud)
    BY Zenon DEF Checks
  <2>3. Unlinkability(s, aud) \in Checks(s, actions, aud)
    BY Zenon DEF Checks
  <2> QED BY <1>1, <2>1, <2>2, <2>3
<1>3. Cardinality(Accepted(s.row)) = L
  BY <1>2 DEF BoundedUse, Check
<1>4. \A u \in Accepted(s.row) : Settled(s.row[u]) /\ (s.row[u] = "SUCCEEDED" <=> u \in actions)
  <2> DEFINE uses == Accepted(s.row)
             settled == uses # {} /\ \A u \in uses : s.row[u] # "PENDING"
             wrong == \/ uses # {} /\ ~(actions \subseteq uses)
                      \/ settled /\ \E u \in uses : (s.row[u] = "SUCCEEDED") # (u \in actions)
  <2>1. Check(settled, wrong) = "PASS"
    BY <1>2 DEF SingleExternalEffect
  <2>2. settled /\ ~wrong
    BY <2>1 DEF Check
  <2>3. \A u \in uses : (s.row[u] = "SUCCEEDED") = (u \in actions)
    BY <2>2
  <2>4. \A u \in uses : s.row[u] \in {"PENDING", "SUCCEEDED", "FAILED"}
    BY DEF Accepted, ReaderRecords, UseRows
  <2> QED BY <2>2, <2>3, <2>4 DEF Settled
<1>5. /\ aud.run = s.run /\ aud.status = "PASS"
      /\ aud.refs = Accepted(s.row) /\ Cardinality(aud.refs) >= 2
  BY <1>2 DEF Unlinkability, Check, AuditRecords
<1> QED BY <1>3, <1>4, <1>5

LEMMA ReportStep ==
  ASSUME IInv, NEW p \in Readers, FinishReport(p)
  PROVE  LET s == reader[p]
             overall == Overall(Checks(s, Receipts(s.run), audit)) IN
         /\ s \in ReaderRecords /\ SnapshotTrue(s) /\ audit \in AuditRecords
         /\ shown'[p] = [run |-> s.run, uses |-> Accepted(s.row), overall |-> overall]
         /\ shown' = [shown EXCEPT ![p] = shown'[p]]
         /\ reader' = [reader EXCEPT ![p] = Idle]
         /\ UNCHANGED <<Protocol, audit, auditor>>
  BY DEF IInv, ControllerOK, SnapshotInv, FinishReport

LEMMA IdleReader == Idle \in ReaderRecords /\ Idle.pc = "idle"
<1>1. 0 \in 0..MaxRun
  BY EvidenceAssumption
<1> QED BY <1>1 DEF Idle, ReaderRecords, UseRows

LEMMA ReportKeeps == ASSUME IInv, NEW p \in Readers, FinishReport(p) PROVE IInv'
<1> DEFINE s == reader[p]
           overall == Overall(Checks(s, Receipts(s.run), audit))
           report == [run |-> s.run, uses |-> Accepted(s.row), overall |-> overall]
<1>1. /\ s \in ReaderRecords /\ SnapshotTrue(s) /\ audit \in AuditRecords
      /\ shown'[p] = report /\ shown' = [shown EXCEPT ![p] = report]
      /\ reader' = [reader EXCEPT ![p] = Idle]
      /\ UNCHANGED <<run, fenced, row, log, action, audit, auditor>>
  BY ReportStep DEF Protocol
<1>2. report \in ReportRecords
  <2>1. overall \in Statuses
    BY OverallIs
  <2>2. s.run \in 0..MaxRun /\ Accepted(s.row) \subseteq Uses
    BY <1>1 DEF ReaderRecords, Accepted
  <2> HIDE DEF overall, s
  <2> QED BY <2>1, <2>2 DEF ReportRecords
<1>3. ControllerOK'
  <2> HIDE DEF report, s
  <2> QED BY <1>1, <1>2, IdleReader DEF IInv, ControllerOK
<1>4. SnapshotInv'
  <2> SUFFICES ASSUME NEW q \in Readers, reader'[q].pc = "asking" PROVE SnapshotTrue(reader[q])'
    BY DEF SnapshotInv
  <2>1. reader'[q] = reader[q]
    BY <1>1, IdleReader DEF IInv, ControllerOK
  <2>2. SnapshotTrue(reader[q])
    BY <2>1 DEF IInv, SnapshotInv
  <2> QED BY <1>1, <2>1, <2>2 DEF SnapshotTrue
<1>5. AuditInv' /\ RunOK' /\ LedgerInv'
  BY <1>1 DEF IInv, AuditInv, RunOK, LedgerInv
<1>6. PassIsTrue'
  <2> SUFFICES ASSUME NEW q \in Readers, shown'[q].overall = "PASS", shown'[q].run = run, ~fenced
               PROVE  /\ Cardinality(shown'[q].uses) = L
                      /\ \A u \in shown'[q].uses : /\ row[u] \in {"SUCCEEDED", "FAILED"}
                                                   /\ row[u] = "SUCCEEDED" => u \in action
    BY <1>1 DEF PassIsTrue
  <2>1. CASE q = p
    <3>1. overall = "PASS" /\ s.run = run /\ shown'[q].uses = Accepted(s.row)
      BY <1>1, <2>1
    <3>2. /\ Cardinality(Accepted(s.row)) = L
          /\ \A u \in Accepted(s.row) : Settled(s.row[u])
                                         /\ (s.row[u] = "SUCCEEDED" <=> u \in Receipts(s.run))
      BY <1>1, <3>1, PassSays
    <3>3. Receipts(s.run) = action
      BY <3>1 DEF Receipts
    <3>4. \A u \in Accepted(s.row) : row[u] = s.row[u]
      BY <1>1, <3>1, <3>2 DEF SnapshotTrue, Accepted
    <3> HIDE DEF s
    <3> QED BY <3>1, <3>2, <3>3, <3>4 DEF Settled
  <2>2. CASE q # p
    <3>1. shown'[q] = shown[q]
      BY <1>1, <2>2 DEF IInv, ControllerOK
    <3> QED BY <3>1 DEF IInv, PassIsTrue
  <2> QED BY <2>1, <2>2
<1> QED BY <1>3, <1>4, <1>5, <1>6 DEF IInv

LEMMA SnapshotKeeps ==
  ASSUME IInv, NEW p \in Readers, TakeSnapshot(p) \/ ReportFails(p) PROVE IInv'
<1> DEFINE s == [pc |-> "asking", run |-> run, row |-> row, log |-> log]
<1>1. UNCHANGED <<run, fenced, row, log, action, audit, auditor, shown>>
  BY DEF TakeSnapshot, ReportFails, Protocol
<1>2. s \in ReaderRecords /\ SnapshotTrue(s) /\ s.pc = "asking"
  <2>1. run \in 0..MaxRun
    BY EvidenceAssumption DEF IInv, RunOK
  <2>2. s \in ReaderRecords
    BY <2>1 DEF IInv, RunOK, ReaderRecords
  <2> QED BY <2>1, <2>2 DEF IInv, LedgerInv, SnapshotTrue
<1>3. PICK t \in {s, Idle} : reader' = [reader EXCEPT ![p] = t]
  BY DEF TakeSnapshot, ReportFails
<1>4. t \in ReaderRecords /\ (t.pc = "asking" => SnapshotTrue(t))
  BY <1>2, IdleReader
<1>5. ControllerOK'
  BY <1>1, <1>3, <1>4 DEF IInv, ControllerOK
<1>6. SnapshotInv'
  <2> SUFFICES ASSUME NEW q \in Readers, reader'[q].pc = "asking" PROVE SnapshotTrue(reader[q])'
    BY DEF SnapshotInv
  <2>1. SnapshotTrue(reader'[q])
    BY <1>3, <1>4 DEF IInv, ControllerOK, SnapshotInv
  <2> QED BY <1>1, <2>1 DEF SnapshotTrue
<1>7. AuditInv' /\ RunOK' /\ LedgerInv' /\ PassIsTrue'
  BY <1>1 DEF IInv, AuditInv, RunOK, LedgerInv, PassIsTrue
<1> QED BY <1>5, <1>6, <1>7 DEF IInv

LEMMA AuditKeeps == ASSUME IInv, NEW a \in Auditors, Linkability(a) PROVE IInv'
<1>1. UNCHANGED <<run, fenced, row, log, action, reader, shown>>
  BY DEF Linkability, StartAudit, PrepareAudit, Compare, Protocol
<1>2. RunOK' /\ LedgerInv' /\ PassIsTrue' /\ SnapshotInv'
  BY <1>1 DEF IInv, RunOK, LedgerInv, PassIsTrue, SnapshotInv, SnapshotTrue
<1>3. /\ Resting \in AuditorRecords /\ Resting.pc = "idle"
      /\ \A r \in 0..MaxRun : Incomplete(r) \in AuditRecords /\ Incomplete(r).status = "INCOMPLETE"
  <2>1. 0 \in 0..MaxRun
    BY EvidenceAssumption
  <2> QED BY <2>1 DEF Resting, AuditorRecords, Incomplete, NoAudit, AuditRecords
<1>4. auditor[a] \in AuditorRecords /\ auditor \in [Auditors -> AuditorRecords] /\ audit \in AuditRecords
  BY DEF IInv, ControllerOK
<1>5. ASSUME NEW c \in AuditorRecords, NEW new \in AuditRecords,
             auditor' = [auditor EXCEPT ![a] = c], audit' = new,
             c.pc = "comparing" => Cardinality(c.uses) >= 2,
             new.status = "PASS" => new.compared /\ Cardinality(new.refs) >= 2
      PROVE  ControllerOK' /\ AuditInv'
  <2>1. ControllerOK'
    BY <1>1, <1>4, <1>5 DEF IInv, ControllerOK
  <2>2. AuditInv'
    BY <1>4, <1>5 DEF IInv, AuditInv
  <2> QED BY <2>1, <2>2
<1>6. audit.status = "PASS" => audit.compared /\ Cardinality(audit.refs) >= 2
  BY DEF IInv, AuditInv
<1>7. CASE \E sent \in (SUBSET Uses) \ {{}} : \E twice \in SUBSET sent : StartAudit(a, sent, twice)
  <2>1. PICK sent \in SUBSET Uses : \E twice \in SUBSET sent : StartAudit(a, sent, twice)
    BY <1>7
  <2>2. PICK twice \in SUBSET sent : StartAudit(a, sent, twice)
    BY <2>1
  <2> DEFINE c == [pc |-> "preparing", run |-> run, uses |-> Accepted(row),
                   same |-> twice \cap {e.use : e \in Named(log, "RETRY_MATCHED")}, sent |-> sent]
  <2>3. c \in AuditorRecords
    <3>1. run \in 0..MaxRun /\ Accepted(row) \subseteq Uses
      BY EvidenceAssumption DEF IInv, RunOK, Accepted
    <3> QED BY <3>1 DEF AuditorRecords
  <2>4. auditor' = [auditor EXCEPT ![a] = c] /\ audit' = audit /\ c.pc = "preparing"
    BY <2>2 DEF StartAudit
  <2> HIDE DEF c
  <2> QED BY <1>2, <1>4, <1>5, <1>6, <2>3, <2>4 DEF IInv
<1>8. CASE PrepareAudit(a)
  <2> DEFINE c == auditor[a]
             next == [c EXCEPT !.pc = "comparing", !.sent = {}]
  <2>1. next \in AuditorRecords /\ next.uses = c.uses /\ c.run \in 0..MaxRun
    BY <1>4 DEF AuditorRecords
  <2>2. \/ /\ auditor' = [auditor EXCEPT ![a] = next] /\ audit' = audit
           /\ Cardinality(c.uses) >= 2
        \/ auditor' = [auditor EXCEPT ![a] = Resting] /\ audit' = Incomplete(c.run)
    BY <1>8 DEF PrepareAudit
  <2> HIDE DEF next
  <2>3. ControllerOK' /\ AuditInv'
    BY <1>3, <1>4, <1>5, <1>6, <2>1, <2>2
  <2> QED BY <1>2, <2>3 DEF IInv
<1>9. CASE \E available \in BOOLEAN : Compare(a, available)
  <2> DEFINE c == auditor[a]
             done == [run |-> c.run, refs |-> c.uses, same |-> c.same, status |-> "PASS", compared |-> TRUE]
  <2>1. done \in AuditRecords /\ c.run \in 0..MaxRun
    BY <1>4 DEF AuditorRecords, AuditRecords
  <2>2. Cardinality(c.uses) >= 2
    BY <1>9 DEF IInv, AuditInv, Compare
  <2>3. done.compared /\ Cardinality(done.refs) >= 2
    BY <2>2
  <2>4. /\ auditor' = [auditor EXCEPT ![a] = Resting]
        /\ audit' = done \/ audit' = Incomplete(c.run)
    BY <1>9 DEF Compare
  <2> HIDE DEF done
  <2>5. ControllerOK' /\ AuditInv'
    BY <1>3, <1>5, <2>1, <2>3, <2>4
  <2> QED BY <1>2, <2>5 DEF IInv
<1> QED BY <1>7, <1>8, <1>9 DEF Linkability

-----------------------------------------------------------------------------
LEMMA InitInv == Init => IInv
<1> SUFFICES ASSUME Init PROVE IInv
  OBVIOUS
<1> DEFINE none == [u \in Uses |-> "NONE"]
<1>1. none \in UseRows /\ Succeeded(none) = {} /\ LogOf(none, {}) /\ row = none
  BY LogBegins DEF UseRows, Succeeded, Init
<1>2. 0 \in 0..MaxRun /\ 1 \in 1..MaxRun
  BY EvidenceAssumption
<1> HIDE DEF none
<1>3. RunOK /\ LedgerInv
  BY <1>1, <1>2 DEF Init, RunOK, LedgerInv
<1>4. NoAudit \in AuditRecords /\ Resting \in AuditorRecords /\ NoReport \in ReportRecords
  BY <1>2 DEF NoAudit, Resting, NoReport, AuditRecords, AuditorRecords, ReportRecords, Statuses
<1>5. NoAudit.status = "INCOMPLETE" /\ Resting.pc = "idle" /\ NoReport.overall = "NOT_RUN"
  BY DEF NoAudit, Resting, NoReport
<1>6. ControllerOK /\ AuditInv /\ SnapshotInv /\ PassIsTrue
  BY <1>4, <1>5, IdleReader DEF Init, ControllerOK, AuditInv, SnapshotInv, PassIsTrue
<1> QED BY <1>3, <1>6 DEF IInv

LEMMA NextInv == IInv /\ [Next]_vars => IInv'
<1> SUFFICES ASSUME IInv, [Next]_vars PROVE IInv'
  OBVIOUS
<1>1. CASE Run
  BY <1>1, IssueGoes, FenceGoes, EraseKeeps, ProbeGoes, AcceptGoes, CommitGoes, CompleteGoes,
     FailFinalGoes, RetryGoes, GoesKeeps DEF Run
<1>2. CASE \E p \in Readers : Report(p) \/ ReportFails(p)
  BY <1>2, SnapshotKeeps, ReportKeeps DEF Report
<1>3. CASE \E a \in Auditors : Linkability(a)
  BY <1>3, AuditKeeps
<1>4. CASE UNCHANGED vars
  BY <1>4 DEF vars, IInv, RunOK, ControllerOK, LedgerInv, SnapshotInv, SnapshotTrue, AuditInv, PassIsTrue
<1> QED BY <1>1, <1>2, <1>3, <1>4 DEF Next

\* The report is made of consistent parts: the snapshot of a state that was, the
\* destination that has each success, an audit whose comparisons were made.
THEOREM Invariance == Spec => []IInv
<1> QED BY InitInv, NextInv, PTL DEF Spec

\* The report, the audits and the run keep their types.
THEOREM TypeCorrect == Spec => []TypeOK
<1>1. IInv => TypeOK
  <2> SUFFICES ASSUME IInv PROVE TypeOK
    OBVIOUS
  <2>1. RunOK /\ ControllerOK
    BY DEF IInv
  <2>2. \A p \in Readers :
          /\ DOMAIN reader[p] = {"pc", "run", "row", "log"}
          /\ reader[p].pc \in {"idle", "asking"} /\ reader[p].run \in 0..MaxRun
          /\ reader[p].row \in UseRows /\ reader[p].log \subseteq Events
    BY <2>1 DEF ControllerOK, ReaderRecords
  <2>3. DOMAIN reader = Readers
    BY <2>1 DEF ControllerOK
  <2> QED BY <2>1, <2>2, <2>3 DEF RunOK, ControllerOK, UseRows, AuditRecords, AuditorRecords, ReportRecords, TypeOK
<1> QED BY <1>1, Invariance, PTL

\* A reported PASS describes a state that was, and that lasts until the reset
\* (PassIsTrue), for any number of readers, auditors and uses.
THEOREM PassesAreTrue == Spec => []PassIsTrue
<1>1. IInv => PassIsTrue
  BY DEF IInv
<1> QED BY <1>1, Invariance, PTL

-----------------------------------------------------------------------------
(* The action properties: which steps report, and on what grounds.         *)

\* Only FinishReport reports PASS or FAIL to a reader.
LEMMA ReportsAreFinished ==
  ASSUME IInv, [Next]_vars, NEW p \in Readers, shown'[p] # shown[p], shown'[p].overall # "NOT_RUN"
  PROVE  FinishReport(p)
<1>1. CASE Run
  <2>1. CASE Erase
    <3>1. shown'[p].overall = "NOT_RUN"
      BY <2>1 DEF Erase, NoReport
    <3> QED BY <3>1
  <2>2. CASE ~Erase
    <3>1. shown' = shown
      BY <1>1, <2>2 DEF Run, Controller, Issue, Fence, Probe, Accept, Commit, Complete, FailFinal, Retry
    <3> QED BY <3>1
  <2> QED BY <2>1, <2>2
<1>2. CASE \E q \in Readers : Report(q) \/ ReportFails(q)
  <2>1. PICK q \in Readers : Report(q) \/ ReportFails(q)
    BY <1>2
  <2>2. FinishReport(q)
    BY <2>1 DEF Report, TakeSnapshot, ReportFails
  <2>3. q = p
    BY <2>2 DEF FinishReport, IInv, ControllerOK
  <2> QED BY <2>2, <2>3
<1>3. CASE \E a \in Auditors : Linkability(a)
  BY <1>3 DEF Linkability, StartAudit, PrepareAudit, Compare
<1>4. CASE UNCHANGED vars
  BY <1>4 DEF vars
<1> QED BY <1>1, <1>2, <1>3, <1>4 DEF Next

\* A PASS rests on an audit of that run and exactly those uses (PassWasAudited),
\* however many calls of runLinkability overtake each other.
THEOREM PassesWereAudited == Spec => PassWasAudited
<1> DEFINE A == \A p \in Readers :
                  shown'[p].overall = "PASS" /\ shown'[p] # shown[p] =>
                    /\ audit.compared /\ audit.run = shown'[p].run
                    /\ audit.refs = shown'[p].uses /\ Cardinality(audit.refs) >= 2
<1>1. IInv /\ [Next]_vars => [A]_vars
  <2> SUFFICES ASSUME IInv, [Next]_vars, NEW p \in Readers,
                      shown'[p].overall = "PASS", shown'[p] # shown[p]
               PROVE  /\ audit.compared /\ audit.run = shown'[p].run
                      /\ audit.refs = shown'[p].uses /\ Cardinality(audit.refs) >= 2
    OBVIOUS
  <2> DEFINE s == reader[p]
             overall == Overall(Checks(s, Receipts(s.run), audit))
  <2>1. FinishReport(p)
    BY ReportsAreFinished
  <2>2. /\ s \in ReaderRecords /\ audit \in AuditRecords
        /\ shown'[p] = [run |-> s.run, uses |-> Accepted(s.row), overall |-> overall]
    BY <2>1, ReportStep
  <2>3. overall = "PASS"
    BY <2>2
  <2>4. /\ audit.run = s.run /\ audit.status = "PASS"
        /\ audit.refs = Accepted(s.row) /\ Cardinality(audit.refs) >= 2
    BY <2>2, <2>3, PassSays
  <2>5. audit.compared
    BY <2>4 DEF IInv, AuditInv
  <2> HIDE DEF s, overall
  <2> QED BY <2>2, <2>4, <2>5
<1> QED BY <1>1, Invariance, PTL DEF Spec, PassWasAudited

-----------------------------------------------------------------------------
(* A FAIL has a cause.                                                     *)

\* A retry and a refused attempt have changed nothing: their requests logged
\* no acceptance and no effect.
LEMMA NothingChanged ==
  ASSUME NEW rows, NEW events, LogOf(rows, events), NEW e \in events,
         e.name = "RETRY_MATCHED" \/ e.name \in Rejections
  PROVE  DeltaForTrace(events, e.trace) = <<0, 0>>
<1> DEFINE own == {f \in events : f.trace = e.trace}
<1>1. e.trace[1] \in {"retry", "probe"}
  BY DEF LogOf, Named
<1>2. \A f \in Named(events, "USE_ACCEPTED") : f.trace[1] = "accept"
  <2>1. \A u : AcceptedEvent(u).trace[1] = "accept"
    BY EventFields DEF AcceptedEvent
  <2> QED BY <2>1 DEF LogOf
<1>3. \A f \in Named(events, "EXTERNAL_ACTION_COMMITTED") : f.trace[1] = "worker"
  <2>1. \A u : EffectEvent(u).trace[1] = "worker"
    BY EventFields DEF EffectEvent
  <2> QED BY <2>1 DEF LogOf
<1>4. Named(own, "USE_ACCEPTED") = {} /\ Named(own, "EXTERNAL_ACTION_COMMITTED") = {}
  BY <1>1, <1>2, <1>3 DEF Named
<1> QED BY <1>4, FS_EmptySet DEF DeltaForTrace, Usage, Actions

LEMMA AttemptsDoNotFail ==
  ASSUME NEW s, LogOf(s.row, s.log), NEW actions, NEW attempts \in SUBSET s.log,
         \A e \in attempts : e.name = "RETRY_MATCHED" \/ e.name \in Rejections
  PROVE  /\ Unchanged(s, actions, attempts) # "FAIL"
         /\ attempts # {} /\ ~Unavailable(s, actions) => Unchanged(s, actions, attempts) = "PASS"
<1>1. \A e \in attempts : DeltaForTrace(s.log, e.trace) = <<0, 0>>
  BY NothingChanged
<1> QED BY <1>1 DEF Unchanged, Check

LEMMA BoundDoesNotFail ==
  ASSUME NEW s \in ReaderRecords, LogOf(s.row, s.log)
  PROVE  BoundedUse(s) # "FAIL"
<1> DEFINE n == Cardinality(Accepted(s.row))
           k == Cardinality(Named(s.log, "CREDENTIAL_ISSUED"))
<1>1. n <= L * k /\ L \in Nat
  BY EvidenceAssumption DEF LogOf
<1>2. k = 1 => n <= L
  BY <1>1
<1>3. n \in Nat
  BY UsesFinite DEF ReaderRecords
<1> HIDE DEF n, k
<1>4. ~(k = 1 /\ n > L)
  BY <1>1, <1>2, <1>3
<1> QED BY <1>4 DEF BoundedUse, Check, n, k

\* What a FAIL says of the snapshot, the destination and the audit.
LEMMA FailSays ==
  ASSUME NEW s \in ReaderRecords, LogOf(s.row, s.log), NEW actions, NEW aud \in AuditRecords,
         Overall(Checks(s, actions, aud)) = "FAIL"
  PROVE  \/ SingleExternalEffect(s, actions) = "FAIL"
         \/ aud.run = s.run /\ aud.refs # Accepted(s.row)
<1> DEFINE uses == Accepted(s.row)
           recovered == Succeeded(s.row) \cap actions
           own == aud.run = s.run
           rejected == {e \in s.log : e.name \in Rejections}
<1>1. "FAIL" \in Checks(s, actions, aud)
  BY OverallIs
<1>2. \/ "FAIL" = BoundedUse(s)
      \/ "FAIL" = Check(uses # {}, FALSE)
      \/ "FAIL" = Unchanged(s, actions, Named(s.log, "RETRY_MATCHED"))
      \/ "FAIL" = Unchanged(s, actions, rejected)
      \/ "FAIL" = Unchanged(s, actions, Named(s.log, "OVER_LIMIT_REJECTED"))
      \/ "FAIL" = SingleExternalEffect(s, actions)
      \/ "FAIL" = Check(recovered # {}, FALSE)
      \/ "FAIL" = Check(recovered # {} /\ Succeeded(s.row) \subseteq actions, FALSE)
      \/ "FAIL" = Unlinkability(s, aud)
      \/ "FAIL" = Check(own /\ aud.same # {}, own /\ aud.same # {} /\ aud.refs # uses)
  BY <1>1, Zenon DEF Checks
<1>3. BoundedUse(s) # "FAIL"
  BY BoundDoesNotFail
<1>4. /\ Check(uses # {}, FALSE) # "FAIL" /\ Check(recovered # {}, FALSE) # "FAIL"
      /\ Check(recovered # {} /\ Succeeded(s.row) \subseteq actions, FALSE) # "FAIL"
  BY DEF Check
<1>5. /\ Unchanged(s, actions, Named(s.log, "RETRY_MATCHED")) # "FAIL"
      /\ Unchanged(s, actions, rejected) # "FAIL"
      /\ Unchanged(s, actions, Named(s.log, "OVER_LIMIT_REJECTED")) # "FAIL"
  <2>1. /\ Named(s.log, "RETRY_MATCHED") \in SUBSET s.log /\ rejected \in SUBSET s.log
        /\ Named(s.log, "OVER_LIMIT_REJECTED") \in SUBSET s.log
    BY DEF Named
  <2>2. /\ \A e \in Named(s.log, "RETRY_MATCHED") : e.name = "RETRY_MATCHED"
        /\ \A e \in rejected : e.name \in Rejections
        /\ \A e \in Named(s.log, "OVER_LIMIT_REJECTED") : e.name \in Rejections
    BY DEF Named, Rejections
  <2> HIDE DEF rejected
  <2> QED BY <2>1, <2>2, AttemptsDoNotFail
<1>6. Unlinkability(s, aud) = "FAIL" => own /\ aud.refs # uses
  BY DEF Unlinkability, Check
<1>7. Check(own /\ aud.same # {}, own /\ aud.same # {} /\ aud.refs # uses) = "FAIL" => own /\ aud.refs # uses
  BY DEF Check
<1> QED BY <1>2, <1>3, <1>4, <1>5, <1>6, <1>7

\* A FAIL is due to a reset, an effect that the snapshot denies, or an audit of
\* other uses (FailHasCause), whatever goes on between the reads.
THEOREM FailsHaveACause == Spec => FailHasCause
<1> DEFINE A == \A p \in Readers :
                  shown'[p] # shown[p] /\ shown'[p].overall = "FAIL" =>
                    \/ reader[p].run # run \/ fenced
                    \/ \E u \in action : reader[p].row[u] \in {"NONE", "FAILED"}
                    \/ audit.run = reader[p].run /\ audit.refs # Accepted(reader[p].row)
<1>1. IInv /\ [Next]_vars => [A]_vars
  <2> SUFFICES ASSUME IInv, [Next]_vars, NEW p \in Readers,
                      shown'[p].overall = "FAIL", shown'[p] # shown[p],
                      reader[p].run = run, ~fenced,
                      ~(audit.run = reader[p].run /\ audit.refs # Accepted(reader[p].row))
               PROVE  \E u \in action : reader[p].row[u] \in {"NONE", "FAILED"}
    OBVIOUS
  <2> DEFINE s == reader[p]
             overall == Overall(Checks(s, Receipts(s.run), audit))
  <2>1. FinishReport(p)
    BY ReportsAreFinished
  <2>2. /\ s \in ReaderRecords /\ SnapshotTrue(s) /\ audit \in AuditRecords
        /\ shown'[p] = [run |-> s.run, uses |-> Accepted(s.row), overall |-> overall]
    BY <2>1, ReportStep
  <2>3. Receipts(s.run) = action
    BY DEF Receipts
  <2>4. Overall(Checks(s, action, audit)) = "FAIL"
    BY <2>2, <2>3
  <2>5. SingleExternalEffect(s, action) = "FAIL"
    BY <2>2, <2>4, FailSays DEF SnapshotTrue
  <2> DEFINE uses == Accepted(s.row)
             settled == uses # {} /\ \A u \in uses : s.row[u] # "PENDING"
  <2>6. \/ ~(action \subseteq uses)
        \/ settled /\ \E u \in uses : (s.row[u] = "SUCCEEDED") # (u \in action)
    BY <2>5 DEF SingleExternalEffect, Check
  <2>7. s.row \in UseRows /\ action \subseteq Uses
    BY <2>2 DEF ReaderRecords, IInv, RunOK
  <2>8. CASE ~(action \subseteq uses)
    <3>1. PICK u \in action : u \notin uses
      BY <2>8
    <3>2. s.row[u] = "NONE"
      BY <2>7, <3>1 DEF Accepted
    <3> QED BY <3>1, <3>2
  <2>9. CASE settled /\ \E u \in uses : (s.row[u] = "SUCCEEDED") # (u \in action)
    <3>1. PICK u \in uses : (s.row[u] = "SUCCEEDED") # (u \in action)
      BY <2>9
    <3>2. u \in Uses /\ s.row[u] \in {"SUCCEEDED", "FAILED"}
      BY <2>7, <2>9, <3>1 DEF Accepted, UseRows
    <3>3. s.row[u] = "SUCCEEDED" => u \in action
      <4>1. s.row[u] = "SUCCEEDED" => row[u] = "SUCCEEDED"
        BY <2>2, <3>2 DEF SnapshotTrue, Settled
      <4> QED BY <3>2, <4>1 DEF IInv, LedgerInv, Succeeded
    <3>4. u \in action
      BY <3>1, <3>3
    <3>5. s.row[u] = "FAILED"
      BY <3>1, <3>2, <3>4
    <3> QED BY <3>4, <3>5
  <2> QED BY <2>6, <2>8, <2>9
<1> QED BY <1>1, Invariance, PTL DEF Spec, FailHasCause

-----------------------------------------------------------------------------
(* A complete run passes.                                                  *)

\* The log of a settled run accounts for each use, each effect and each retry.
LEMMA SettledIsAvailable ==
  ASSUME NEW s \in ReaderRecords, LogOf(s.row, s.log), NEW actions, actions = Succeeded(s.row)
  PROVE  ~Unavailable(s, actions)
<1>1. /\ OneEach(Named(s.log, "USE_ACCEPTED"), Accepted(s.row))
      /\ Usage(s.log) = Cardinality(Accepted(s.row))
  <2> DEFINE E == Named(s.log, "USE_ACCEPTED")
             S == Accepted(s.row)
  <2>1. E = {Event("USE_ACCEPTED", u, "accept", 0) : u \in Accepted(s.row)}
    BY DEF LogOf, AcceptedEvent
  <2>2. IsFiniteSet(S)
    BY UsesFinite DEF ReaderRecords
  <2> HIDE DEF E, S
  <2>3. LET F == {Event("USE_ACCEPTED", u, "accept", 0) : u \in S} IN
        Cardinality(F) = Cardinality(S) /\ {e.use : e \in F} = S
    BY <2>2, OneEachUse
  <2> QED BY <2>1, <2>3 DEF OneEach, Usage, E, S
<1>2. /\ OneEach(Named(s.log, "EXTERNAL_ACTION_COMMITTED"), actions)
      /\ Actions(s.log) = Cardinality(actions)
  <2> DEFINE E == Named(s.log, "EXTERNAL_ACTION_COMMITTED")
  <2>1. E = {Event("EXTERNAL_ACTION_COMMITTED", u, "worker", 0) : u \in actions}
    BY DEF LogOf, EffectEvent
  <2>2. IsFiniteSet(actions)
    BY UsesFinite DEF ReaderRecords
  <2> HIDE DEF E
  <2>3. LET F == {Event("EXTERNAL_ACTION_COMMITTED", u, "worker", 0) : u \in actions} IN
        Cardinality(F) = Cardinality(actions) /\ {e.use : e \in F} = actions
    BY <2>2, OneEachUse
  <2> QED BY <2>1, <2>3 DEF OneEach, Actions, E
<1>3. LedgerComplete(s, actions)
  BY <1>1, <1>2 DEF LedgerComplete
<1>4. RetryComplete(s.log)
  <2> SUFFICES ASSUME NEW e \in Named(s.log, "RETRY_MATCHED")
               PROVE  /\ \E f \in Named(s.log, "USE_ACCEPTED") : f.use = e.use
                      /\ \E f \in Named(s.log, "RETRY_RESULT") : f.trace = e.trace /\ f.use = e.use
    BY DEF RetryComplete
  <2>1. AcceptedEvent(e.use) \in Named(s.log, "USE_ACCEPTED") /\ AcceptedEvent(e.use).use = e.use
    BY EventFields DEF LogOf, AcceptedEvent
  <2> QED BY <2>1 DEF LogOf
<1> QED BY <1>3, <1>4 DEF Unavailable

LEMMA CompletePasses ==
  ASSUME NEW s \in ReaderRecords, LogOf(s.row, s.log), NEW aud \in AuditRecords,
         Cardinality(Named(s.log, "CREDENTIAL_ISSUED")) = 1,
         Cardinality(Accepted(s.row)) = L,
         \A u \in Accepted(s.row) : s.row[u] # "PENDING",
         Succeeded(s.row) # {},
         Named(s.log, "RETRY_MATCHED") # {}, Named(s.log, "OVER_LIMIT_REJECTED") # {},
         aud.run = s.run, aud.status = "PASS", aud.same # {},
         aud.refs = Accepted(s.row), Cardinality(aud.refs) >= 2
  PROVE  Overall(Checks(s, Succeeded(s.row), aud)) = "PASS"
<1> DEFINE uses == Accepted(s.row)
           actions == Succeeded(s.row)
           recovered == Succeeded(s.row) \cap actions
           own == aud.run = s.run
           rejected == {e \in s.log : e.name \in Rejections}
<1>1. L \in Nat \ {0}
  BY EvidenceAssumption
<1>2. uses # {} /\ actions \subseteq uses /\ IsFiniteSet(uses)
  BY <1>1, UsesFinite, FS_EmptySet DEF ReaderRecords
<1>3. BoundedUse(s) = "PASS"
  BY <1>1 DEF BoundedUse, Check
<1>4. /\ Check(uses # {}, FALSE) = "PASS" /\ Check(recovered # {}, FALSE) = "PASS"
      /\ Check(recovered # {} /\ Succeeded(s.row) \subseteq actions, FALSE) = "PASS"
  BY <1>2 DEF Check
<1>5. /\ Unchanged(s, actions, Named(s.log, "RETRY_MATCHED")) = "PASS"
      /\ Unchanged(s, actions, rejected) = "PASS"
      /\ Unchanged(s, actions, Named(s.log, "OVER_LIMIT_REJECTED")) = "PASS"
  <2>1. /\ Named(s.log, "RETRY_MATCHED") \in SUBSET s.log /\ rejected \in SUBSET s.log
        /\ Named(s.log, "OVER_LIMIT_REJECTED") \in SUBSET s.log
    BY DEF Named
  <2>2. /\ \A e \in Named(s.log, "RETRY_MATCHED") : e.name = "RETRY_MATCHED"
        /\ \A e \in rejected : e.name \in Rejections
        /\ \A e \in Named(s.log, "OVER_LIMIT_REJECTED") : e.name \in Rejections
    BY DEF Named, Rejections
  <2>3. rejected # {}
    BY DEF Named, Rejections
  <2>4. ~Unavailable(s, actions)
    BY SettledIsAvailable
  <2> HIDE DEF rejected, actions
  <2> QED BY <2>1, <2>2, <2>3, <2>4, AttemptsDoNotFail
<1>6. SingleExternalEffect(s, actions) = "PASS"
  <2> DEFINE settled == uses # {} /\ \A u \in uses : s.row[u] # "PENDING"
             wrong == \/ uses # {} /\ ~(actions \subseteq uses)
                      \/ settled /\ \E u \in uses : (s.row[u] = "SUCCEEDED") # (u \in actions)
  <2>1. \A u \in uses : (s.row[u] = "SUCCEEDED") = (u \in actions)
    BY DEF Accepted, Succeeded
  <2>2. settled /\ ~wrong
    BY <1>2, <2>1
  <2>3. Check(settled, wrong) = "PASS"
    BY <2>2 DEF Check
  <2> QED BY <2>3 DEF SingleExternalEffect
<1>7. Unlinkability(s, aud) = "PASS"
  BY DEF Unlinkability, Check
<1>8. Check(own /\ aud.same # {}, own /\ aud.same # {} /\ aud.refs # uses) = "PASS"
  BY DEF Check
<1>9. Checks(s, actions, aud) =
        {BoundedUse(s),
         Check(uses # {}, FALSE),
         Unchanged(s, actions, Named(s.log, "RETRY_MATCHED")),
         Unchanged(s, actions, rejected),
         Unchanged(s, actions, Named(s.log, "OVER_LIMIT_REJECTED")),
         SingleExternalEffect(s, actions),
         Check(recovered # {}, FALSE),
         Check(recovered # {} /\ Succeeded(s.row) \subseteq actions, FALSE),
         Unlinkability(s, aud),
         Check(own /\ aud.same # {}, own /\ aud.same # {} /\ aud.refs # uses)}
  BY Zenon DEF Checks
<1> HIDE DEF uses, actions, recovered, own, rejected
<1>10. Checks(s, actions, aud) = {"PASS"}
  BY <1>3, <1>4, <1>5, <1>6, <1>7, <1>8, <1>9
<1>11. Overall(Checks(s, actions, aud)) = "PASS"
  BY <1>10, OverallIs
<1> QED BY <1>11 DEF actions

\* A run of which all that is measured has happened is reported PASS
\* (CompleteRunPasses), whatever retries, failures and audits came before.
THEOREM CompleteRunsPass == Spec => CompleteRunPasses
<1> DEFINE A == \A p \in Readers :
                  /\ RunComplete /\ FinishReport(p)
                  /\ reader[p].run = run /\ reader[p].row = row /\ reader[p].log = log
                  => shown'[p].overall = "PASS"
<1>1. IInv /\ [Next]_vars => [A]_vars
  <2> SUFFICES ASSUME IInv, NEW p \in Readers, RunComplete, FinishReport(p),
                      reader[p].run = run, reader[p].row = row, reader[p].log = log
               PROVE  shown'[p].overall = "PASS"
    OBVIOUS
  <2> DEFINE s == reader[p]
             overall == Overall(Checks(s, Receipts(s.run), audit))
  <2>1. /\ s \in ReaderRecords /\ SnapshotTrue(s) /\ audit \in AuditRecords
        /\ shown'[p] = [run |-> s.run, uses |-> Accepted(s.row), overall |-> overall]
    BY ReportStep
  <2>2. action = Succeeded(row)
    BY DEF RunComplete, IInv, LedgerInv, Succeeded, Accepted
  <2>3. Receipts(s.run) = Succeeded(s.row)
    BY <2>2 DEF Receipts
  <2>4. Cardinality(audit.refs) >= 2
    BY DEF RunComplete, IInv, AuditInv
  <2>5. Overall(Checks(s, Succeeded(s.row), audit)) = "PASS"
    BY <2>1, <2>2, <2>4, CompletePasses DEF RunComplete, SnapshotTrue
  <2> HIDE DEF s
  <2> QED BY <2>1, <2>3, <2>5
<1> QED BY <1>1, Invariance, PTL DEF Spec, CompleteRunPasses

=============================================================================
