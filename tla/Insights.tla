------------------------------ MODULE Insights ------------------------------
(***************************************************************************)
(* getInsights: the activity rules over the last minute of the event log,  *)
(* and the commentary of an external model, which costs money: the         *)
(* narrator limits its calls, shares one that is under way and keeps the   *)
(* last one.  The facts change while a call runs, and runs are reset.      *)
(*                                                                         *)
(* Time is counted in units of the clock.  An event has the age that the   *)
(* API's clock gives it, -1 when the clock of the database is ahead.  The  *)
(* summary restates the report, so it is the overall status here.          *)
(***************************************************************************)
EXTENDS Integers, Sequences, FiniteSets, SequencesExt

CONSTANTS
  Traces,    \* requests that leave events
  Logged,    \* the names of events that they leave
  Threshold, \* counter -> count from which it is a signal
  Clients,   \* callers of getInsights
  Window,    \* length of the window of activity
  Cooldown,  \* COOLDOWN_MS
  Hour,      \* HOUR_MS
  MaxCalls,  \* MAX_CALLS_PER_HOUR
  Never,     \* the value of a cache, a call or a commentary there is none of
  MaxTime,   \* bound: the clock
  MaxEvents, \* bound: events in the log of the first run, one fewer in each next one
  MaxRun     \* bound: demo runs

ASSUME InsightsAssumption ==
  /\ IsFiniteSet(Traces)
  /\ {Window, Cooldown, Hour, MaxCalls} \subseteq Nat \ {0}
  /\ MaxRun \in Nat \ {0}
  /\ {MaxTime, MaxEvents} \subseteq Nat

VARIABLES
  time,        \* the API's clock
  run,         \* the active run
  overall,     \* the overall status of its report
  log,         \* its events, in order
  lastAttempt, \* narrator: time of the last call
  attempts,    \* narrator: times of the calls of the last hour
  cached,      \* narrator: the last result
  pending,     \* narrator: the call under way
  open,        \* calls of the provider that have not ended
  client,      \* each getInsights call, and what it was answered
  calls        \* history: the times of all calls

narrator == <<lastAttempt, attempts, cached, pending, open, calls>>
facts == <<time, run, overall, log>>
vars == <<facts, narrator, client>>

-----------------------------------------------------------------------------
(* analyzeActivity                                                         *)

Decisions == {"accepted", "rejected", "conflicts", "retries", "overLimit"}

Decision == [USE_ACCEPTED |-> "accepted", PRESENTATION_REJECTED |-> "rejected",
             NULLIFIER_CONFLICT |-> "conflicts", RETRY_MATCHED |-> "retries",
             OVER_LIMIT_REJECTED |-> "overLimit"]

Priority == [rejected |-> 1, accepted |-> 2, retries |-> 3, conflicts |-> 4, overLimit |-> 5]

\* An event that counts: a decision, in (now - Window, now].
Counts(e) == e.name \in DOMAIN Decision /\ e.age >= 0 /\ e.age < Window

\* Mutant: the last decision of a request counts.
Decide_Last(by, e) ==
  IF Counts(e) THEN [by EXCEPT ![e.trace] = Decision[e.name]] ELSE by

\* The decision of highest priority of each request.
Decide(by, e) ==
  IF Counts(e) /\ (by[e.trace] = "none" \/ Priority[Decision[e.name]] > Priority[by[e.trace]])
  THEN [by EXCEPT ![e.trace] = Decision[e.name]]
  ELSE by

ByRequest(events) == FoldLeft(Decide, [t \in Traces |-> "none"], events)

Counters(events) ==
  LET by == ByRequest(events) IN
  [c \in Decisions \cup {"attempts"} |->
     Cardinality({t \in Traces : IF c = "attempts" THEN by[t] # "none" ELSE by[t] = c})]

Level(n) ==
  IF \E c \in DOMAIN Threshold : n[c] >= Threshold[c] THEN "REVIEW"
  ELSE IF n["attempts"] > 0 THEN "QUIET" ELSE "NO_ACTIVITY"

Keys == [run : 1..MaxRun, overall : {"PASS", "NOT_RUN"},
         counters : [Decisions \cup {"attempts"} -> 0..Cardinality(Traces)]]

\* A call under way is told from none.
ASSUME NeverAssumption == Never \notin [key : Keys, at : 0..MaxTime]

\* What the narrator may tell: the run keeps the keys of two runs apart.
Key == [run |-> run, overall |-> overall, counters |-> Counters(log)]
Eligible(k) == k.overall \in {"PASS", "FAIL"} \/ Level(k.counters) = "REVIEW"

-----------------------------------------------------------------------------
Idle == [pc |-> "idle", key |-> Never, status |-> "DISABLED", of |-> Never]

Init ==
  /\ time = 0 /\ run = 1 /\ overall = "NOT_RUN" /\ log = <<>>
  /\ lastAttempt = -Hour /\ attempts = {}
  /\ cached = Never /\ pending = Never /\ open = 0
  /\ client = [c \in Clients |-> Idle]
  /\ calls = <<>>

(* The system goes on.                                                     *)

Tick ==
  /\ time < MaxTime
  /\ time' = time + 1
  /\ log' = [i \in DOMAIN log |-> [log[i] EXCEPT !.age = IF @ < Window THEN @ + 1 ELSE @]]
  /\ UNCHANGED <<run, overall, narrator, client>>

Log(t, name, age) ==
  /\ Len(log) + run <= MaxEvents
  /\ log' = Append(log, [trace |-> t, name |-> name, age |-> age])
  /\ UNCHANGED <<time, run, overall, narrator, client>>

Conclude ==
  /\ overall = "NOT_RUN"
  /\ overall' = "PASS"
  /\ UNCHANGED <<time, run, log, narrator, client>>

Reset ==
  /\ run < MaxRun
  /\ run' = run + 1 /\ overall' = "NOT_RUN" /\ log' = <<>>
  /\ UNCHANGED <<time, narrator, client>>

-----------------------------------------------------------------------------
(* getInsights and explain: one synchronous step up to the call.           *)

\* The facts of one snapshot; explain is called once the report is finished.
Ask(c) ==
  /\ client[c].pc \in {"idle", "answered"}
  /\ client' = [client EXCEPT ![c] = [Idle EXCEPT !.pc = "asked", !.key = Key]]
  /\ UNCHANGED <<facts, narrator>>

\* A client is answered with a status, and a commentary if it is READY.
Answered(status, of) ==
  [Idle EXCEPT !.pc = "answered", !.status = status, !.of = IF status = "READY" THEN of ELSE Never]

Answer(c, status, of) == client' = [client EXCEPT ![c] = Answered(status, of)]

Fresh(k) ==
  /\ cached # Never /\ cached.key = k
  /\ cached.status = "READY" \/ time - cached.at < Cooldown

\* Mutant: a failed call is forgotten.
Recent_Successes ==
  {at \in attempts : time - at < Hour /\ ~(cached # Never /\ cached.at = at /\ cached.status # "READY")}

Recent == {at \in attempts : time - at < Hour}

Allowed == time - lastAttempt >= Cooldown /\ Cardinality(Recent) < MaxCalls

FromCache(c) ==
  LET k == client[c].key IN
  /\ client[c].pc = "asked" /\ Eligible(k) /\ Fresh(k)
  /\ Answer(c, cached.status, cached.key)
  /\ UNCHANGED <<facts, narrator>>

\* Mutant: whoever asks while a call is under way shares it.
Share_Any(c) ==
  LET k == client[c].key IN
  /\ client[c].pc = "asked" /\ Eligible(k) /\ ~Fresh(k) /\ pending # Never
  /\ client' = [client EXCEPT ![c].pc = "waiting"]
  /\ UNCHANGED <<facts, narrator>>

\* A call under way is shared by those who ask the same.
Share(c) ==
  LET k == client[c].key IN
  /\ client[c].pc = "asked" /\ Eligible(k) /\ ~Fresh(k) /\ pending # Never
  /\ IF pending.key = k THEN client' = [client EXCEPT ![c].pc = "waiting"]
     ELSE Answer(c, "WAITING", Never)
  /\ UNCHANGED <<facts, narrator>>

\* Not eligible, or the budget is spent.
Waiting(c) ==
  LET k == client[c].key IN
  /\ client[c].pc = "asked"
  /\ \/ ~Eligible(k) /\ UNCHANGED attempts
     \/ Eligible(k) /\ ~Fresh(k) /\ pending = Never /\ ~Allowed /\ attempts' = Recent
  /\ Answer(c, "WAITING", Never)
  /\ UNCHANGED <<facts, lastAttempt, cached, pending, open, calls>>

\* Mutant: a call may begin while another one is under way.
Call_Anyway(c) ==
  LET k == client[c].key IN
  /\ client[c].pc = "asked" /\ Eligible(k) /\ ~Fresh(k) /\ Allowed
  /\ lastAttempt' = time /\ attempts' = Recent \cup {time}
  /\ pending' = [key |-> k, at |-> time]
  /\ open' = open + 1 /\ calls' = Append(calls, time)
  /\ client' = [client EXCEPT ![c].pc = "waiting"]
  /\ UNCHANGED <<facts, cached>>

Call(c) ==
  LET k == client[c].key IN
  /\ client[c].pc = "asked" /\ Eligible(k) /\ ~Fresh(k) /\ pending = Never /\ Allowed
  /\ lastAttempt' = time /\ attempts' = Recent \cup {time}
  /\ pending' = [key |-> k, at |-> time]
  /\ open' = open + 1 /\ calls' = Append(calls, time)
  /\ client' = [client EXCEPT ![c].pc = "waiting"]
  /\ UNCHANGED <<facts, cached>>

\* The call ends for all who wait for it.
End(status) ==
  /\ pending # Never
  /\ cached' = [key |-> pending.key, at |-> pending.at, status |-> status]
  /\ pending' = Never /\ open' = open - 1
  /\ client' = [c \in Clients |->
       IF client[c].pc # "waiting" THEN client[c]
       ELSE Answered(status, pending.key)]
  /\ UNCHANGED <<facts, lastAttempt, attempts, calls>>

Respond == End("READY")

\* An error, an answer that is not valid, a refusal.
Refuse == End("UNAVAILABLE")

\* Mutant: the call is not raced against a timer.
Timeout_Never == FALSE /\ UNCHANGED vars

Timeout == End("UNAVAILABLE")

-----------------------------------------------------------------------------
Explain(c) == FromCache(c) \/ Share(c) \/ Waiting(c) \/ Call(c)

Next ==
  \/ Tick \/ Conclude \/ Reset
  \/ \E t \in Traces, name \in Logged, age \in {-1, 0} : Log(t, name, age)
  \/ \E c \in Clients : Ask(c) \/ Explain(c)
  \/ Respond \/ Refuse \/ Timeout

Spec == Init /\ [][Next]_vars

\* The event loop goes on and the timer fires; the provider need not answer.
FairSpec == Spec /\ WF_vars(Timeout) /\ \A c \in Clients : WF_vars(Explain(c))

-----------------------------------------------------------------------------
\* Type correctness.
TypeOK ==
  /\ time \in 0..MaxTime /\ run \in 1..MaxRun /\ overall \in {"PASS", "NOT_RUN"}
  /\ log \in Seq([trace : Traces, name : Logged, age : -1..Window])
  /\ lastAttempt \in {-Hour} \cup 0..MaxTime /\ attempts \subseteq 0..MaxTime
  /\ cached # Never => cached.key \in Keys /\ cached.status \in {"READY", "UNAVAILABLE"}
  /\ pending # Never => pending.key \in Keys /\ pending.at \in 0..time
  /\ open \in Nat /\ calls \in Seq(0..MaxTime)
  /\ \A c \in Clients :
       /\ client[c].pc \in {"idle", "asked", "waiting", "answered"}
       /\ client[c].key \in Keys \cup {Never} /\ client[c].of \in Keys \cup {Never}
       /\ client[c].status \in {"DISABLED", "WAITING", "READY", "UNAVAILABLE"}

\* One call of the provider at a time, whoever asks for what meanwhile.
OneCall == open <= 1

\* The budget, failures included: calls are a cooldown apart, and no hour has
\* more than MaxCalls of them, wherever the hour begins.
WithinBudget ==
  \A i, j \in DOMAIN calls : i < j =>
    /\ calls[j] - calls[i] >= Cooldown
    /\ j - i >= MaxCalls => calls[j] - calls[i] >= Hour

\* A commentary is of the facts that were asked about: of that run, of that
\* status and of those counters, whether it is new, shared or kept.
CommentaryIsOfFacts ==
  [][\A c \in Clients :
       client[c].pc # "answered" /\ client'[c].status = "READY" =>
         client'[c].of = client[c].key]_vars

\* The counters are disjoint and add up to the attempts, and a request that met
\* the limit in the window is no generic rejection, in whichever order its two
\* events were logged.
CountersAreDisjoint ==
  LET n == Counters(log) IN
  /\ n["attempts"] = n["accepted"] + n["rejected"] + n["conflicts"] + n["retries"] + n["overLimit"]
  /\ n["overLimit"] = Cardinality({t \in Traces :
       \E i \in DOMAIN log : log[i].trace = t /\ log[i].name = "OVER_LIMIT_REJECTED" /\ Counts(log[i])})

\* Every caller is answered, whatever the provider does.
AsksAreAnswered == \A c \in Clients : (client[c].pc = "asked") ~> (client[c].pc = "answered")
=============================================================================
