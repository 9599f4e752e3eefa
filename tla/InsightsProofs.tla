--------------------------- MODULE InsightsProofs ---------------------------
(***************************************************************************)
(* Proofs about Insights, for any requests, clients and thresholds, and    *)
(* any lengths of the window, the cooldown and the hour.                   *)
(***************************************************************************)
EXTENDS Insights, TLAPS, FiniteSetTheorems, SequenceTheorems, WellFoundedInduction

Ages == -1..Window
Events == [trace : Traces, name : Logged, age : Ages]
Statuses == {"DISABLED", "WAITING", "READY", "UNAVAILABLE"}
ClientRecords == [pc : {"idle", "asked", "waiting", "answered"}, key : Keys \cup {Never},
                  status : Statuses, of : Keys \cup {Never}]
PendingCalls == [key : Keys, at : 0..MaxTime]
Results == [key : Keys, at : 0..MaxTime, status : {"READY", "UNAVAILABLE"}]

-----------------------------------------------------------------------------
(* Type correctness.                                                       *)

FactsOK ==
  /\ time \in 0..MaxTime /\ run \in 1..MaxRun /\ overall \in {"PASS", "NOT_RUN"}
  /\ log \in Seq(Events)

NarratorOK ==
  /\ lastAttempt \in {-Hour} \cup 0..MaxTime /\ attempts \subseteq 0..MaxTime
  /\ cached \in Results \cup {Never}
  /\ pending \in PendingCalls \cup {Never} /\ (pending # Never => pending.at <= time)
  /\ open = IF pending = Never THEN 0 ELSE 1
  /\ calls \in Seq(0..MaxTime)

ShapeOK == FactsOK /\ NarratorOK /\ client \in [Clients -> ClientRecords]

LEMMA ShapeIsType == ShapeOK => TypeOK
<1> SUFFICES ASSUME ShapeOK PROVE TypeOK
  OBVIOUS
<1>1. FactsOK /\ NarratorOK /\ client \in [Clients -> ClientRecords]
  BY DEF ShapeOK
<1>2. cached # Never => cached.key \in Keys /\ cached.status \in {"READY", "UNAVAILABLE"}
  BY <1>1 DEF NarratorOK, Results
<1>3. pending # Never => pending.key \in Keys /\ pending.at \in 0..time
  BY <1>1 DEF NarratorOK, PendingCalls
<1>4. \A c \in Clients :
       /\ client[c].pc \in {"idle", "asked", "waiting", "answered"}
       /\ client[c].key \in Keys \cup {Never} /\ client[c].of \in Keys \cup {Never}
       /\ client[c].status \in {"DISABLED", "WAITING", "READY", "UNAVAILABLE"}
  BY <1>1 DEF ClientRecords, Statuses
<1>5. log \in Seq([trace : Traces, name : Logged, age : -1..Window])
  BY <1>1 DEF FactsOK, Events, Ages
<1>6. open \in Nat
  BY <1>1 DEF NarratorOK
<1> QED
  BY <1>1, <1>2, <1>3, <1>4, <1>5, <1>6 DEF TypeOK, FactsOK, NarratorOK

LEMMA KeyIsKey == FactsOK => Key \in Keys
<1> SUFFICES ASSUME FactsOK PROVE Key \in Keys
  OBVIOUS
<1>1. \A S \in SUBSET Traces : Cardinality(S) \in 0..Cardinality(Traces)
  BY InsightsAssumption, FS_Subset, FS_CardinalityType
<1>2. \A events : Counters(events) \in [Decisions \cup {"attempts"} -> 0..Cardinality(Traces)]
  BY <1>1 DEF Counters
<1> QED
  BY <1>2 DEF Key, Keys, FactsOK

LEMMA AnsweredIsRecord ==
  ASSUME NEW status \in Statuses, NEW of, status = "READY" => of \in Keys
  PROVE  /\ Answered(status, of) \in ClientRecords /\ Answered(status, of).pc = "answered"
         /\ Answered(status, of).status = status
         /\ status = "READY" => Answered(status, of).of = of
BY DEF Answered, Idle, ClientRecords, Statuses

LEMMA InitShape == Init => ShapeOK
<1> SUFFICES ASSUME Init PROVE ShapeOK
  OBVIOUS
<1>1. FactsOK
  BY InsightsAssumption, EmptySeq DEF Init, FactsOK
<1>2. NarratorOK
  BY InsightsAssumption, EmptySeq DEF Init, NarratorOK
<1>3. Idle \in ClientRecords
  BY DEF Idle, ClientRecords, Statuses
<1> QED
  BY <1>1, <1>2, <1>3 DEF Init, ShapeOK

-----------------------------------------------------------------------------
(* The facts change.                                                       *)

LEMMA TickShape == ASSUME ShapeOK, Tick PROVE ShapeOK'
<1>1. DOMAIN log = 1..Len(log) /\ Len(log) \in Nat /\ \A i \in DOMAIN log : log[i] \in Events
  BY LenProperties, ElementOfSeq DEF ShapeOK, FactsOK
<1>2. \A i \in DOMAIN log : [log[i] EXCEPT !.age = IF @ < Window THEN @ + 1 ELSE @] \in Events
  BY <1>1, InsightsAssumption DEF Events, Ages
<1>3. log' \in [1..Len(log) -> Events]
  BY <1>1, <1>2 DEF Tick
<1>4. log' \in Seq(Events)
  BY <1>1, <1>3, SeqDef
<1>5. time' \in 0..MaxTime /\ time <= time' /\ time \in Nat
  BY InsightsAssumption DEF Tick, ShapeOK, FactsOK
<1>6. FactsOK'
  BY <1>4, <1>5 DEF Tick, ShapeOK, FactsOK
<1>7. pending # Never => pending.at <= time'
  BY <1>5 DEF ShapeOK, NarratorOK, PendingCalls
<1>8. NarratorOK'
  BY <1>7 DEF Tick, narrator, ShapeOK, NarratorOK
<1> QED
  BY <1>6, <1>8 DEF Tick, ShapeOK

LEMMA FactsShape ==
  ASSUME ShapeOK, Conclude \/ Reset \/ \E t \in Traces, name \in Logged, age \in {-1, 0} : Log(t, name, age)
  PROVE  ShapeOK'
<1>1. UNCHANGED <<time, narrator, client>>
  BY DEF Conclude, Reset, Log
<1>2. CASE Conclude
  BY <1>2 DEF Conclude, ShapeOK, FactsOK, NarratorOK, narrator
<1>3. CASE Reset
  <2>1. run' \in 1..MaxRun /\ log' \in Seq(Events) /\ overall' = "NOT_RUN"
    BY <1>3, EmptySeq, InsightsAssumption DEF Reset, ShapeOK, FactsOK
  <2> QED
    BY <1>1, <2>1 DEF ShapeOK, FactsOK, NarratorOK, narrator
<1>4. CASE \E t \in Traces, name \in Logged, age \in {-1, 0} : Log(t, name, age)
  <2>1. PICK t \in Traces, name \in Logged, age \in {-1, 0} : Log(t, name, age)
    BY <1>4
  <2>2. [trace |-> t, name |-> name, age |-> age] \in Events
    BY InsightsAssumption DEF Events, Ages
  <2>3. log' \in Seq(Events)
    BY <2>1, <2>2, AppendProperties DEF Log, ShapeOK, FactsOK
  <2> QED
    BY <1>1, <2>1, <2>3 DEF Log, ShapeOK, FactsOK, NarratorOK, narrator
<1> QED
  BY <1>2, <1>3, <1>4

-----------------------------------------------------------------------------
(* The narrator.                                                           *)

LEMMA AskShape == ASSUME ShapeOK, NEW c \in Clients, Ask(c) PROVE ShapeOK'
<1>1. Key \in Keys
  BY KeyIsKey DEF ShapeOK
<1>2. [Idle EXCEPT !.pc = "asked", !.key = Key] \in ClientRecords
  BY <1>1 DEF Idle, ClientRecords, Statuses
<1>3. client' \in [Clients -> ClientRecords]
  BY <1>2 DEF Ask, ShapeOK
<1> QED
  BY <1>3 DEF Ask, ShapeOK, FactsOK, NarratorOK, facts, narrator

LEMMA WaitsIsRecord ==
  ASSUME client \in [Clients -> ClientRecords], NEW c \in Clients,
         client' = [client EXCEPT ![c].pc = "waiting"]
  PROVE  /\ client' \in [Clients -> ClientRecords]
         /\ client'[c].pc = "waiting" /\ client'[c].key = client[c].key /\ client'[c].status = client[c].status
         /\ \A d \in Clients \ {c} : client'[d] = client[d]
<1>1. [client[c] EXCEPT !.pc = "waiting"] \in ClientRecords
  BY DEF ClientRecords
<1>2. client'[c] = [client[c] EXCEPT !.pc = "waiting"] /\ \A d \in Clients \ {c} : client'[d] = client[d]
  OBVIOUS
<1> QED
  BY <1>1, <1>2 DEF ClientRecords

LEMMA FromCacheShape == ASSUME ShapeOK, NEW c \in Clients, FromCache(c) PROVE ShapeOK'
<1>1. cached.status \in Statuses /\ cached.key \in Keys
  BY DEF FromCache, Fresh, ShapeOK, NarratorOK, Results, Statuses
<1>2. client' \in [Clients -> ClientRecords]
  BY <1>1, AnsweredIsRecord DEF FromCache, Answer, ShapeOK
<1> QED
  BY <1>2 DEF FromCache, ShapeOK, FactsOK, NarratorOK, facts, narrator

LEMMA ShareShape == ASSUME ShapeOK, NEW c \in Clients, Share(c) PROVE ShapeOK'
<1>1. client' \in [Clients -> ClientRecords]
  <2>1. CASE pending.key = client[c].key
    BY <2>1, WaitsIsRecord DEF Share, ShapeOK
  <2>2. CASE pending.key # client[c].key
    BY <2>2, AnsweredIsRecord DEF Share, Answer, ShapeOK, Statuses
  <2> QED
    BY <2>1, <2>2
<1> QED
  BY <1>1 DEF Share, ShapeOK, FactsOK, NarratorOK, facts, narrator

LEMMA WaitingShape == ASSUME ShapeOK, NEW c \in Clients, Waiting(c) PROVE ShapeOK'
<1>1. client' \in [Clients -> ClientRecords]
  BY AnsweredIsRecord DEF Waiting, Answer, ShapeOK, Statuses
<1>2. attempts' \subseteq attempts
  BY DEF Waiting, Recent
<1>3. NarratorOK'
  BY <1>2 DEF Waiting, ShapeOK, NarratorOK, facts
<1> QED
  BY <1>1, <1>3 DEF Waiting, ShapeOK, FactsOK, facts

LEMMA CallShape ==
  ASSUME ShapeOK, NEW c \in Clients, client[c].key \in Keys, Call(c)
  PROVE  ShapeOK' /\ pending' # Never /\ pending'.key = client[c].key
<1>1. client' \in [Clients -> ClientRecords]
  BY WaitsIsRecord DEF Call, ShapeOK
<1>2. time \in 0..MaxTime /\ attempts' \subseteq 0..MaxTime
  BY DEF Call, Recent, ShapeOK, FactsOK, NarratorOK
<1>3. pending' \in PendingCalls /\ pending'.at = time /\ pending'.key = client[c].key /\ pending' # Never
  BY <1>2, NeverAssumption DEF Call, PendingCalls
<1>4. open' = 1
  BY DEF Call, ShapeOK, NarratorOK
<1>5. calls' \in Seq(0..MaxTime)
  BY <1>2, AppendProperties DEF Call, ShapeOK, NarratorOK
<1>6. FactsOK'
  BY DEF Call, facts, ShapeOK, FactsOK
<1>7. pending'.at <= time'
  BY <1>2, <1>3 DEF Call, facts
<1>8. NarratorOK'
  BY <1>2, <1>3, <1>4, <1>5, <1>7 DEF Call, facts, ShapeOK, NarratorOK
<1> QED
  BY <1>1, <1>3, <1>6, <1>8 DEF ShapeOK

LEMMA EndShape == ASSUME ShapeOK, NEW status \in {"READY", "UNAVAILABLE"}, End(status) PROVE ShapeOK'
<1>1. pending \in PendingCalls /\ pending.key \in Keys /\ pending.at \in 0..MaxTime
  BY DEF End, ShapeOK, NarratorOK, PendingCalls
<1>2. Answered(status, pending.key) \in ClientRecords
  BY <1>1, AnsweredIsRecord DEF Statuses
<1>3. client' \in [Clients -> ClientRecords]
  BY <1>2 DEF End, ShapeOK
<1>4. cached' \in Results
  BY <1>1 DEF End, Results
<1>5. pending' = Never /\ open' = 0
  BY DEF End, ShapeOK, NarratorOK
<1>6. NarratorOK'
  BY <1>4, <1>5 DEF End, ShapeOK, NarratorOK
<1> QED
  BY <1>3, <1>6 DEF End, ShapeOK, FactsOK, facts

-----------------------------------------------------------------------------
(* A client that waits shares the call under way, and asked for its facts. *)

AskInv ==
  \A c \in Clients :
    /\ client[c].pc \in {"asked", "waiting"} => client[c].key \in Keys
    /\ client[c].status = "READY" => client[c].pc = "answered"
    /\ client[c].pc = "waiting" => pending # Never /\ pending.key = client[c].key

Narrations == (\E c \in Clients : Ask(c) \/ Explain(c)) \/ Respond \/ Refuse \/ Timeout
Others == Tick \/ Conclude \/ Reset \/ \E t \in Traces, name \in Logged, age \in {-1, 0} : Log(t, name, age)

LEMMA NextShape == ASSUME ShapeOK, AskInv, [Next]_vars PROVE ShapeOK'
<1>1. CASE Others
  BY <1>1, TickShape, FactsShape DEF Others
<1>2. ASSUME NEW c \in Clients, Ask(c) \/ Explain(c) PROVE ShapeOK'
  <2>1. CASE Call(c)
    <3>1. client[c].key \in Keys
      BY <2>1 DEF Call, AskInv
    <3> QED
      BY <2>1, <3>1, CallShape
  <2> QED
    BY <1>2, <2>1, AskShape, FromCacheShape, ShareShape, WaitingShape DEF Explain
<1>3. CASE Respond \/ Refuse \/ Timeout
  BY <1>3, EndShape DEF Respond, Refuse, Timeout
<1>4. CASE UNCHANGED vars
  BY <1>4 DEF vars, facts, narrator, ShapeOK, FactsOK, NarratorOK
<1> QED
  BY <1>1, <1>2, <1>3, <1>4 DEF Next, Others

\* One client is answered, or begins to wait.
LEMMA OneClient ==
  ASSUME ShapeOK, AskInv, NEW c \in Clients, Ask(c) \/ FromCache(c) \/ Share(c) \/ Waiting(c) \/ Call(c)
  PROVE  /\ \A d \in Clients \ {c} : client'[d] = client[d]
         /\ client'[c].pc \in {"asked", "waiting"} => client'[c].key \in Keys
         /\ client'[c].status = "READY" => client'[c].pc = "answered" /\ client'[c].of = client[c].key
         /\ client'[c].pc = "waiting" => pending' # Never /\ pending'.key = client'[c].key
<1>1. client \in [Clients -> ClientRecords]
  BY DEF ShapeOK
<1>2. CASE Ask(c)
  <2>1. client'[c] = [Idle EXCEPT !.pc = "asked", !.key = Key] /\ \A d \in Clients \ {c} : client'[d] = client[d]
    BY <1>1, <1>2 DEF Ask
  <2>2. client'[c].pc = "asked" /\ client'[c].key = Key /\ client'[c].status = "DISABLED"
    BY <2>1 DEF Idle
  <2> QED
    BY <2>1, <2>2, KeyIsKey DEF ShapeOK
<1>3. CASE FromCache(c)
  <2>1. cached.status \in Statuses /\ cached.key = client[c].key /\ cached.key \in Keys
    BY <1>3 DEF FromCache, Fresh, ShapeOK, NarratorOK, Results, Statuses
  <2>2. client'[c] = Answered(cached.status, cached.key) /\ \A d \in Clients \ {c} : client'[d] = client[d]
    BY <1>1, <1>3 DEF FromCache, Answer
  <2> QED
    BY <2>1, <2>2, AnsweredIsRecord
<1>4. CASE Share(c)
  <2>1. CASE pending.key = client[c].key
    <3>1. /\ client'[c].pc = "waiting" /\ client'[c].key = client[c].key /\ client'[c].status = client[c].status
          /\ \A d \in Clients \ {c} : client'[d] = client[d]
      BY <1>1, <1>4, <2>1, WaitsIsRecord DEF Share
    <3>2. pending' = pending /\ pending # Never /\ client[c].pc = "asked"
      BY <1>4 DEF Share, narrator
    <3> QED
      BY <2>1, <3>1, <3>2 DEF AskInv
  <2>2. CASE pending.key # client[c].key
    <3>1. client'[c] = Answered("WAITING", Never) /\ \A d \in Clients \ {c} : client'[d] = client[d]
      BY <1>1, <1>4, <2>2 DEF Share, Answer
    <3> QED
      BY <3>1, AnsweredIsRecord DEF Statuses
  <2> QED
    BY <2>1, <2>2
<1>5. CASE Waiting(c)
  <2>1. client'[c] = Answered("WAITING", Never) /\ \A d \in Clients \ {c} : client'[d] = client[d]
    BY <1>1, <1>5 DEF Waiting, Answer
  <2> QED
    BY <2>1, AnsweredIsRecord DEF Statuses
<1>6. CASE Call(c)
  <2>1. /\ client'[c].pc = "waiting" /\ client'[c].key = client[c].key /\ client'[c].status = client[c].status
        /\ \A d \in Clients \ {c} : client'[d] = client[d]
    BY <1>1, <1>6, WaitsIsRecord DEF Call
  <2>2. client[c].pc = "asked" /\ client[c].key \in Keys /\ client[c].status # "READY"
    BY <1>6 DEF Call, AskInv
  <2>3. pending' # Never /\ pending'.key = client[c].key
    BY <1>6, <2>2, CallShape
  <2> QED
    BY <2>1, <2>2, <2>3
<1> QED
  BY <1>2, <1>3, <1>4, <1>5, <1>6

\* The call ends: who waited is answered, with the commentary that was asked for.
LEMMA AllClients ==
  ASSUME ShapeOK, AskInv, NEW status \in {"READY", "UNAVAILABLE"}, End(status)
  PROVE  \A c \in Clients :
           \/ client'[c] = client[c] /\ client[c].pc # "waiting"
           \/ /\ client'[c].pc = "answered"
              /\ client'[c].status = "READY" => client'[c].of = client[c].key
<1> SUFFICES ASSUME NEW c \in Clients
             PROVE  \/ client'[c] = client[c] /\ client[c].pc # "waiting"
                    \/ /\ client'[c].pc = "answered"
                       /\ client'[c].status = "READY" => client'[c].of = client[c].key
  OBVIOUS
<1>1. CASE client[c].pc # "waiting"
  BY <1>1 DEF End
<1>2. CASE client[c].pc = "waiting"
  <2>1. client'[c] = Answered(status, pending.key) /\ pending.key = client[c].key /\ pending.key \in Keys
    BY <1>2 DEF End, AskInv
  <2> QED
    BY <2>1, AnsweredIsRecord DEF Statuses
<1> QED
  BY <1>1, <1>2

LEMMA NextAsk == ASSUME ShapeOK, AskInv, [Next]_vars PROVE AskInv'
<1>1. CASE UNCHANGED <<client, pending>>
  BY <1>1 DEF AskInv
<1>2. ASSUME NEW c \in Clients, Ask(c) \/ Explain(c) PROVE AskInv'
  <2>1. /\ \A d \in Clients \ {c} : client'[d] = client[d]
        /\ client'[c].pc \in {"asked", "waiting"} => client'[c].key \in Keys
        /\ client'[c].status = "READY" => client'[c].pc = "answered"
        /\ client'[c].pc = "waiting" => pending' # Never /\ pending'.key = client'[c].key
    BY <1>2, OneClient DEF Explain
  <2>2. pending' = pending \/ pending = Never
    BY <1>2 DEF Ask, Explain, FromCache, Share, Waiting, Call, narrator
  <2> QED
    BY <2>1, <2>2 DEF AskInv
<1>3. CASE Respond \/ Refuse \/ Timeout
  <2>1. PICK status \in {"READY", "UNAVAILABLE"} : End(status)
    BY <1>3 DEF Respond, Refuse, Timeout
  <2> QED
    BY <2>1, AllClients DEF AskInv
<1>4. Narrations \/ UNCHANGED <<client, pending>>
  BY DEF Narrations, Next, Tick, Conclude, Reset, Log, narrator, vars
<1> QED
  BY <1>1, <1>2, <1>3, <1>4 DEF Narrations

LEMMA InitAsk == Init => AskInv
BY DEF Init, AskInv, Idle

LEMMA AskInvariance == Spec => [](ShapeOK /\ AskInv)
<1>1. Init => ShapeOK /\ AskInv
  BY InitShape, InitAsk
<1>2. ShapeOK /\ AskInv /\ [Next]_vars => ShapeOK' /\ AskInv'
  BY NextShape, NextAsk
<1> QED
  BY <1>1, <1>2, PTL DEF Spec

\* Every variable keeps its type.
THEOREM TypeCorrect == Spec => []TypeOK
BY AskInvariance, ShapeIsType, PTL

\* However many clients ask for different facts, one call is under way at a time.
THEOREM OneCallAtATime == Spec => []OneCall
<1>1. ShapeOK => OneCall
  BY DEF ShapeOK, NarratorOK, OneCall
<1> QED
  BY <1>1, AskInvariance, PTL

\* A client that is given a commentary is given that of the facts it asked about.
THEOREM CommentaryMatches == Spec => CommentaryIsOfFacts
<1> DEFINE A == \A c \in Clients :
                  client[c].pc # "answered" /\ client'[c].status = "READY" => client'[c].of = client[c].key
<1>1. ASSUME ShapeOK, AskInv, [Next]_vars PROVE [A]_vars
  <2>1. CASE UNCHANGED client
    BY <1>1, <2>1 DEF AskInv
  <2>2. ASSUME NEW c \in Clients, Ask(c) \/ Explain(c) PROVE A
    BY <1>1, <2>2, OneClient DEF Explain, AskInv
  <2>3. CASE Respond \/ Refuse \/ Timeout
    <3>1. PICK status \in {"READY", "UNAVAILABLE"} : End(status)
      BY <2>3 DEF Respond, Refuse, Timeout
    <3> QED
      BY <1>1, <3>1, AllClients DEF AskInv
  <2>4. Narrations \/ UNCHANGED client
    BY <1>1 DEF Narrations, Next, Tick, Conclude, Reset, Log, vars
  <2> QED
    BY <2>1, <2>2, <2>3, <2>4 DEF Narrations
<1> QED
  BY <1>1, AskInvariance, PTL DEF Spec, CommentaryIsOfFacts

-----------------------------------------------------------------------------
(* The budget.  What is pruned from the list of attempts is an hour old,   *)
(* so the list still has every call of the last hour, each under a time of *)
(* its own; a call that MaxCalls others precede within the hour would find *)
(* them all in the list.                                                   *)

BudgetInv ==
  /\ \A i \in DOMAIN calls : calls[i] <= lastAttempt
  /\ lastAttempt <= time
  /\ \A i \in DOMAIN calls : time - calls[i] < Hour => calls[i] \in attempts
  /\ WithinBudget

LEMMA CallsAreNumbers ==
  ASSUME ShapeOK
  PROVE  /\ Len(calls) \in Nat /\ DOMAIN calls = 1..Len(calls) /\ \A i \in DOMAIN calls : calls[i] \in Nat
         /\ time \in Nat /\ lastAttempt \in Int
         /\ IsFiniteSet(Recent) /\ Cardinality(Recent) \in Nat
<1>1. Len(calls) \in Nat /\ DOMAIN calls = 1..Len(calls) /\ \A i \in DOMAIN calls : calls[i] \in 0..MaxTime
  BY LenProperties, ElementOfSeq DEF ShapeOK, NarratorOK
<1>2. Recent \in SUBSET (0..MaxTime) /\ IsFiniteSet(0..MaxTime)
  <2>1. 0 \in Int /\ MaxTime \in Int
    BY InsightsAssumption
  <2>2. IsFiniteSet(0..MaxTime)
    BY <2>1, FS_Interval
  <2> QED
    BY <2>2 DEF Recent, ShapeOK, NarratorOK
<1>3. IsFiniteSet(Recent) /\ Cardinality(Recent) \in Nat
  BY <1>2, FS_Subset, FS_CardinalityType
<1> QED
  BY <1>1, <1>3, InsightsAssumption DEF ShapeOK, FactsOK, NarratorOK

\* Calls at different times, all of the last hour, are no more than the list has.
LEMMA RecentCallsFit ==
  ASSUME ShapeOK, BudgetInv, NEW i \in DOMAIN calls, time - calls[i] < Hour
  PROVE  Len(calls) - i < Cardinality(Recent)
<1> DEFINE n == Len(calls)
<1>1. /\ n \in Nat /\ DOMAIN calls = 1..n /\ \A k \in 1..n : calls[k] \in Nat
      /\ time \in Nat /\ IsFiniteSet(Recent) /\ Cardinality(Recent) \in Nat
  BY CallsAreNumbers
<1>2. {Cooldown, Hour} \subseteq Nat \ {0}
  BY InsightsAssumption
<1>3. \A j, k \in i..n : j < k => calls[k] > calls[j]
  <2> SUFFICES ASSUME NEW j \in i..n, NEW k \in i..n, j < k PROVE calls[k] > calls[j]
    OBVIOUS
  <2>1. j \in 1..n /\ k \in 1..n /\ calls[j] \in Nat /\ calls[k] \in Nat
    BY <1>1
  <2>2. calls[k] - calls[j] >= Cooldown
    BY <1>1, <2>1 DEF BudgetInv, WithinBudget
  <2> QED
    BY <1>2, <2>1, <2>2
<1>4. \A k \in i..n : calls[k] \in Recent
  <2> SUFFICES ASSUME NEW k \in i..n PROVE calls[k] \in Recent
    OBVIOUS
  <2>1. k \in 1..n /\ calls[k] >= calls[i]
    <3>1. CASE k = i
      BY <1>1, <3>1
    <3>2. CASE k # i
      BY <1>1, <1>3, <3>2
    <3> QED
      BY <3>1, <3>2
  <2>2. time - calls[k] < Hour
    BY <1>1, <1>2, <2>1
  <2> QED
    BY <1>1, <2>1, <2>2 DEF BudgetInv, Recent
<1> DEFINE f == [k \in i..n |-> calls[k]]
<1>5. f \in [i..n -> Recent]
  BY <1>4
<1>6. IsFiniteSet(i..n) /\ Cardinality(i..n) = n - i + 1
  BY <1>1, FS_Interval
<1>7. ASSUME Cardinality(Recent) < n - i + 1 PROVE FALSE
  <2>1. \E j, k \in i..n : j # k /\ f[j] = f[k]
    <3> HIDE DEF f, n
    <3> QED
      BY <1>1, <1>5, <1>6, <1>7, FS_PigeonHole
  <2>2. PICK j \in i..n, k \in i..n : j # k /\ calls[j] = calls[k]
    BY <2>1
  <2>3. j < k \/ k < j
    BY <1>1, <2>2
  <2> QED
    BY <1>1, <1>3, <2>2, <2>3
<1> QED
  BY <1>1, <1>7

LEMMA CallBudget == ASSUME ShapeOK, BudgetInv, NEW c \in Clients, Call(c) PROVE BudgetInv'
<1> DEFINE n == Len(calls)
<1>1. /\ n \in Nat /\ DOMAIN calls = 1..n /\ \A k \in 1..n : calls[k] \in Nat
      /\ time \in Nat /\ lastAttempt \in Int /\ Cardinality(Recent) \in Nat
  BY CallsAreNumbers
<1>2. {Cooldown, Hour, MaxCalls} \subseteq Nat \ {0}
  BY InsightsAssumption
<1>3. /\ time - lastAttempt >= Cooldown /\ Cardinality(Recent) < MaxCalls
      /\ lastAttempt' = time /\ attempts' = Recent \cup {time} /\ time' = time
  BY DEF Call, Allowed, facts
<1>4. /\ Len(calls') = n + 1 /\ DOMAIN calls' = 1..(n + 1)
      /\ \A k \in 1..n : calls'[k] = calls[k]
      /\ calls'[n + 1] = time
  <2>1. calls \in Seq(0..MaxTime) /\ time \in 0..MaxTime /\ calls' = Append(calls, time)
    BY DEF Call, ShapeOK, FactsOK, NarratorOK
  <2>2. calls' \in Seq(0..MaxTime)
    BY <2>1, AppendProperties
  <2> QED
    BY <1>1, <2>1, <2>2, AppendProperties, LenProperties
<1>5. \A k \in 1..n : time - calls[k] >= Cooldown
  BY <1>1, <1>2, <1>3 DEF BudgetInv
<1>6. \A k \in 1..n : n + 1 - k >= MaxCalls => time - calls[k] >= Hour
  <2> SUFFICES ASSUME NEW k \in 1..n, n + 1 - k >= MaxCalls, time - calls[k] < Hour PROVE FALSE
    BY <1>1, <1>2
  <2>1. n - k < Cardinality(Recent)
    BY <1>1, RecentCallsFit
  <2> QED
    BY <1>1, <1>2, <1>3, <2>1
<1>7. WithinBudget'
  <2> SUFFICES ASSUME NEW i \in 1..(n + 1), NEW j \in 1..(n + 1), i < j
               PROVE  /\ calls'[j] - calls'[i] >= Cooldown
                      /\ j - i >= MaxCalls => calls'[j] - calls'[i] >= Hour
    BY <1>4 DEF WithinBudget
  <2>1. CASE j = n + 1
    BY <1>1, <1>4, <1>5, <1>6, <2>1
  <2>2. CASE j # n + 1
    <3>1. i \in 1..n /\ j \in 1..n
      BY <1>1, <2>2
    <3> QED
      BY <1>1, <1>4, <3>1 DEF BudgetInv, WithinBudget
  <2> QED
    BY <2>1, <2>2
<1>8. \A k \in 1..(n + 1) : /\ calls'[k] <= lastAttempt'
                            /\ time' - calls'[k] < Hour => calls'[k] \in attempts'
  <2> SUFFICES ASSUME NEW k \in 1..(n + 1)
               PROVE  /\ calls'[k] <= lastAttempt'
                      /\ time' - calls'[k] < Hour => calls'[k] \in attempts'
    OBVIOUS
  <2>1. CASE k = n + 1
    BY <1>1, <1>3, <1>4, <2>1
  <2>2. CASE k # n + 1
    <3>1. k \in 1..n /\ calls'[k] = calls[k] /\ calls[k] \in Nat
      BY <1>1, <1>4, <2>2
    <3>2. calls[k] <= lastAttempt /\ lastAttempt <= time
      BY <1>1, <3>1 DEF BudgetInv
    <3>3. time - calls[k] < Hour => calls[k] \in Recent
      BY <1>1, <3>1 DEF BudgetInv, Recent
    <3> QED
      BY <1>1, <1>3, <3>1, <3>2, <3>3
  <2> QED
    BY <2>1, <2>2
<1>9. lastAttempt' <= time'
  BY <1>1, <1>3
<1> QED
  BY <1>4, <1>7, <1>8, <1>9 DEF BudgetInv

LEMMA NextBudget == ASSUME ShapeOK, BudgetInv, [Next]_vars PROVE BudgetInv'
<1>1. /\ Len(calls) \in Nat /\ DOMAIN calls = 1..Len(calls) /\ \A k \in DOMAIN calls : calls[k] \in Nat
      /\ time \in Nat /\ lastAttempt \in Int
  BY CallsAreNumbers
<1>2. CASE Tick
  <2>1. time' = time + 1 /\ UNCHANGED <<lastAttempt, attempts, calls>>
    BY <1>2 DEF Tick, narrator
  <2>2. lastAttempt <= time + 1
    BY <1>1 DEF BudgetInv
  <2>3. \A i \in DOMAIN calls : time' - calls[i] < Hour => calls[i] \in attempts
    <3> SUFFICES ASSUME NEW i \in DOMAIN calls, time' - calls[i] < Hour PROVE calls[i] \in attempts
      OBVIOUS
    <3>1. time - calls[i] < Hour
      BY <1>1, <2>1, InsightsAssumption
    <3> QED
      BY <3>1 DEF BudgetInv
  <2>4. WithinBudget'
    BY <2>1 DEF BudgetInv, WithinBudget
  <2>5. (lastAttempt <= time)'
    BY <2>1, <2>2
  <2>6. (\A i \in DOMAIN calls : calls[i] <= lastAttempt)'
    BY <2>1 DEF BudgetInv
  <2>7. (\A i \in DOMAIN calls : time - calls[i] < Hour => calls[i] \in attempts)'
    <3>1. calls' = calls /\ attempts' = attempts
      BY <2>1
    <3> QED
      BY <2>3, <3>1
  <2> QED
    BY <2>4, <2>5, <2>6, <2>7 DEF BudgetInv
<1>3. CASE \E c \in Clients : Waiting(c)
  <2>1. UNCHANGED <<time, lastAttempt, calls>> /\ attempts' \in {attempts, Recent}
    BY <1>3 DEF Waiting, facts
  <2>2. \A i \in DOMAIN calls : time - calls[i] < Hour => calls[i] \in attempts'
    BY <2>1 DEF BudgetInv, Recent
  <2> QED
    BY <2>1, <2>2 DEF BudgetInv, WithinBudget
<1>4. CASE \E c \in Clients : Call(c)
  BY <1>4, CallBudget
<1>5. CASE UNCHANGED <<time, lastAttempt, attempts, calls>>
  BY <1>5 DEF BudgetInv, WithinBudget
<1>6. \/ Tick \/ \E c \in Clients : Waiting(c) \/ Call(c)
      \/ UNCHANGED <<time, lastAttempt, attempts, calls>>
  BY DEF Next, Explain, Conclude, Reset, Log, Ask, FromCache, Share, Respond, Refuse, Timeout, End,
     facts, narrator, vars
<1> QED
  BY <1>2, <1>3, <1>4, <1>5, <1>6

LEMMA InitBudget == Init => BudgetInv
<1> SUFFICES ASSUME Init PROVE BudgetInv
  OBVIOUS
<1>1. DOMAIN calls = {} /\ lastAttempt = -Hour /\ time = 0
  BY DEF Init
<1>2. lastAttempt <= time
  BY <1>1, InsightsAssumption
<1> QED
  BY <1>1, <1>2 DEF BudgetInv, WithinBudget

\* Calls are a cooldown apart, and any hour has at most MaxCalls of them, however
\* many clients ask, and whatever calls fail or runs are reset.
THEOREM BudgetHolds == Spec => []WithinBudget
<1>1. ShapeOK /\ AskInv /\ BudgetInv /\ [Next]_vars => (ShapeOK /\ AskInv /\ BudgetInv)'
  BY NextShape, NextAsk, NextBudget
<1>2. Init => ShapeOK /\ AskInv /\ BudgetInv
  BY InitShape, InitAsk, InitBudget
<1>3. BudgetInv => WithinBudget
  BY DEF BudgetInv
<1> QED
  BY <1>1, <1>2, <1>3, PTL DEF Spec

-----------------------------------------------------------------------------
(* The counters.  The fold of the log exists and goes on event by event,   *)
(* which is shown for the least number of events for which it would not;   *)
(* likewise it ends with each request's decision of highest priority.      *)

\* A set of numbers has a least one: what stands here for an induction.
LEMMA LeastOf ==
  ASSUME NEW S \in SUBSET Nat, S # {}
  PROVE  \E m \in S : \A n \in S : m <= n
<1>1. PICK m \in S : \A n \in S : ~(<<n, m>> \in OpToRel(<, Nat))
  BY NatLessThanWellFounded, WFMin
<1>2. \A n \in S : ~(n < m)
  BY <1>1 DEF OpToRel
<1> QED BY <1>2

LEMMA MaxIsElement ==
  ASSUME NEW n \in Nat, NEW S \in SUBSET (1..n), S # {}
  PROVE  Max(S) \in S /\ \A x \in S : Max(S) >= x
<1> DEFINE bounds == {b \in Nat : \A x \in S : b >= x}
<1>1. n \in bounds /\ bounds \in SUBSET Nat
  OBVIOUS
<1>2. PICK m \in bounds : \A b \in bounds : m <= b
  BY <1>1, LeastOf
<1>3. m \in S
  <2> SUFFICES ASSUME m \notin S PROVE FALSE
    OBVIOUS
  <2>1. \A x \in S : m - 1 >= x /\ x >= 1
    BY <1>2
  <2>2. m \in Nat /\ m >= 1
    <3>1. PICK x \in S : x \in 1..n
      OBVIOUS
    <3> QED BY <2>1, <3>1
  <2>3. m - 1 \in Nat /\ \A x \in S : m - 1 >= x
    BY <2>1, <2>2
  <2>4. m - 1 \in bounds
    BY <2>3
  <2> QED BY <1>2, <2>2, <2>4
<1>4. \E x \in S : \A y \in S : x >= y
  BY <1>2, <1>3
<1> QED BY <1>4 DEF Max

Undecided == [t \in Traces |-> "none"]

\* What the library's fold iterates: a value for each set of positions.
IsFold(g, events, n) ==
  g = [S \in SUBSET (1..n) |->
         IF S = {} THEN Undecided ELSE Decide(g[S \ {Max(S)}], events[Max(S)])]

Folded(events, n) == CHOOSE g : IsFold(g, events, n)

LEMMA ByRequestIsFold ==
  ASSUME NEW events \in Seq(Events)
  PROVE  ByRequest(events) = Folded(events, Len(events))[1..Len(events)]
<1>1. DOMAIN events = 1..Len(events)
  OBVIOUS
<1> QED BY <1>1 DEF ByRequest, FoldLeft, MapThenFoldSet, IsFold, Undecided, Folded

LEMMA FoldGrows ==
  ASSUME NEW events, NEW n \in Nat, NEW g, IsFold(g, events, n)
  PROVE  \E h : IsFold(h, events, n + 1)
<1> DEFINE h == [S \in SUBSET (1..(n + 1)) |->
                   IF n + 1 \in S THEN Decide(g[S \ {n + 1}], events[n + 1]) ELSE g[S]]
<1>1. ASSUME NEW S \in SUBSET (1..(n + 1))
      PROVE  h[S] = IF S = {} THEN Undecided ELSE Decide(h[S \ {Max(S)}], events[Max(S)])
  <2>1. CASE n + 1 \in S
    <3>1. Max(S) = n + 1
      <4> HIDE DEF h
      <4>0. n + 1 \in Nat /\ S # {}
        BY <2>1
      <4>1. Max(S) \in S /\ Max(S) >= n + 1
        BY <2>1, <4>0, MaxIsElement
      <4>2. Max(S) \in 1..(n + 1)
        BY <4>1
      <4> QED BY <4>1, <4>2
    <3>2. S \ {n + 1} \in SUBSET (1..(n + 1)) /\ n + 1 \notin S \ {n + 1}
      OBVIOUS
    <3>3. h[S \ {n + 1}] = g[S \ {n + 1}]
      BY <3>2
    <3>4. h[S] = Decide(g[S \ {n + 1}], events[n + 1])
      BY <2>1
    <3> HIDE DEF h
    <3> QED BY <2>1, <3>1, <3>3, <3>4
  <2>2. CASE n + 1 \notin S
    <3>1. S \in SUBSET (1..n)
      BY <2>2
    <3>2. h[S] = g[S]
      BY <2>2
    <3>3. g[S] = IF S = {} THEN Undecided ELSE Decide(g[S \ {Max(S)}], events[Max(S)])
      BY <3>1 DEF IsFold
    <3>4. h[S \ {Max(S)}] = g[S \ {Max(S)}]
      BY <2>2
    <3> HIDE DEF h
    <3> QED BY <3>2, <3>3, <3>4
  <2> QED BY <2>1, <2>2
<1>2. h = [S \in SUBSET (1..(n + 1)) |->
             IF S = {} THEN Undecided ELSE Decide(h[S \ {Max(S)}], events[Max(S)])]
  <2>1. \A S \in SUBSET (1..(n + 1)) :
          h[S] = IF S = {} THEN Undecided ELSE Decide(h[S \ {Max(S)}], events[Max(S)])
    BY <1>1
  <2>2. h = [S \in SUBSET (1..(n + 1)) |-> h[S]]
    OBVIOUS
  <2> HIDE DEF h
  <2> QED BY <2>1, <2>2
<1> HIDE DEF h
<1> QED BY <1>2 DEF IsFold

LEMMA FoldExists ==
  ASSUME NEW events, NEW n \in Nat
  PROVE  IsFold(Folded(events, n), events, n)
<1> DEFINE without == {k \in Nat : ~\E g : IsFold(g, events, k)}
<1>1. without = {}
  <2> SUFFICES ASSUME without # {} PROVE FALSE
    OBVIOUS
  <2>1. PICK m \in without : \A k \in without : m <= k
    BY LeastOf
  <2>2. CASE m = 0
    <3> DEFINE g == [S \in SUBSET (1..0) |-> Undecided]
    <3>1. \A S \in SUBSET (1..0) : S = {}
      OBVIOUS
    <3>2. g = [S \in SUBSET (1..0) |->
                 IF S = {} THEN Undecided ELSE Decide(g[S \ {Max(S)}], events[Max(S)])]
      BY <3>1
    <3> QED BY <2>1, <2>2, <3>2 DEF IsFold
  <2>3. CASE m # 0
    <3>1. m - 1 \in Nat /\ m - 1 \notin without /\ (m - 1) + 1 = m
      BY <2>1, <2>3
    <3>2. PICK g : IsFold(g, events, m - 1)
      BY <3>1
    <3>3. \E h : IsFold(h, events, (m - 1) + 1)
      BY <3>1, <3>2, FoldGrows
    <3> QED BY <2>1, <3>1, <3>3
  <2> QED BY <2>2, <2>3
<1>2. \E g : IsFold(g, events, n)
  BY <1>1
<1> QED BY <1>2 DEF Folded

LEMMA FoldGoesOn ==
  ASSUME NEW events, NEW n \in Nat
  PROVE  /\ Folded(events, n)[1..0] = Undecided
         /\ \A k \in 1..n : Folded(events, n)[1..k] =
              Decide(Folded(events, n)[1..(k - 1)], events[k])
<1> DEFINE g == Folded(events, n)
<1>1. \A S \in SUBSET (1..n) :
        g[S] = IF S = {} THEN Undecided ELSE Decide(g[S \ {Max(S)}], events[Max(S)])
  BY FoldExists DEF IsFold
<1> HIDE DEF g
<1>2. g[1..0] = Undecided
  <2>1. 1..0 = {}
    OBVIOUS
  <2> QED BY <1>1, <2>1
<1>3. ASSUME NEW k \in 1..n PROVE g[1..k] = Decide(g[1..(k - 1)], events[k])
  <2>1. 1..k \in SUBSET (1..n) /\ 1..k # {} /\ k \in 1..k
    OBVIOUS
  <2>2. Max(1..k) \in 1..k /\ Max(1..k) >= k
    BY <2>1, MaxIsElement
  <2>3. Max(1..k) = k /\ (1..k) \ {k} = 1..(k - 1)
    BY <2>2
  <2> QED BY <1>1, <2>1, <2>3
<1> QED BY <1>2, <1>3 DEF g
-----------------------------------------------------------------------------
\* Event i is a decision about request t that counts.
Decides(events, i, t) == events[i].trace = t /\ Counts(events[i])

\* d is the decision of highest priority among those of the first k events.
Highest(events, k, t, d) ==
  /\ d = "none" \/ \E i \in 1..k : Decides(events, i, t) /\ d = Decision[events[i].name]
  /\ \A i \in 1..k : Decides(events, i, t) =>
       d # "none" /\ Priority[d] >= Priority[Decision[events[i].name]]

LEMMA Decided ==
  /\ \A name \in DOMAIN Decision :
       /\ Decision[name] \in Decisions /\ Decision[name] # "none"
       /\ Decision[name] = "overLimit" <=> name = "OVER_LIMIT_REJECTED"
  /\ "OVER_LIMIT_REJECTED" \in DOMAIN Decision
  /\ \A d \in Decisions : Priority[d] \in 1..5 /\ (Priority[d] >= Priority["overLimit"] => d = "overLimit")
  BY DEF Decision, Decisions, Priority

LEMMA HighestStep ==
  ASSUME NEW events \in Seq(Events), NEW k \in 1..Len(events),
         NEW by \in [Traces -> Decisions \cup {"none"}],
         \A t \in Traces : Highest(events, k - 1, t, by[t])
  PROVE  /\ Decide(by, events[k]) \in [Traces -> Decisions \cup {"none"}]
         /\ \A t \in Traces : Highest(events, k, t, Decide(by, events[k])[t])
<1>0. events[k] \in Events
  BY ElementOfSeq
<1> DEFINE e == events[k]
<1> DEFINE new == Decide(by, e)
<1> DEFINE d == Decision[e.name]
<1>1. e \in Events /\ e.trace \in Traces
  BY <1>0 DEF Events
<1>2. 1..k = (1..(k - 1)) \cup {k}
  OBVIOUS
<1>3. CASE Counts(e) /\ (by[e.trace] = "none" \/ Priority[d] > Priority[by[e.trace]])
  <2>1. d \in Decisions /\ d # "none"
    BY <1>3, Decided DEF Counts
  <2>2. new = [by EXCEPT ![e.trace] = d]
    BY <1>3 DEF Decide
  <2>3. new \in [Traces -> Decisions \cup {"none"}]
    BY <2>1, <2>2
  <2>4. ASSUME NEW t \in Traces, t # e.trace PROVE Highest(events, k, t, new[t])
    <3>1. new[t] = by[t] /\ ~Decides(events, k, t)
      BY <2>2, <2>4 DEF Decides
    <3> HIDE DEF new, d
    <3> QED BY <1>2, <3>1 DEF Highest
  <2>5. Highest(events, k, e.trace, new[e.trace])
    <3>1. new[e.trace] = d /\ Decides(events, k, e.trace) /\ k \in 1..k
      BY <1>1, <1>3, <2>2 DEF Decides
    <3>2. ASSUME NEW i \in 1..k, Decides(events, i, e.trace)
          PROVE  Priority[d] >= Priority[Decision[events[i].name]]
      <4>1. CASE i = k
        <5>1. Priority[d] \in 1..5
          BY <2>1, Decided
        <5> QED BY <4>1, <5>1
      <4>2. CASE i # k
        <5> DEFINE p == Decision[events[i].name]
        <5>1. i \in 1..(k - 1)
          BY <4>2
        <5>2. by[e.trace] # "none" /\ Priority[by[e.trace]] >= Priority[p]
          BY <1>1, <3>2, <5>1 DEF Highest
        <5>3. p \in Decisions /\ by[e.trace] \in Decisions
          BY <1>1, <3>2, <5>2, Decided DEF Decides, Counts
        <5>4. Priority[p] \in 1..5 /\ Priority[d] \in 1..5 /\ Priority[by[e.trace]] \in 1..5
          BY <2>1, <5>3, Decided
        <5>5. Priority[d] > Priority[by[e.trace]]
          BY <1>3, <5>2
        <5> HIDE DEF p, d
        <5> QED BY <5>2, <5>4, <5>5 DEF p
      <4> QED BY <4>1, <4>2
    <3> HIDE DEF new
    <3> QED BY <2>1, <3>1, <3>2 DEF Highest
  <2>6. \A t \in Traces : Highest(events, k, t, new[t])
    BY <2>4, <2>5
  <2> QED BY <2>3, <2>6
<1>4. CASE ~(Counts(e) /\ (by[e.trace] = "none" \/ Priority[d] > Priority[by[e.trace]]))
  <2>1. new = by
    BY <1>4 DEF Decide
  <2>2. ASSUME NEW t \in Traces PROVE Highest(events, k, t, by[t])
    <3>1. Decides(events, k, t) => by[t] # "none" /\ Priority[by[t]] >= Priority[d]
      <4> SUFFICES ASSUME Decides(events, k, t)
                   PROVE  by[t] # "none" /\ Priority[by[t]] >= Priority[d]
        OBVIOUS
      <4>1. t = e.trace /\ Counts(e)
        BY DEF Decides
      <4>2. by[t] # "none" /\ ~(Priority[d] > Priority[by[t]])
        BY <1>4, <4>1
      <4>3. Priority[d] \in 1..5 /\ Priority[by[t]] \in 1..5
        BY <4>1, <4>2, Decided DEF Counts
      <4> HIDE DEF d
      <4> QED BY <4>2, <4>3
    <3> QED BY <1>2, <3>1 DEF Highest
  <2> QED BY <2>1, <2>2
<1> QED BY <1>3, <1>4

\* analyzeActivity gives each request the decision of highest priority among those
\* of its events that count, in whichever order they were logged.
THEOREM RequestsGetTheHighest ==
  ASSUME NEW events \in Seq(Events)
  PROVE  /\ ByRequest(events) \in [Traces -> Decisions \cup {"none"}]
         /\ \A t \in Traces : Highest(events, Len(events), t, ByRequest(events)[t])
<1> DEFINE n == Len(events)
<1> DEFINE by(k) == Folded(events, n)[1..k]
<1> DEFINE right(k) == /\ by(k) \in [Traces -> Decisions \cup {"none"}]
                       /\ \A t \in Traces : Highest(events, k, t, by(k)[t])
<1> DEFINE wrong == {k \in 0..n : ~right(k)}
<1>1. n \in Nat
  OBVIOUS
<1>2. right(0)
  <2>1. by(0) = Undecided
    BY <1>1, FoldGoesOn
  <2>2. 1..0 = {}
    OBVIOUS
  <2> QED BY <2>1, <2>2 DEF Undecided, Highest
<1>3. ASSUME NEW k \in 1..n, right(k - 1) PROVE right(k)
  <2>1. by(k) = Decide(by(k - 1), events[k])
    BY <1>1, FoldGoesOn
  <2> HIDE DEF by
  <2> QED BY <1>3, <2>1, HighestStep
<1>4. wrong = {}
  <2> HIDE DEF right
  <2> SUFFICES ASSUME wrong # {} PROVE FALSE
    OBVIOUS
  <2>0. wrong \in SUBSET Nat
    OBVIOUS
  <2>1. PICK m \in wrong : \A k \in wrong : m <= k
    <3> HIDE DEF wrong
    <3> QED BY <2>0, LeastOf
  <2>2. m \in 1..n /\ m - 1 \in 0..n
    BY <1>2, <2>1
  <2>3. right(m - 1)
    BY <2>1, <2>2
  <2> QED BY <1>3, <2>1, <2>2, <2>3
<1>5. right(n)
  BY <1>1, <1>4
<1> QED BY <1>5, ByRequestIsFold

LEMMA Partitioned ==
  ASSUME NEW A, NEW B, IsFiniteSet(A), IsFiniteSet(B), A \cap B = {}
  PROVE  /\ IsFiniteSet(A \cup B) /\ Cardinality(A \cup B) = Cardinality(A) + Cardinality(B)
<1>1. Cardinality(A \cap B) = 0
  BY FS_EmptySet
<1>2. Cardinality(A) \in Nat /\ Cardinality(B) \in Nat
  BY FS_CardinalityType
<1>3. /\ IsFiniteSet(A \cup B)
      /\ Cardinality(A \cup B) = Cardinality(A) + Cardinality(B) - Cardinality(A \cap B)
  BY FS_Union
<1> QED BY <1>1, <1>2, <1>3

\* The counters add up to the attempts, and whoever met the limit is counted as that.
LEMMA CountersAddUp ==
  ASSUME FactsOK
  PROVE  CountersAreDisjoint
<1> DEFINE by == ByRequest(log)
<1> DEFINE of(c) == {t \in Traces : by[t] = c}
<1> DEFINE n == Counters(log)
<1>1. /\ by \in [Traces -> Decisions \cup {"none"}]
      /\ \A t \in Traces : Highest(log, Len(log), t, by[t])
      /\ log \in Seq(Events) /\ DOMAIN log = 1..Len(log)
  BY RequestsGetTheHighest DEF FactsOK
<1>2. /\ \A c \in Decisions : n[c] = Cardinality(of(c))
      /\ n["attempts"] = Cardinality({t \in Traces : by[t] # "none"})
  BY DEF Counters, Decisions
<1> HIDE DEF by, n
<1>3. \A c : IsFiniteSet(of(c)) /\ Cardinality(of(c)) \in Nat
  BY InsightsAssumption, FS_Subset, FS_CardinalityType
<1>4. {t \in Traces : by[t] # "none"} =
        (((of("accepted") \cup of("rejected")) \cup of("conflicts")) \cup of("retries")) \cup of("overLimit")
  BY <1>1 DEF Decisions
<1>5. n["attempts"] = n["accepted"] + n["rejected"] + n["conflicts"] + n["retries"] + n["overLimit"]
  <2> DEFINE s2 == of("accepted") \cup of("rejected")
  <2> DEFINE s3 == s2 \cup of("conflicts")
  <2> DEFINE s4 == s3 \cup of("retries")
  <2>0. /\ of("accepted") \cap of("rejected") = {} /\ s2 \cap of("conflicts") = {}
        /\ s3 \cap of("retries") = {} /\ s4 \cap of("overLimit") = {}
    <3>1. of("accepted") \cap of("rejected") = {} /\ s2 \cap of("conflicts") = {}
      OBVIOUS
    <3>2. s3 \cap of("retries") = {}
      OBVIOUS
    <3>3. s4 \cap of("overLimit") = {}
      OBVIOUS
    <3> QED BY <3>1, <3>2, <3>3
  <2> DEFINE last == s4 \cup of("overLimit")
  <2>5. {t \in Traces : by[t] # "none"} = last
    BY <1>4
  <2> HIDE DEF of
  <2>1. IsFiniteSet(s2) /\ Cardinality(s2) = Cardinality(of("accepted")) + Cardinality(of("rejected"))
    BY <1>3, <2>0, Partitioned
  <2> HIDE DEF s2
  <2>2. IsFiniteSet(s3) /\ Cardinality(s3) = Cardinality(s2) + Cardinality(of("conflicts"))
    BY <1>3, <2>0, <2>1, Partitioned
  <2> HIDE DEF s3
  <2>3. IsFiniteSet(s4) /\ Cardinality(s4) = Cardinality(s3) + Cardinality(of("retries"))
    BY <1>3, <2>0, <2>2, Partitioned
  <2> HIDE DEF s4
  <2>4. Cardinality(last) = Cardinality(s4) + Cardinality(of("overLimit"))
    BY <1>3, <2>0, <2>3, Partitioned
  <2>6. n["attempts"] = Cardinality(last)
    BY <1>2, <2>5
  <2> HIDE DEF last
  <2>7. /\ n["accepted"] = Cardinality(of("accepted")) /\ n["rejected"] = Cardinality(of("rejected"))
        /\ n["conflicts"] = Cardinality(of("conflicts")) /\ n["retries"] = Cardinality(of("retries"))
        /\ n["overLimit"] = Cardinality(of("overLimit"))
    BY <1>2 DEF Decisions
  <2> QED BY <1>3, <2>1, <2>2, <2>3, <2>4, <2>6, <2>7
<1>6. of("overLimit") = {t \in Traces :
        \E i \in DOMAIN log : log[i].trace = t /\ log[i].name = "OVER_LIMIT_REJECTED" /\ Counts(log[i])}
  <2> SUFFICES ASSUME NEW t \in Traces
               PROVE  by[t] = "overLimit" <=>
                 \E i \in DOMAIN log :
                   log[i].trace = t /\ log[i].name = "OVER_LIMIT_REJECTED" /\ Counts(log[i])
    OBVIOUS
  <2>1. ASSUME by[t] = "overLimit"
        PROVE  \E i \in DOMAIN log :
                 log[i].trace = t /\ log[i].name = "OVER_LIMIT_REJECTED" /\ Counts(log[i])
    <3>1. PICK i \in 1..Len(log) : Decides(log, i, t) /\ by[t] = Decision[log[i].name]
      BY <1>1, <2>1 DEF Highest
    <3> QED BY <1>1, <2>1, <3>1, Decided DEF Decides, Counts
  <2>2. ASSUME NEW i \in DOMAIN log, log[i].trace = t, log[i].name = "OVER_LIMIT_REJECTED",
               Counts(log[i])
        PROVE  by[t] = "overLimit"
    <3>1. Decision[log[i].name] = "overLimit"
      BY <2>2, Decided
    <3>2. by[t] \in Decisions /\ Priority[by[t]] >= Priority["overLimit"]
      BY <1>1, <2>2, <3>1 DEF Highest, Decides
    <3> QED BY <3>2, Decided
  <2> QED BY <2>1, <2>2
<1>7. n["overLimit"] = Cardinality(of("overLimit"))
  BY <1>2 DEF Decisions
<1> HIDE DEF of
<1> QED BY <1>5, <1>6, <1>7 DEF CountersAreDisjoint, n

\* The counters of any log that the system can have are disjoint and add up, and a
\* request that met the limit within the window is counted as that and once.
THEOREM CountersDisjoint == Spec => []CountersAreDisjoint
<1>1. ShapeOK => CountersAreDisjoint
  BY CountersAddUp DEF ShapeOK
<1> QED
  BY <1>1, AskInvariance, PTL
=============================================================================
