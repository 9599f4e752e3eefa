----------------------------- MODULE Acceptance -----------------------------
(***************************************************************************)
(* The verifier's acceptance path: POST /v1/verifier/presentations as      *)
(* protocol-service.ts runs it over the verifier tables.  Every request is *)
(* an actor whose steps are the database round trips of `present`, so      *)
(* copies of one presentation, rival presentations, the demo reset, the    *)
(* worker and the clock interleave between any two of them.                *)
(*                                                                         *)
(* A use id is minted by the request that inserts the row, so the row of   *)
(* request r is use[r] and its immutable identity is (seenRun[r],pres[r]). *)
(* One policy is modelled: policy rows are immutable in the database, so   *)
(* only the passing of validUntil can change what a policy check says.     *)
(***************************************************************************)
EXTENDS Integers, FiniteSets

CONSTANTS
  Requests,     \* HTTP requests carrying a presentation, each sent once
  Credentials,  \* issued credentials; a nullifier is a credential and a slot
  Operations,   \* operation ids
  Intents,      \* intent digests
  Challenges,   \* challenge ids
  AskedFor,     \* the operation and intent each challenge is requested for
  Sendable,     \* the presentations clients send
  L,            \* policy.maxUses
  Ttl,          \* challenge time to live
  PolicyEnd,    \* policy.validUntil
  ApiSkew,      \* what the API's clock shows minus what the database's shows
  MaxRun,       \* bound: demo runs are 1..MaxRun
  MaxTime       \* bound: the database's clock shows 0..MaxTime

Slots == 0..L   \* L itself is the over-limit slot the audit adapter presents

Presentations ==
  [cred: Credentials, slot: Slots, op: Operations, intent: Intents,
   ch: Challenges]

ASSUME ConstantsAssumption ==
  /\ IsFiniteSet(Requests)
  /\ AskedFor \in [Challenges -> [op: Operations, intent: Intents]]
  /\ Sendable \subseteq Presentations
  /\ L \in Nat \ {0}
  /\ Ttl \in Nat \ {0}
  /\ PolicyEnd \in Nat
  /\ ApiSkew \in Int
  /\ MaxRun \in Nat \ {0}
  /\ MaxTime \in Nat

VARIABLES
  run,      \* the single ACTIVE row of verifier.demo_runs
  now,      \* clock_timestamp() of the database
  cred,     \* the demo run a credential's tickets were sealed for; 0: not issued
  chal,     \* verifier.verification_challenges
  use,      \* verifier.use_records: status of the row a request inserted
  pres,     \* what each request presents
  pc,       \* where `present` is for each request
  seenRun,  \* the run captured by activeRun(); 0 before
  clock,    \* currentTime captured by `present`
  resume,   \* what the current lookup is for: the answer if it finds nothing
  found,    \* use id and status a lookup returned
  answer,   \* the answer being recorded in the event log, then given
  known     \* history: the exact use was committed before the request began

dbVars  == <<run, now, cred, chal, use>>
reqVars == <<pres, pc, seenRun, clock, resume, found, answer, known>>
vars    == <<run, now, cred, chal, use, pres, pc, seenRun, clock, resume,
             found, answer, known>>

-----------------------------------------------------------------------------
Live     == {"ACCEPTED_PENDING_ACTION", "SUCCEEDED", "FAILED_FINAL"}
Terminal == {"SUCCEEDED", "FAILED_FINAL"}

UseStates == Live \cup {"NONE", "DELETED"}   \* before INSERT, after DELETE

ChallengeRows ==
  [state: {"NONE", "ISSUED", "CONSUMED", "DELETED"}, run: 0..MaxRun,
   expires: Int]

\* Answers after which the client knows that this presentation was refused.
Refusals == {"POLICY_REJECTED", "CHALLENGE_EXPIRED", "PRESENTATION_REJECTED"}

Conflicts == {"NULLIFIER_REUSE_CONFLICT", "IDEMPOTENCY_CONFLICT"}

Answers ==
  Refusals \cup Conflicts \cup {"NONE", "ACCEPTED", "RETRY", "INTERNAL_ERROR",
                                "LEDGER_INCONSISTENT", "LOST"}

PCs == {"idle", "lookup", "clock", "challenge", "verify", "accept", "record",
        "done"}

ApiNow == now + ApiSkew

-----------------------------------------------------------------------------
(* The retry classifier over the rows one lookup query returns.            *)

SameNullifier(u, r) ==
  pres[u].cred = pres[r].cred /\ pres[u].slot = pres[r].slot

\* Mutant: the lookup selects by nullifier alone.
Rows_NullifierOnly(r) ==
  {u \in Requests : use[u] \in Live /\ seenRun[u] = seenRun[r]
                                    /\ SameNullifier(u, r)}

\* USE_SELECT ... WHERE demo_run_id, scope_hash and (nullifier or operation).
Rows(r) ==
  {u \in Requests : /\ use[u] \in Live
                    /\ seenRun[u] = seenRun[r]
                    /\ SameNullifier(u, r) \/ pres[u].op = pres[r].op}

\* Mutant: the intent digest is not compared.
SameIdentity_AnyIntent(u, r) ==
  seenRun[u] = seenRun[r] /\ SameNullifier(u, r) /\ pres[u].op = pres[r].op

SameIdentity(u, r) ==
  /\ seenRun[u] = seenRun[r]
  /\ SameNullifier(u, r)
  /\ pres[u].op = pres[r].op
  /\ pres[u].intent = pres[r].intent

\* The row whose nullifier matches is judged before the one whose operation
\* matches.
Conflict(r) ==
  IF \E u \in Rows(r) : SameNullifier(u, r) /\ ~SameIdentity(u, r)
    THEN "NULLIFIER_REUSE_CONFLICT"
    ELSE "IDEMPOTENCY_CONFLICT"

-----------------------------------------------------------------------------
Init ==
  /\ run = 1
  /\ now = 0
  /\ cred = [k \in Credentials |-> 0]
  /\ chal = [c \in Challenges |-> [state |-> "NONE", run |-> 0, expires |-> 0]]
  /\ use = [r \in Requests |-> "NONE"]
  /\ pres \in [Requests -> Sendable]
  /\ pc = [r \in Requests |-> "idle"]
  /\ seenRun = [r \in Requests |-> 0]
  /\ clock = [r \in Requests |-> 0]
  /\ resume = [r \in Requests |-> "CONTINUE"]
  /\ found = [r \in Requests |-> [id |-> r, status |-> "NONE"]]
  /\ answer = [r \in Requests |-> "NONE"]
  /\ known = [r \in Requests |-> FALSE]

-----------------------------------------------------------------------------
(* Issuance, challenges, the worker, the reset and the clock.              *)

\* issueCredential: tickets are sealed for the active run and slots 0..L-1.
IssueCredential(k) ==
  /\ cred[k] = 0
  /\ ApiNow < PolicyEnd
  /\ cred' = [cred EXCEPT ![k] = run]
  /\ UNCHANGED <<run, now, chal, use, reqVars>>

\* createChallenge; the table refuses a challenge that is created expired.
CreateChallenge(c) ==
  /\ chal[c].state = "NONE"
  /\ ApiNow < PolicyEnd
  /\ now < ApiNow + Ttl
  /\ chal' = [chal EXCEPT ![c] = [state   |-> "ISSUED",
                                  run     |-> run,
                                  expires |-> ApiNow + Ttl]]
  /\ UNCHANGED <<run, now, cred, use, reqVars>>

\* What the worker's completion, failure and retry transactions do to a use.
Settle(r, result) ==
  /\ use[r] = "ACCEPTED_PENDING_ACTION"
  /\ use' = [use EXCEPT ![r] = result]
  /\ UNCHANGED <<run, now, cred, chal, reqVars>>

\* Mutant: the reset deletes the challenges no use refers to, and no others.
ResetDemoRun_KeepsConsumed ==
  /\ run < MaxRun
  /\ run' = run + 1
  /\ use' = [r \in Requests |->
               IF use[r] \in Live /\ seenRun[r] = run THEN "DELETED"
               ELSE use[r]]
  /\ chal' = [c \in Challenges |->
                IF chal[c].state = "ISSUED" /\ chal[c].run = run
                THEN [chal[c] EXCEPT !.state = "DELETED"]
                ELSE chal[c]]
  /\ UNCHANGED <<now, cred, reqVars>>

\* The verifier half of the demo reset deletes every row of the active run and
\* makes another run active, in one transaction.
ResetDemoRun ==
  /\ run < MaxRun
  /\ run' = run + 1
  /\ use' = [r \in Requests |->
               IF use[r] \in Live /\ seenRun[r] = run THEN "DELETED"
               ELSE use[r]]
  /\ chal' = [c \in Challenges |->
                IF chal[c].state \in {"ISSUED", "CONSUMED"} /\ chal[c].run = run
                THEN [chal[c] EXCEPT !.state = "DELETED"]
                ELSE chal[c]]
  /\ UNCHANGED <<now, cred, reqVars>>

Tick ==
  /\ now < MaxTime
  /\ now' = now + 1
  /\ UNCHANGED <<run, cred, chal, use, reqVars>>

-----------------------------------------------------------------------------
(* The steps of one request.                                               *)

Goto(r, l) == pc' = [pc EXCEPT ![r] = l]

Give(r, a) ==
  /\ answer' = [answer EXCEPT ![r] = a]
  /\ Goto(r, "done")

\* The answer is given once its event is in the event log.
GiveRecorded(r, a) ==
  /\ answer' = [answer EXCEPT ![r] = a]
  /\ Goto(r, "record")

LookUp(r, otherwise) ==
  /\ resume' = [resume EXCEPT ![r] = otherwise]
  /\ Goto(r, "lookup")

\* Mutant: freshness is checked before the use is looked up.
Begin_FreshnessFirst(r) ==
  /\ pc[r] = "idle"
  /\ cred[pres[r].cred] # 0
  /\ chal[pres[r].ch].state # "NONE"
  /\ seenRun' = [seenRun EXCEPT ![r] = run]
  /\ known' = [known EXCEPT ![r] =
                 \E u \in Requests : /\ use[u] \in Live
                                     /\ seenRun[u] = run
                                     /\ SameNullifier(u, r)
                                     /\ pres[u].op = pres[r].op
                                     /\ pres[u].intent = pres[r].intent]
  /\ Goto(r, "clock")
  /\ UNCHANGED <<dbVars, pres, clock, resume, found, answer>>

\* loadPolicy and activeRun.  The presentation exists once its credential and
\* its challenge have been handed out.
Begin(r) ==
  /\ pc[r] = "idle"
  /\ cred[pres[r].cred] # 0
  /\ chal[pres[r].ch].state # "NONE"
  /\ seenRun' = [seenRun EXCEPT ![r] = run]
  /\ known' = [known EXCEPT ![r] =
                 \E u \in Requests : /\ use[u] \in Live
                                     /\ seenRun[u] = run
                                     /\ SameNullifier(u, r)
                                     /\ pres[u].op = pres[r].op
                                     /\ pres[u].intent = pres[r].intent]
  /\ Goto(r, "lookup")
  /\ UNCHANGED <<dbVars, pres, clock, resume, found, answer>>

\* findPriorUse: one query, then the classifier.
FindNothing(r) ==
  /\ pc[r] = "lookup"
  /\ Rows(r) = {}
  /\ IF resume[r] = "CONTINUE"
       THEN Goto(r, "clock") /\ UNCHANGED answer
       ELSE Give(r, resume[r])
  /\ UNCHANGED <<dbVars, pres, seenRun, clock, resume, found, known>>

FindConflict(r) ==
  /\ pc[r] = "lookup"
  /\ \E u \in Rows(r) : ~SameIdentity(u, r)
  /\ GiveRecorded(r, Conflict(r))
  /\ UNCHANGED <<dbVars, pres, seenRun, clock, resume, found, known>>

FindRetry(r) ==
  /\ pc[r] = "lookup"
  /\ \A u \in Rows(r) : SameIdentity(u, r)
  /\ \E u \in Rows(r) : found' = [found EXCEPT ![r] = [id     |-> u,
                                                       status |-> use[u]]]
  /\ GiveRecorded(r, "RETRY")
  /\ UNCHANGED <<dbVars, pres, seenRun, clock, resume, known>>

\* appendProtocolEvent references the run, recordRetry reads the use: a row
\* that a reset has deleted in between makes the request fail.
Record(r) ==
  /\ pc[r] = "record"
  /\ LET rowIsThere == IF answer[r] = "RETRY" THEN use[found[r].id] \in Live
                                              ELSE run = seenRun[r]
     IN  Give(r, IF rowIsThere THEN answer[r] ELSE "INTERNAL_ERROR")
  /\ UNCHANGED <<dbVars, pres, seenRun, clock, resume, found, known>>

\* currentTime is captured and assertBoundAndFreshPolicy uses it.
CheckPolicy(r) ==
  /\ pc[r] = "clock"
  /\ clock' = [clock EXCEPT ![r] = ApiNow]
  /\ IF ApiNow < PolicyEnd
       THEN Goto(r, "challenge") /\ UNCHANGED resume
       ELSE LookUp(r, "POLICY_REJECTED")
  /\ UNCHANGED <<dbVars, pres, seenRun, found, answer, known>>

ChallengeMatches(r) ==
  LET c == pres[r].ch IN
  /\ chal[c].state \in {"ISSUED", "CONSUMED"}
  /\ chal[c].run = seenRun[r]
  /\ AskedFor[c].op = pres[r].op
  /\ AskedFor[c].intent = pres[r].intent

\* getChallenge, the binding checks, CONSUMED, then freshness at currentTime.
ReadChallenge(r) ==
  /\ pc[r] = "challenge"
  /\ \/ /\ ~ChallengeMatches(r)
        /\ Give(r, "PRESENTATION_REJECTED")
        /\ UNCHANGED resume
     \/ /\ ChallengeMatches(r)
        /\ chal[pres[r].ch].state = "CONSUMED"
        /\ LookUp(r, "LEDGER_INCONSISTENT")
        /\ UNCHANGED answer
     \/ /\ ChallengeMatches(r)
        /\ chal[pres[r].ch].state = "ISSUED"
        /\ IF clock[r] < chal[pres[r].ch].expires
             THEN Goto(r, "verify") /\ UNCHANGED resume
             ELSE LookUp(r, "CHALLENGE_EXPIRED")
        /\ UNCHANGED answer
  /\ UNCHANGED <<dbVars, pres, seenRun, clock, found, known>>

\* Mutant: the verifier does not check the slot against maxUses.
ProofValid_AnySlot(r) ==
  /\ cred[pres[r].cred] = seenRun[r]
  /\ ApiNow < PolicyEnd
  /\ ApiNow < chal[pres[r].ch].expires

\* verifyPresentation reads the API's clock again.
ProofValid(r) ==
  /\ cred[pres[r].cred] = seenRun[r]
  /\ pres[r].slot < L
  /\ ApiNow < PolicyEnd
  /\ ApiNow < chal[pres[r].ch].expires

Verify(r) ==
  /\ pc[r] = "verify"
  /\ IF ProofValid(r)
       THEN Goto(r, "accept") /\ UNCHANGED answer
       ELSE GiveRecorded(r, "PRESENTATION_REJECTED")
  /\ UNCHANGED <<dbVars, pres, seenRun, clock, resume, found, known>>

\* Mutant: no unique index on (run, scope, nullifier).
Unique_NoNullifierIndex(r) ==
  \A u \in Requests : use[u] \in Live =>
    /\ pres[u].ch # pres[r].ch
    /\ seenRun[u] = seenRun[r] => pres[u].op # pres[r].op

\* The uniqueness constraints on challenge, nullifier and operation.
Unique(r) ==
  \A u \in Requests : use[u] \in Live =>
    /\ pres[u].ch # pres[r].ch
    /\ seenRun[u] = seenRun[r] => /\ ~SameNullifier(u, r)
                                  /\ pres[u].op # pres[r].op

\* Mutant: the transaction trusts the freshness check made before it.
Precondition_NoExpiry(r) ==
  LET c == chal[pres[r].ch] IN
  IF run # seenRun[r]              THEN "POLICY_REJECTED"
  ELSE IF ~ChallengeMatches(r)     THEN "PRESENTATION_REJECTED"
  ELSE IF c.state = "CONSUMED"     THEN "RACE_LOST"
  ELSE IF ~Unique(r)               THEN "RACE_LOST"
  ELSE "MET"

\* What the acceptance transaction finds once it holds the locks on the run,
\* the policy and the challenge, in that order.
Precondition(r) ==
  LET c == chal[pres[r].ch] IN
  IF run # seenRun[r]              THEN "POLICY_REJECTED"
  ELSE IF ~ChallengeMatches(r)     THEN "PRESENTATION_REJECTED"
  ELSE IF c.state = "CONSUMED"     THEN "RACE_LOST"
  ELSE IF now >= PolicyEnd         THEN "POLICY_REJECTED"
  ELSE IF now >= c.expires         THEN "CHALLENGE_EXPIRED"
  ELSE IF ~Unique(r)               THEN "RACE_LOST"
  ELSE "MET"

\* acceptPresentation commits: use, challenge, outbox event and event log.
Accept(r) ==
  /\ pc[r] = "accept"
  /\ Precondition(r) = "MET"
  /\ use' = [use EXCEPT ![r] = "ACCEPTED_PENDING_ACTION"]
  /\ chal' = [chal EXCEPT ![pres[r].ch].state = "CONSUMED"]
  /\ Give(r, "ACCEPTED")
  /\ UNCHANGED <<run, now, cred, pres, seenRun, clock, resume, found, known>>

\* acceptPresentation rolls back on a precondition; the code is the answer.
Refuse(r) ==
  /\ pc[r] = "accept"
  /\ Precondition(r) \in Refusals
  /\ Give(r, Precondition(r))
  /\ UNCHANGED <<dbVars, pres, seenRun, clock, resume, found, known>>

\* acceptPresentation rolls back because another transaction won.
LoseRace(r) ==
  /\ pc[r] = "accept"
  /\ Precondition(r) = "RACE_LOST"
  /\ LookUp(r, "LEDGER_INCONSISTENT")
  /\ UNCHANGED <<dbVars, pres, seenRun, clock, found, answer, known>>

\* The API process stops, or the connection or a query fails: the client
\* learns nothing, and what was committed stays committed.
Abort(r) ==
  /\ pc[r] \notin {"idle", "done"}
  /\ Give(r, "LOST")
  /\ UNCHANGED <<dbVars, pres, seenRun, clock, resume, found, known>>

-----------------------------------------------------------------------------
Step(r) ==
  \/ Begin(r)
  \/ FindNothing(r) \/ FindConflict(r) \/ FindRetry(r)
  \/ Record(r)
  \/ CheckPolicy(r)
  \/ ReadChallenge(r)
  \/ Verify(r)
  \/ Accept(r) \/ Refuse(r) \/ LoseRace(r)

Environment ==
  \/ \E k \in Credentials : IssueCredential(k)
  \/ \E c \in Challenges : CreateChallenge(c)
  \/ \E r \in Requests, result \in Terminal : Settle(r, result)
  \/ \E r \in Requests : Abort(r)
  \/ ResetDemoRun
  \/ Tick

Next == Environment \/ \E r \in Requests : Step(r)

Spec == Init /\ [][Next]_vars

-----------------------------------------------------------------------------
(* Properties.                                                             *)

\* Every variable stays within its type.
TypeOK ==
  /\ run \in 1..MaxRun
  /\ now \in 0..MaxTime
  /\ cred \in [Credentials -> 0..MaxRun]
  /\ chal \in [Challenges -> ChallengeRows]
  /\ use \in [Requests -> UseStates]
  /\ pres \in [Requests -> Sendable]
  /\ pc \in [Requests -> PCs]
  /\ seenRun \in [Requests -> 0..MaxRun]
  /\ clock \in [Requests -> Int]
  /\ resume \in [Requests -> {"CONTINUE", "POLICY_REJECTED",
                              "CHALLENGE_EXPIRED", "LEDGER_INCONSISTENT"}]
  /\ found \in [Requests -> [id: Requests, status: Live \cup {"NONE"}]]
  /\ answer \in [Requests -> Answers]
  /\ known \in [Requests -> BOOLEAN]

\* rules.md, product invariant 1, with no usage counter anywhere in the code: a
\* credential never has more than L accepted uses, whatever its holder presents
\* and however the presentations race (bound check in the verifier, uniqueness
\* in the database).
QuotaBound ==
  \A k \in Credentials :
    Cardinality({u \in Requests : use[u] \in Live /\ pres[u].cred = k}) <= L

\* A consumed challenge and its use exist together: no use without its consumed
\* challenge, no challenge consumed twice or for nothing, across acceptance and
\* reset (the challenge/use cycle the reset breaks before deleting).
ChallengesMatchUses ==
  /\ \A u \in Requests : use[u] \in Live => chal[pres[u].ch].state = "CONSUMED"
  /\ \A c \in Challenges : chal[c].state = "CONSUMED" =>
       \E u \in Requests : /\ use[u] \in Live /\ pres[u].ch = c
                           /\ \A v \in Requests \ {u} :
                                use[v] \in Live => pres[v].ch # c

\* A request that loses a race, or finds its challenge consumed, always finds
\* the winner: the 500 answers LEDGER_INCONSISTENT and DATABASE_INCONSISTENT are
\* given only to requests whose run a reset has deleted meanwhile.
WinnerIsAlwaysFound ==
  \A r \in Requests :
    answer[r] \in {"LEDGER_INCONSISTENT", "INTERNAL_ERROR"} => run # seenRun[r]

\* A request answered as a retry is told about a use that another request
\* inserted with the same run, nullifier, operation and intent (the challenge may
\* differ), and a terminal status it is told is the use's for as long as the use
\* exists.
RetryNamesItsUse ==
  \A r \in Requests : answer[r] = "RETRY" =>
    LET u == found[r].id IN
    /\ u # r /\ answer[u] # "RETRY" /\ seenRun[u] = seenRun[r]
    /\ [pres[u] EXCEPT !.ch = pres[r].ch] = pres[r]
    /\ use[u] \in Live /\ found[r].status \in Terminal =>
         use[u] = found[r].status

\* Once a use is committed, a retry of it that starts later is answered as a
\* retry, whatever the clock, the policy and its challenge have become; only a
\* reset, or losing the answer, can prevent it.
ExactRetryResolved ==
  \A r \in Requests :
    known[r] /\ pc[r] = "done" /\ run = seenRun[r] =>
      answer[r] \in {"RETRY", "LOST"}

\* A client told that its challenge expired, or that the policy ended, may
\* forget the presentation: no copy of it that is still under way, behind a lock
\* or between two clock reads, is accepted.  Holds when the API's clock is not
\* ahead of the database's.
StaleRefusalIsFinal ==
  \A r, u \in Requests :
    /\ answer[r] \in {"POLICY_REJECTED", "CHALLENGE_EXPIRED"}
    /\ pres[u] = pres[r] /\ seenRun[u] = seenRun[r]
    => use[u] \notin Live

\* The accepted uses of the active run, as the abstract ledger sees them.
Ledger ==
  {[id |-> r, cred |-> pres[r].cred, slot |-> pres[r].slot, op |-> pres[r].op,
    intent |-> pres[r].intent, status |-> use[r]] :
     r \in {u \in Requests : use[u] \in Live}}

Abstract == INSTANCE BoundedUse WITH UseIds <- Requests, ledger <- Ledger

\* With all its round trips, copies and races the acceptance path implements
\* the atomic ledger: every step is one of its transitions or changes nothing.
ImplementsBoundedUse == Abstract!Spec

\* rules.md section 9: once acceptance has committed, the historical decision
\* remains authoritative.  A request is not refused when a copy of it has been
\* accepted.
HistoricalDecisionWins ==
  [][\A r, u \in Requests :
       /\ pc[r] # "done" /\ pc'[r] = "done" /\ answer'[r] \in Refusals
       /\ pres[u] = pres[r] /\ seenRun[u] = seenRun[r] /\ run = seenRun[r]
       => use[u] \notin Live]_vars
=============================================================================
