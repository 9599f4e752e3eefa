----------------------------- MODULE RetryProofs -----------------------------
(***************************************************************************)
(* Proofs about what requests are told: a retry of its use, a known use as *)
(* a retry, a refusal for staleness for good, and a refusal of an accepted *)
(* presentation only after an expiry.  They build on the invariant of      *)
(* AcceptanceProofs.                                                       *)
(***************************************************************************)
EXTENDS AcceptanceProofs

-----------------------------------------------------------------------------
(* The invariants.                                                         *)

\* The use a retry was told about, and what it was told.
RetryOf(r) ==
  LET u == found[r].id IN
  /\ pc[r] \in {"record", "done"}
  /\ u \in Requests /\ pc[u] = "done" /\ answer[u] = "ACCEPTED"
  /\ SameIdentity(u, r)
  /\ use[u] \in Live /\ found[r].status \in Terminal => use[u] = found[r].status

RetryInv == \A r \in Requests : answer[r] = "RETRY" => RetryOf(r)

\* A request whose use was committed before it began is at its first lookup or
\* past it, and the use is there until a reset.
KnownInv ==
  \A r \in Requests : known[r] /\ run = seenRun[r] =>
    /\ \E u \in Requests : use[u] \in Live /\ SameIdentity(u, r)
    /\ pc[r] \in {"lookup", "record", "done"}
    /\ pc[r] = "record" => answer[r] = "RETRY"
    /\ pc[r] = "done" => answer[r] \in {"RETRY", "LOST"}

IdleKnowsNothing == \A r \in Requests : pc[r] = "idle" => ~known[r]

\* No copy of the presentation of r can be accepted any more.
Hopeless(r) ==
  \/ seenRun[r] < run
  \/ now >= PolicyEnd
  \/ chal[pres[r].ch].state # "NONE" /\ now >= chal[pres[r].ch].expires

NoCopyLives(r) ==
  \A u \in Requests : pres[u] = pres[r] /\ seenRun[u] = seenRun[r] => use[u] \notin Live

Stale == {"POLICY_REJECTED", "CHALLENGE_EXPIRED"}

StaleInv ==
  \A r \in Requests :
    /\ pc[r] = "challenge" => clock[r] <= ApiNow
    /\ resume[r] \in Stale => pc[r] # "idle" /\ Hopeless(r)
    /\ answer[r] \in Stale => pc[r] = "done" /\ Hopeless(r) /\ NoCopyLives(r)

-----------------------------------------------------------------------------
(* What a step of a request other than an acceptance does.                 *)

Moves(r) == (Step(r) /\ ~Accept(r)) \/ Abort(r)

LEMMA MovesReadOnly ==
  ASSUME IInv, NEW r \in Requests, Moves(r)
  PROVE  /\ ReadsOnly(r)
         /\ now' = now /\ (pc[r] # "idle" => seenRun'[r] = seenRun[r] /\ known'[r] = known[r])
         /\ \A q \in Requests \ {r} : known'[q] = known[q] /\ clock'[q] = clock[q]
<1>1. ReadsOnly(r)
  BY BeginReadsOnly, LookUpReadsOnly, RecordReadsOnly, ChecksReadOnly, RefusalsReadOnly
     DEF Moves, Step
<1>2. now' = now
  BY DEF Moves, Step, Begin, FindNothing, FindConflict, FindRetry, Record, CheckPolicy,
         ReadChallenge, Verify, Refuse, LoseRace, Abort, dbVars
<1>3. CASE Begin(r)
  BY <1>1, <1>2, <1>3 DEF Begin, IInv, TypeOK
<1>4. CASE ~Begin(r)
  <2>1. UNCHANGED <<seenRun, known>>
    BY <1>4 DEF Moves, Step, FindNothing, FindConflict, FindRetry, Record, CheckPolicy,
         ReadChallenge, Verify, Refuse, LoseRace, Abort
  <2>2. clock' = clock \/ clock' = [clock EXCEPT ![r] = ApiNow]
    BY <1>4 DEF Moves, Step, FindNothing, FindConflict, FindRetry, Record, CheckPolicy,
         ReadChallenge, Verify, Refuse, LoseRace, Abort
  <2> QED
    BY <1>1, <1>2, <2>1, <2>2 DEF IInv, TypeOK
<1> QED
  BY <1>3, <1>4

\* A request is told of a retry by its lookup, and keeps that answer only while
\* it is recorded.
LEMMA ToldOfRetry ==
  ASSUME IInv, RetryInv, NEW r \in Requests, Moves(r), answer'[r] = "RETRY"
  PROVE  \/ /\ answer[r] = "RETRY" /\ pc[r] = "record" /\ pc'[r] = "done"
            /\ found'[r] = found[r] /\ seenRun'[r] = seenRun[r]
         \/ /\ pc[r] = "lookup" /\ pc'[r] = "record" /\ seenRun'[r] = seenRun[r]
            /\ \A u \in Rows(r) : SameIdentity(u, r)
            /\ \E u \in Rows(r) : found'[r] = [id |-> u, status |-> use[u]]
<1> USE DEF Give, GiveRecorded, Goto, LookUp, IInv, TypeOK
<1>1. pc[r] \in {"record", "done"} \/ answer[r] # "RETRY"
  BY DEF RetryInv, RetryOf
<1>2. CASE FindRetry(r)
  BY <1>2 DEF FindRetry
<1>3. CASE Record(r)
  BY <1>3, <1>1 DEF Record
<1>4. CASE Abort(r)
  BY <1>4 DEF Abort
<1>5. CASE ~FindRetry(r) /\ ~Record(r) /\ ~Abort(r)
  <2>1. CASE Begin(r)
    BY <1>1, <2>1 DEF Begin
  <2>2. CASE FindNothing(r)
    BY <1>1, <2>2 DEF FindNothing
  <2>3. CASE FindConflict(r)
    BY <1>1, <2>3 DEF FindConflict, Conflict
  <2>4. CASE CheckPolicy(r)
    BY <1>1, <2>4 DEF CheckPolicy
  <2>5. CASE ReadChallenge(r)
    BY <1>1, <2>5 DEF ReadChallenge
  <2>6. CASE Verify(r)
    BY <1>1, <2>6 DEF Verify
  <2>7. CASE Refuse(r)
    BY <1>1, <2>7 DEF Refuse, Refusals
  <2>8. CASE LoseRace(r)
    BY <1>1, <2>8 DEF LoseRace
  <2> QED
    BY <1>5, <2>1, <2>2, <2>3, <2>4, <2>5, <2>6, <2>7, <2>8 DEF Moves, Step
<1> QED
  BY <1>2, <1>3, <1>4, <1>5

LEMMA MovesKeepRetry ==
  ASSUME IInv, RetryInv, NEW r \in Requests, Moves(r)
  PROVE  RetryInv'
<1> SUFFICES ASSUME NEW q \in Requests, answer'[q] = "RETRY" PROVE RetryOf(q)'
  BY DEF RetryInv
<1>1. ReadsOnly(r)
  BY MovesReadOnly
<1>2. ASSUME NEW u \in Requests, pc[u] = "done"
      PROVE  u # r /\ pc'[u] = pc[u] /\ answer'[u] = answer[u] /\ seenRun'[u] = seenRun[u]
  BY <1>1, <1>2 DEF ReadsOnly
<1>3. CASE q # r
  BY <1>1, <1>2, <1>3 DEF ReadsOnly, RetryInv, RetryOf, SameIdentity, SameNullifier
<1>4. CASE q = r
  <2>1. CASE /\ answer[r] = "RETRY" /\ pc[r] = "record" /\ pc'[r] = "done"
             /\ found'[r] = found[r] /\ seenRun'[r] = seenRun[r]
    BY <1>1, <1>2, <1>4, <2>1 DEF ReadsOnly, RetryInv, RetryOf, SameIdentity, SameNullifier
  <2>2. CASE /\ pc[r] = "lookup" /\ pc'[r] = "record" /\ seenRun'[r] = seenRun[r]
             /\ \A u \in Rows(r) : SameIdentity(u, r)
             /\ \E u \in Rows(r) : found'[r] = [id |-> u, status |-> use[u]]
    <3>1. PICK u \in Rows(r) : found'[r] = [id |-> u, status |-> use[u]]
      BY <2>2
    <3>2. /\ u \in Requests /\ use[u] \in Live /\ SameIdentity(u, r)
          /\ pc[u] = "done" /\ answer[u] = "ACCEPTED"
      BY <2>2, <3>1 DEF Rows, IInv, LiveUses
    <3> QED
      BY <1>1, <1>2, <1>4, <2>2, <3>1, <3>2 DEF ReadsOnly, RetryOf, SameIdentity, SameNullifier
  <2> QED
    BY <1>4, <2>1, <2>2, ToldOfRetry
<1> QED
  BY <1>3, <1>4

\* What a commit of r changes.
LEMMA AcceptMoves ==
  ASSUME IInv, NEW r \in Requests, Accept(r)
  PROVE  /\ pc[r] = "accept" /\ pc'[r] = "done" /\ answer'[r] = "ACCEPTED"
         /\ use'[r] = "ACCEPTED_PENDING_ACTION"
         /\ \A q \in Requests \ {r} : pc'[q] = pc[q] /\ answer'[q] = answer[q] /\ use'[q] = use[q]
         /\ UNCHANGED <<run, now, pres, seenRun, clock, resume, found, known>>
BY DEF Accept, Give, Goto, IInv, TypeOK

LEMMA AcceptKeepsRetry ==
  ASSUME IInv, RetryInv, NEW r \in Requests, Accept(r)
  PROVE  RetryInv'
<1> SUFFICES ASSUME NEW q \in Requests, answer'[q] = "RETRY" PROVE RetryOf(q)'
  BY DEF RetryInv
<1>1. q # r /\ answer[q] = "RETRY" /\ RetryOf(q)
  BY AcceptMoves DEF RetryInv
<1>2. found[q].id # r
  BY <1>1, AcceptMoves DEF RetryOf
<1> QED
  BY <1>1, <1>2, AcceptMoves DEF RetryOf, SameIdentity, SameNullifier

LEMMA SettleKeepsRetry ==
  ASSUME IInv, RetryInv, NEW r \in Requests, NEW result \in Terminal, Settle(r, result)
  PROVE  RetryInv'
<1> SUFFICES ASSUME NEW q \in Requests, answer'[q] = "RETRY" PROVE RetryOf(q)'
  BY DEF RetryInv
<1>1. use[r] = "ACCEPTED_PENDING_ACTION" /\ \A u \in Requests \ {r} : use'[u] = use[u]
  BY DEF Settle, IInv, TypeOK
<1>2. UNCHANGED reqVars
  BY DEF Settle
<1>3. RetryOf(q)
  BY <1>2 DEF RetryInv, reqVars
<1>4. found[q].id = r => found[q].status \notin Terminal
  BY <1>1, <1>3 DEF RetryOf, Live, Terminal
<1> QED
  BY <1>1, <1>2, <1>3, <1>4 DEF reqVars, RetryOf, SameIdentity, SameNullifier

LEMMA ResetKeepsRetry ==
  ASSUME IInv, RetryInv, ResetDemoRun
  PROVE  RetryInv'
<1>1. \A u \in Requests : use'[u] \notin Live
  BY DEF ResetDemoRun, IInv, TypeOK, LiveUses, Live
<1>2. UNCHANGED reqVars
  BY DEF ResetDemoRun
<1> QED
  BY <1>1, <1>2 DEF reqVars, RetryInv, RetryOf, SameIdentity, SameNullifier

-----------------------------------------------------------------------------
(* A use that was known before the request began.                          *)

\* The lookup of such a request finds its use and nothing else.
LEMMA KnownFindsRetry ==
  ASSUME IInv, NEW r \in Requests, NEW u \in Requests, use[u] \in Live, SameIdentity(u, r)
  PROVE  Rows(r) = {u}
<1>1. u \in Rows(r)
  BY DEF Rows, SameIdentity
<1>2. ASSUME NEW v \in Rows(r) PROVE v = u
  BY DEF Rows, SameIdentity, SameNullifier, IInv, NoTwoAlike
<1> QED
  BY <1>1, <1>2

LEMMA MovesKeepKnown ==
  ASSUME IInv, KnownInv, IdleKnowsNothing, NEW r \in Requests, Moves(r)
  PROVE  KnownInv' /\ IdleKnowsNothing'
<1> USE DEF Give, GiveRecorded, Goto, LookUp
<1>1. ReadsOnly(r)
  BY MovesReadOnly
<1>2. \A u \in Requests : use[u] \in Live => u # r
  BY <1>1 DEF ReadsOnly, IInv, LiveUses
<1>3. ASSUME NEW q \in Requests \ {r}, known'[q], run' = seenRun'[q]
      PROVE  /\ \E u \in Requests : use'[u] \in Live /\ SameIdentity(u, q)'
             /\ pc'[q] \in {"lookup", "record", "done"}
             /\ pc'[q] = "record" => answer'[q] = "RETRY"
             /\ pc'[q] = "done" => answer'[q] \in {"RETRY", "LOST"}
  <2>1. known[q] /\ run = seenRun[q]
    BY <1>1, <1>3, MovesReadOnly DEF ReadsOnly
  <2>2. PICK u \in Requests : use[u] \in Live /\ SameIdentity(u, q)
    BY <2>1 DEF KnownInv
  <2>3. use'[u] \in Live /\ SameIdentity(u, q)'
    BY <1>1, <1>2, <2>2 DEF ReadsOnly, SameIdentity, SameNullifier
  <2> QED
    BY <1>1, <2>1, <2>3 DEF ReadsOnly, KnownInv
<1>4. ASSUME known'[r], run' = seenRun'[r]
      PROVE  /\ \E u \in Requests : use'[u] \in Live /\ SameIdentity(u, r)'
             /\ pc'[r] \in {"lookup", "record", "done"}
             /\ pc'[r] = "record" => answer'[r] = "RETRY"
             /\ pc'[r] = "done" => answer'[r] \in {"RETRY", "LOST"}
  <2>1. CASE Begin(r)
    <3>1. pc'[r] = "lookup" /\ seenRun'[r] = run /\ UNCHANGED <<use, pres>>
      BY <2>1 DEF Begin, IInv, TypeOK, dbVars
    <3>2. PICK u \in Requests : /\ use[u] \in Live /\ seenRun[u] = run
                                /\ SameNullifier(u, r) /\ pres[u].op = pres[r].op
                                /\ pres[u].intent = pres[r].intent
      BY <1>4, <2>1 DEF Begin, IInv, TypeOK
    <3>3. SameIdentity(u, r)'
      BY <1>1, <1>2, <3>1, <3>2 DEF ReadsOnly, SameIdentity, SameNullifier
    <3> QED
      BY <3>1, <3>2, <3>3
  <2>2. CASE ~Begin(r)
    <3>1. known[r] /\ run = seenRun[r] /\ pc[r] # "idle"
      <4>1. pc[r] # "idle"
        BY <2>2 DEF Moves, Step, FindNothing, FindConflict, FindRetry, Record, CheckPolicy,
           ReadChallenge, Verify, Refuse, LoseRace, Abort
      <4> QED
        BY <1>1, <1>4, <4>1, MovesReadOnly DEF ReadsOnly
    <3>2. PICK u \in Requests : use[u] \in Live /\ SameIdentity(u, r)
      BY <3>1 DEF KnownInv
    <3>3. use'[u] \in Live /\ SameIdentity(u, r)'
      BY <1>1, <1>2, <3>1, <3>2, MovesReadOnly DEF ReadsOnly, SameIdentity, SameNullifier
    <3>4. Rows(r) = {u}
      BY <3>2, KnownFindsRetry
    <3>5. pc[r] \in {"lookup", "record"} /\ (pc[r] = "record" => answer[r] = "RETRY")
      BY <1>1, <3>1 DEF ReadsOnly, KnownInv
    <3>6. FindRetry(r) \/ Record(r) \/ Abort(r)
      BY <2>2, <3>2, <3>4, <3>5 DEF Moves, Step, FindNothing, FindConflict, CheckPolicy,
         ReadChallenge, Verify, Refuse, LoseRace
    <3>7. /\ pc'[r] \in {"record", "done"}
          /\ pc'[r] = "record" => answer'[r] = "RETRY"
          /\ pc'[r] = "done" => answer'[r] \in {"RETRY", "LOST"}
      <4>1. CASE FindRetry(r)
        BY <4>1 DEF FindRetry, IInv, TypeOK
      <4>2. CASE Record(r)
        <5>1. use[found[r].id] \in Live /\ answer[r] = "RETRY"
          BY <3>1, <3>5, <4>2 DEF Record, IInv, RetryRowIsThere
        <5> QED
          BY <4>2, <5>1 DEF Record, IInv, TypeOK
      <4>3. CASE Abort(r)
        BY <4>3 DEF Abort, IInv, TypeOK
      <4> QED
        BY <3>6, <4>1, <4>2, <4>3
    <3> QED
      BY <3>3, <3>7
  <2> QED
    BY <2>1, <2>2
<1>5. KnownInv'
  BY <1>3, <1>4 DEF KnownInv
<1>6. IdleKnowsNothing'
  BY <1>1, MovesReadOnly DEF ReadsOnly, IdleKnowsNothing
<1> QED
  BY <1>5, <1>6

\* Steps after which every request is where it was, or has been accepted.
LEMMA WritesKeepKnown ==
  ASSUME IInv, KnownInv, IdleKnowsNothing,
         UNCHANGED <<run, pres, seenRun, known>>,
         \A u \in Requests : use[u] \in Live => use'[u] \in Live,
         \A q \in Requests : \/ pc'[q] = pc[q] /\ answer'[q] = answer[q]
                             \/ pc[q] = "accept" /\ pc'[q] = "done"
  PROVE  KnownInv' /\ IdleKnowsNothing'
BY DEF KnownInv, IdleKnowsNothing, SameIdentity, SameNullifier

LEMMA ResetKeepsKnown ==
  ASSUME IInv, IdleKnowsNothing, ResetDemoRun
  PROVE  KnownInv' /\ IdleKnowsNothing'
<1>1. run' = run + 1 /\ UNCHANGED reqVars
  BY DEF ResetDemoRun
<1>2. \A r \in Requests : seenRun[r] \in Int /\ run \in Int /\ seenRun[r] <= run
  BY DEF IInv, TypeOK, SeenRunIsPast
<1>3. \A r \in Requests : seenRun'[r] # run'
  BY <1>1, <1>2 DEF reqVars
<1> QED
  BY <1>1, <1>3 DEF reqVars, KnownInv, IdleKnowsNothing

-----------------------------------------------------------------------------
(* Refusals for staleness.                                                 *)

\* A live use was accepted before its policy and its challenge ended, with its
\* challenge consumed: if the challenge is not, no copy lives.
LEMMA UnconsumedHasNoCopy ==
  ASSUME IInv, NEW r \in Requests,
         \/ seenRun[r] # run
         \/ chal[pres[r].ch].state # "CONSUMED"
         \/ Rows(r) = {}
  PROVE  NoCopyLives(r)
BY DEF NoCopyLives, IInv, LiveUses, Rows, SameNullifier

\* Why a request is refused for staleness, and why it goes to look for an earlier
\* decision before it is.
LEMMA BecomesStale ==
  ASSUME IInv, StaleInv, ApiSkew <= 0, NEW r \in Requests, Moves(r)
  PROVE  /\ pc'[r] = "challenge" => clock'[r] = ApiNow
         /\ resume'[r] \in Stale => resume[r] \in Stale \/ (pc[r] # "idle" /\ Hopeless(r))
         /\ answer'[r] \in Stale =>
              \/ answer[r] \in Stale
              \/ pc'[r] = "done" /\ pc[r] # "idle" /\ Hopeless(r) /\ NoCopyLives(r)
<1> USE DEF Give, GiveRecorded, Goto, LookUp, IInv, TypeOK
<1>1. now \in Int /\ ApiNow \in Int /\ ApiNow <= now
  BY ConstantsAssumption DEF ApiNow
<1>2. pres[r].ch \in Challenges
  BY ConstantsAssumption DEF Presentations
<1>3. CASE Begin(r)
  BY <1>3 DEF Begin
<1>4. CASE FindNothing(r)
  <2>1. resume[r] \in Stale => Hopeless(r) /\ NoCopyLives(r) /\ pc[r] # "idle"
    BY <1>4, UnconsumedHasNoCopy DEF FindNothing, StaleInv
  <2> QED
    BY <1>4, <2>1 DEF FindNothing, Stale
<1>5. CASE FindConflict(r) \/ FindRetry(r)
  <2>1. answer'[r] \in Conflicts \cup {"RETRY"} /\ pc'[r] = "record" /\ UNCHANGED resume
    BY <1>5 DEF FindConflict, FindRetry, Conflict, Conflicts
  <2> QED
    BY <2>1 DEF Conflicts, Stale
<1>6. CASE Record(r) \/ Abort(r)
  <2>1. answer'[r] \in {answer[r], "INTERNAL_ERROR", "LOST"} /\ pc'[r] = "done" /\ UNCHANGED resume
    BY <1>6 DEF Record, Abort
  <2> QED
    BY <2>1 DEF Stale
<1>7. CASE CheckPolicy(r)
  <2>1. /\ clock'[r] = ApiNow /\ UNCHANGED answer /\ pc[r] # "idle"
        /\ resume'[r] = resume[r] \/ (resume'[r] = "POLICY_REJECTED" /\ ~(ApiNow < PolicyEnd))
    BY <1>7 DEF CheckPolicy
  <2>2. ~(ApiNow < PolicyEnd) => Hopeless(r)
    BY <1>1, ConstantsAssumption DEF Hopeless
  <2> QED
    BY <2>1, <2>2
<1>8. CASE ReadChallenge(r)
  <2>1. /\ pc[r] = "challenge" /\ pc'[r] # "challenge"
        /\ answer'[r] \in {answer[r], "PRESENTATION_REJECTED"}
        /\ resume'[r] \in {resume[r], "LEDGER_INCONSISTENT", "CHALLENGE_EXPIRED"}
        /\ resume'[r] = "CHALLENGE_EXPIRED" /\ resume[r] # "CHALLENGE_EXPIRED" =>
             /\ chal[pres[r].ch].state = "ISSUED"
             /\ ~(clock[r] < chal[pres[r].ch].expires)
    BY <1>8 DEF ReadChallenge
  <2>2. clock[r] <= ApiNow /\ clock[r] \in Int /\ chal[pres[r].ch].expires \in Int
    BY <1>2, <2>1 DEF StaleInv, ChallengeRows
  <2>3. ~(clock[r] < chal[pres[r].ch].expires) => now >= chal[pres[r].ch].expires
    BY <1>1, <2>2
  <2> QED
    BY <2>1, <2>3 DEF Stale, Hopeless
<1>9. CASE Verify(r)
  BY <1>9 DEF Verify, Stale
<1>10. CASE Refuse(r)
  <2>1. /\ pc[r] = "accept" /\ pc'[r] = "done" /\ answer'[r] = Precondition(r) /\ UNCHANGED resume
    BY <1>10 DEF Refuse
  <2>2. Precondition(r) \in Stale =>
          \/ run # seenRun[r]
          \/ /\ chal[pres[r].ch].state \in {"ISSUED", "CONSUMED"}
             /\ chal[pres[r].ch].state # "CONSUMED"
             /\ now >= PolicyEnd \/ now >= chal[pres[r].ch].expires
    BY DEF Precondition, Stale, ChallengeMatches
  <2>3. run # seenRun[r] => seenRun[r] < run
    <3>1. seenRun[r] \in Int /\ run \in Int /\ seenRun[r] <= run
      BY ConstantsAssumption DEF SeenRunIsPast
    <3> HIDE DEF IInv, TypeOK
    <3> QED
      BY <3>1
  <2>4. Precondition(r) \in Stale => Hopeless(r) /\ NoCopyLives(r)
    BY <2>2, <2>3, UnconsumedHasNoCopy DEF Hopeless
  <2> QED
    BY <2>1, <2>4
<1>11. CASE LoseRace(r)
  BY <1>11 DEF LoseRace, Stale
<1> QED
  BY <1>3, <1>4, <1>5, <1>6, <1>7, <1>8, <1>9, <1>10, <1>11 DEF Moves, Step

\* Nothing brings hope back.
LEMMA HopelessStays ==
  ASSUME IInv, NEW r \in Requests, Hopeless(r), pc[r] # "idle",
         run <= run', run' \in Int, now <= now', now' \in Int,
         UNCHANGED pres, seenRun'[r] = seenRun[r],
         \A c \in Challenges : chal[c].state # "NONE" =>
           chal'[c].state # "NONE" /\ chal'[c].expires = chal[c].expires
  PROVE  Hopeless(r)'
<1>1. /\ pres[r].ch \in Challenges /\ run \in Int /\ now \in Int /\ seenRun[r] \in Int
      /\ chal[pres[r].ch].expires \in Int
  BY ConstantsAssumption DEF IInv, TypeOK, Presentations, ChallengeRows
<1> QED
  BY <1>1, ConstantsAssumption DEF Hopeless

LEMMA MovesKeepStale ==
  ASSUME IInv, StaleInv, ApiSkew <= 0, NEW r \in Requests, Moves(r)
  PROVE  StaleInv'
<1>1. ReadsOnly(r) /\ now' = now /\ ApiNow' = ApiNow /\ ApiNow \in Int /\ run \in Int /\ now \in Int
  BY MovesReadOnly, ConstantsAssumption DEF ApiNow, IInv, TypeOK
<1>2. \A q \in Requests : Hopeless(q) /\ pc[q] # "idle" => Hopeless(q)'
  <2> TAKE q \in Requests
  <2> HAVE Hopeless(q) /\ pc[q] # "idle"
  <2>1. UNCHANGED <<pres, run, chal>> /\ seenRun'[q] = seenRun[q]
    BY <1>1, MovesReadOnly DEF ReadsOnly
  <2> QED
    BY <1>1, <2>1 DEF Hopeless
<1>3. \A q \in Requests : NoCopyLives(q) /\ pc[q] # "idle" => NoCopyLives(q)'
  <2>1. \A u \in Requests : use[u] \in Live => seenRun'[u] = seenRun[u] /\ u # r
    BY <1>1, MovesReadOnly DEF ReadsOnly, IInv, LiveUses
  <2>2. \A q \in Requests : pc[q] # "idle" => seenRun'[q] = seenRun[q]
    BY <1>1, MovesReadOnly DEF ReadsOnly
  <2> QED
    BY <1>1, <2>1, <2>2 DEF NoCopyLives, ReadsOnly
<1>4. ASSUME NEW q \in Requests \ {r}
      PROVE  /\ pc'[q] = "challenge" => clock'[q] <= ApiNow'
             /\ resume'[q] \in Stale => pc'[q] # "idle" /\ Hopeless(q)'
             /\ answer'[q] \in Stale => pc'[q] = "done" /\ Hopeless(q)' /\ NoCopyLives(q)'
  BY <1>1, <1>2, <1>3, MovesReadOnly DEF ReadsOnly, StaleInv
<1>5. /\ pc'[r] = "challenge" => clock'[r] <= ApiNow'
      /\ resume'[r] \in Stale => pc'[r] # "idle" /\ Hopeless(r)'
      /\ answer'[r] \in Stale => pc'[r] = "done" /\ Hopeless(r)' /\ NoCopyLives(r)'
  <2>1. pc[r] # "done" /\ pc'[r] # "idle"
    BY <1>1 DEF ReadsOnly
  <2>2. answer[r] \notin Stale /\ (resume[r] \in Stale => pc[r] # "idle" /\ Hopeless(r))
    BY <2>1 DEF StaleInv
  <2> QED
    BY <1>1, <1>2, <1>3, <2>1, <2>2, BecomesStale
<1> QED
  BY <1>4, <1>5 DEF StaleInv

\* A request is not accepted for a presentation that was refused as stale.
LEMMA AcceptKeepsStale ==
  ASSUME IInv, StaleInv, NEW r \in Requests, Accept(r)
  PROVE  StaleInv'
<1>1. ASSUME NEW q \in Requests, pres[r] = pres[q], seenRun[r] = seenRun[q] PROVE ~Hopeless(q)
  <2>1. run = seenRun[r] /\ now < PolicyEnd /\ now < chal[pres[r].ch].expires
    <3>1. Precondition(r) = "MET"
      BY DEF Accept
    <3>2. run \in Int /\ now \in Int /\ chal[pres[r].ch].expires \in Int
      BY ConstantsAssumption DEF IInv, TypeOK, Presentations, ChallengeRows
    <3> QED
      BY <3>1, <3>2, ConstantsAssumption DEF Precondition
  <2>2. now \in Int /\ run \in Int /\ chal[pres[r].ch].expires \in Int
    BY ConstantsAssumption DEF IInv, TypeOK, Presentations, ChallengeRows
  <2> QED
    BY <1>1, <2>1, <2>2, ConstantsAssumption DEF Hopeless
<1>2. ASSUME NEW q \in Requests, Hopeless(q), pc[q] # "idle" PROVE Hopeless(q)'
  <2>1. \A c \in Challenges : chal[c].state # "NONE" =>
          chal'[c].state # "NONE" /\ chal'[c].expires = chal[c].expires
    BY DEF Accept, IInv, TypeOK, ChallengeRows
  <2>2. UNCHANGED <<run, now, pres, seenRun>> /\ run \in Int /\ now \in Int
    BY ConstantsAssumption DEF Accept, IInv, TypeOK
  <2> QED
    BY <1>2, <2>1, <2>2, HopelessStays
<1>3. ASSUME NEW q \in Requests, Hopeless(q), NoCopyLives(q) PROVE NoCopyLives(q)'
  <2>1. ~(pres[r] = pres[q] /\ seenRun[r] = seenRun[q])
    BY <1>1, <1>3
  <2> QED
    BY <1>3, <2>1, AcceptMoves DEF NoCopyLives
<1>4. ApiNow' = ApiNow
  BY AcceptMoves DEF ApiNow
<1>5. answer'[r] \notin Stale
  BY AcceptMoves DEF Stale
<1> QED
  BY <1>2, <1>3, <1>4, <1>5, AcceptMoves DEF StaleInv

LEMMA ShiftKeepsOrder ==
  ASSUME NEW a \in Int, NEW b \in Int, NEW k \in Int, a <= b
  PROVE  a + k \in Int /\ b + k \in Int /\ a + k <= b + k
OBVIOUS

\* The API's clock goes forward with the database's.
LEMMA ApiClockAdvances ==
  ASSUME now \in Int, now' \in Int, now <= now'
  PROVE  ApiNow \in Int /\ ApiNow' \in Int /\ ApiNow <= ApiNow'
BY ConstantsAssumption, ShiftKeepsOrder DEF ApiNow

\* Steps around the requests that accept nothing.
LEMMA EnvironmentKeepsStale ==
  ASSUME IInv, StaleInv, TypeOK', UNCHANGED reqVars, run <= run', now <= now',
         \A u \in Requests : use'[u] \in Live => use[u] \in Live,
         \A c \in Challenges : chal[c].state # "NONE" =>
           chal'[c].state # "NONE" /\ chal'[c].expires = chal[c].expires
  PROVE  StaleInv'
<1>1. /\ run' \in Int /\ now' \in Int /\ now \in Int
      /\ \A q \in Requests : clock[q] \in Int
  BY ConstantsAssumption DEF IInv, TypeOK
<1>2. \A q \in Requests : Hopeless(q) /\ pc[q] # "idle" => Hopeless(q)'
  BY <1>1, HopelessStays DEF reqVars
<1>3. \A q \in Requests : NoCopyLives(q) => NoCopyLives(q)'
  BY DEF NoCopyLives, reqVars
<1>4. \A q \in Requests : pc[q] = "challenge" => clock[q] <= ApiNow'
  <2>1. ApiNow <= ApiNow' /\ ApiNow \in Int /\ ApiNow' \in Int
    BY <1>1, ApiClockAdvances
  <2> QED
    BY <1>1, <2>1 DEF StaleInv
<1> QED
  BY <1>2, <1>3, <1>4 DEF StaleInv, reqVars

-----------------------------------------------------------------------------
(* The three invariants together.                                          *)

ToldInv == RetryInv /\ KnownInv /\ IdleKnowsNothing

LEMMA InitTold == Init => ToldInv /\ StaleInv
BY DEF Init, ToldInv, RetryInv, KnownInv, IdleKnowsNothing, StaleInv, Stale

LEMMA NextKeepsTold == IInv /\ ToldInv /\ [Next]_vars => ToldInv'
<1> SUFFICES ASSUME IInv, ToldInv, [Next]_vars PROVE ToldInv'
  OBVIOUS
<1> USE DEF ToldInv
<1>1. ASSUME NEW r \in Requests, Moves(r) PROVE ToldInv'
  BY <1>1, MovesKeepRetry, MovesKeepKnown
<1>2. ASSUME NEW r \in Requests, Accept(r) PROVE ToldInv'
  <2>1. KnownInv' /\ IdleKnowsNothing'
    <3>1. \A u \in Requests : use[u] \in Live => use'[u] \in Live
      BY <1>2, AcceptMoves DEF Live
    <3> QED
      BY <1>2, <3>1, AcceptMoves, WritesKeepKnown
  <2> QED
    BY <1>2, <2>1, AcceptKeepsRetry
<1>3. ASSUME NEW r \in Requests, NEW result \in Terminal, Settle(r, result) PROVE ToldInv'
  <2>1. UNCHANGED <<run, reqVars>> /\ \A u \in Requests : use[u] \in Live => use'[u] \in Live
    BY <1>3 DEF Settle, IInv, TypeOK, Live, Terminal
  <2> QED
    BY <1>3, <2>1, SettleKeepsRetry, WritesKeepKnown DEF reqVars
<1>4. CASE ResetDemoRun
  BY <1>4, ResetKeepsRetry, ResetKeepsKnown
<1>5. CASE UNCHANGED <<run, use, reqVars>>
  <2>1. RetryInv'
    BY <1>5 DEF reqVars, RetryInv, RetryOf, SameIdentity, SameNullifier
  <2> QED
    BY <1>5, <2>1, WritesKeepKnown DEF reqVars
<1> QED
  BY <1>1, <1>2, <1>3, <1>4, <1>5 DEF Next, Environment, Moves, IssueCredential,
     CreateChallenge, Tick, vars, reqVars

LEMMA NextKeepsStale ==
  ASSUME ApiSkew <= 0
  PROVE  IInv /\ IInv' /\ StaleInv /\ [Next]_vars => StaleInv'
<1> SUFFICES ASSUME IInv, IInv', StaleInv, [Next]_vars PROVE StaleInv'
  OBVIOUS
<1>0. TypeOK' /\ run \in Int /\ now \in Int
  BY ConstantsAssumption DEF IInv, TypeOK
<1>1. ASSUME NEW r \in Requests, Moves(r) PROVE StaleInv'
  BY <1>1, MovesKeepStale
<1>2. ASSUME NEW r \in Requests, Accept(r) PROVE StaleInv'
  BY <1>2, AcceptKeepsStale
<1>3. ASSUME NEW r \in Requests, NEW result \in Terminal, Settle(r, result) PROVE StaleInv'
  <2>1. /\ UNCHANGED <<run, now, chal, reqVars>>
        /\ \A u \in Requests : use'[u] \in Live => use[u] \in Live
    BY <1>3 DEF Settle, IInv, TypeOK, Live, Terminal
  <2> QED
    BY <1>0, <2>1, EnvironmentKeepsStale
<1>4. CASE ResetDemoRun
  <2>1. UNCHANGED <<now, reqVars>> /\ run <= run'
    BY <1>0, <1>4 DEF ResetDemoRun
  <2>2. \A u \in Requests : use'[u] \in Live => use[u] \in Live
    BY <1>4 DEF ResetDemoRun, IInv, TypeOK, Live
  <2>3. \A c \in Challenges : chal[c].state # "NONE" =>
          chal'[c].state # "NONE" /\ chal'[c].expires = chal[c].expires
    BY <1>4 DEF ResetDemoRun, IInv, TypeOK, ChallengeRows
  <2> QED
    BY <1>0, <2>1, <2>2, <2>3, EnvironmentKeepsStale
<1>5. ASSUME NEW c \in Challenges, CreateChallenge(c) PROVE StaleInv'
  <2>1. /\ UNCHANGED <<run, now, use, reqVars>> /\ chal[c].state = "NONE"
        /\ \A d \in Challenges \ {c} : chal'[d] = chal[d]
    BY <1>5 DEF CreateChallenge, IInv, TypeOK
  <2> QED
    BY <1>0, <2>1, EnvironmentKeepsStale
<1>6. ASSUME NEW k \in Credentials, IssueCredential(k) PROVE StaleInv'
  BY <1>0, <1>6, EnvironmentKeepsStale DEF IssueCredential
<1>7. CASE Tick
  BY <1>0, <1>7, EnvironmentKeepsStale DEF Tick
<1>8. CASE UNCHANGED vars
  BY <1>0, <1>8, EnvironmentKeepsStale DEF vars, reqVars
<1> QED
  BY <1>1, <1>2, <1>3, <1>4, <1>5, <1>6, <1>7, <1>8 DEF Next, Environment, Moves

\* What a request knows of the use it is a retry of is true of the ledger, at every
\* round trip of `present` between the lookup and the answer.
THEOREM ToldInvariance == Spec => []ToldInv
<1>1. Init => ToldInv
  BY InitTold
<1> QED
  BY <1>1, Invariance, NextKeepsTold, PTL DEF Spec

\* A request answered as a retry is told about the use of its own nullifier,
\* operation and intent, of its own run, and a terminal status it was told stays
\* true as long as the use exists.
THEOREM RetriesNameTheirUse == Spec => []RetryNamesItsUse
<1>1. IInv /\ ToldInv => RetryNamesItsUse
  <2> SUFFICES ASSUME IInv, ToldInv, NEW r \in Requests, answer[r] = "RETRY"
               PROVE  LET u == found[r].id IN
                      /\ u # r /\ answer[u] # "RETRY" /\ seenRun[u] = seenRun[r]
                      /\ [pres[u] EXCEPT !.ch = pres[r].ch] = pres[r]
                      /\ use[u] \in Live /\ found[r].status \in Terminal =>
                           use[u] = found[r].status
    BY DEF RetryNamesItsUse
  <2> DEFINE u == found[r].id
  <2>1. RetryOf(r) /\ u \in Requests /\ answer[u] = "ACCEPTED"
    BY DEF ToldInv, RetryInv, RetryOf
  <2>2. pres[u] \in Presentations /\ pres[r] \in Presentations
    BY <2>1, ConstantsAssumption DEF IInv, TypeOK
  <2>3. [pres[u] EXCEPT !.ch = pres[r].ch] = pres[r]
    BY <2>1, <2>2 DEF RetryOf, SameIdentity, SameNullifier, Presentations
  <2> QED
    BY <2>1, <2>3 DEF RetryOf, SameIdentity
<1> QED
  BY <1>1, Invariance, ToldInvariance, PTL

\* A retry that starts after its use was committed is answered as a retry.
THEOREM ExactRetriesResolve == Spec => []ExactRetryResolved
<1>1. ToldInv => ExactRetryResolved
  BY DEF ToldInv, KnownInv, ExactRetryResolved
<1> QED
  BY <1>1, ToldInvariance, PTL

\* When the API's clock is not ahead of the database's, a refusal for staleness
\* is final: no copy of the presentation is accepted.
THEOREM StaleRefusalsAreFinal ==
  ASSUME ApiSkew <= 0
  PROVE  Spec => []StaleRefusalIsFinal
<1>1. Init => StaleInv
  BY InitTold
<1>2. IInv /\ IInv' /\ StaleInv /\ [Next]_vars => StaleInv'
  BY NextKeepsStale
<1>3. StaleInv => StaleRefusalIsFinal
  BY DEF StaleInv, NoCopyLives, Stale, StaleRefusalIsFinal
<1> QED
  BY <1>1, <1>2, <1>3, Invariance, PTL DEF Spec

-----------------------------------------------------------------------------
(* What can make a request be refused when a copy of it has been accepted. *)

\* What the proof verifier checks of a presentation besides the time.
Admissible(r) == cred[pres[r].cred] = seenRun[r] /\ pres[r].slot < L

\* The API's clock is past the policy or past the challenge.
Expired(c) == ApiNow >= PolicyEnd \/ ApiNow >= chal[c].expires

\* The proof verifier's refusal, and its cause, which no later step removes.
Lasting(r) ==
  /\ answer[r] = "PRESENTATION_REJECTED"
  /\ Admissible(r) => Expired(pres[r].ch)

\* What is presented has been issued, an accepted use was admissible and asked
\* for, and a refusal waiting to be recorded has a cause that lasts.
RefusalInv ==
  \A r \in Requests :
    /\ pc[r] # "idle" => cred[pres[r].cred] # 0 /\ chal[pres[r].ch].state # "NONE"
    /\ pc[r] = "accept" \/ use[r] \in Live => Admissible(r)
    /\ use[r] \in Live => AskedFor[pres[r].ch].intent = pres[r].intent
    /\ pc[r] = "record" /\ answer[r] \in Refusals => Lasting(r)

LEMMA InitRefusal == Init => RefusalInv
BY DEF Init, RefusalInv, Live

\* How a step of a request comes to hold, or to record, a refusal.
LEMMA BecomesRefused ==
  ASSUME IInv, RefusalInv, NEW r \in Requests, Moves(r)
  PROVE  /\ cred' = cred
         /\ cred[pres[r].cred] # 0 /\ chal[pres[r].ch].state # "NONE"
         /\ pc'[r] = "accept" => Admissible(r) /\ seenRun'[r] = seenRun[r]
         /\ pc'[r] = "record" /\ answer'[r] \in Refusals =>
              /\ answer'[r] = "PRESENTATION_REJECTED" /\ seenRun'[r] = seenRun[r]
              /\ Admissible(r) => Expired(pres[r].ch)
<1> USE DEF Give, GiveRecorded, Goto, LookUp, IInv, TypeOK, dbVars
<1>1. cred' = cred
  BY DEF Moves, Step, Begin, FindNothing, FindConflict, FindRetry, Record, CheckPolicy,
         ReadChallenge, Verify, Refuse, LoseRace, Abort
<1>2. CASE Begin(r)
  BY <1>1, <1>2 DEF Begin
<1>3. CASE Verify(r)
  <2>1. cred[pres[r].cred] # 0 /\ chal[pres[r].ch].state # "NONE" /\ UNCHANGED seenRun
    BY <1>3 DEF Verify, RefusalInv
  <2>2. pc'[r] = "accept" => Admissible(r)
    BY <1>3 DEF Verify, ProofValid, Admissible
  <2>3. ~ProofValid(r) /\ Admissible(r) => Expired(pres[r].ch)
    <3>1. now \in Int /\ ApiNow \in Int /\ chal[pres[r].ch].expires \in Int /\ PolicyEnd \in Int
      BY ConstantsAssumption DEF ApiNow, Presentations, ChallengeRows
    <3> QED
      BY <3>1 DEF ProofValid, Admissible, Expired
  <2>4. pc'[r] = "record" => ~ProofValid(r) /\ answer'[r] = "PRESENTATION_REJECTED"
    BY <1>3 DEF Verify
  <2> QED
    BY <1>1, <2>1, <2>2, <2>3, <2>4
<1>4. CASE ~Begin(r) /\ ~Verify(r)
  <2>1. pc[r] # "idle" /\ UNCHANGED seenRun
    BY <1>4 DEF Moves, Step, FindNothing, FindConflict, FindRetry, Record, CheckPolicy,
         ReadChallenge, Refuse, LoseRace, Abort
  <2>2. pc'[r] # "accept"
    BY <1>4 DEF Moves, Step, FindNothing, FindConflict, FindRetry, Record, CheckPolicy,
         ReadChallenge, Refuse, LoseRace, Abort
  <2>3. pc'[r] = "record" => FindConflict(r) \/ FindRetry(r)
    BY <1>4 DEF Moves, Step, FindNothing, Record, CheckPolicy,
         ReadChallenge, Refuse, LoseRace, Abort
  <2>4. FindConflict(r) \/ FindRetry(r) => answer'[r] \in Conflicts \cup {"RETRY"}
    BY DEF FindConflict, FindRetry, Conflict, Conflicts
  <2>5. answer'[r] \in Conflicts \cup {"RETRY"} => answer'[r] \notin Refusals
    BY DEF Conflicts, Refusals
  <2> QED
    BY <1>1, <2>1, <2>2, <2>3, <2>4, <2>5 DEF RefusalInv
<1> QED
  BY <1>2, <1>3, <1>4

LEMMA MovesKeepRefusal ==
  ASSUME IInv, RefusalInv, NEW r \in Requests, Moves(r)
  PROVE  RefusalInv'
<1>1. ReadsOnly(r) /\ UNCHANGED <<now, cred>>
  BY MovesReadOnly, BecomesRefused
<1>2. ApiNow' = ApiNow
  BY <1>1 DEF ApiNow
<1>3. \A u \in Requests : use[u] \in Live => u # r
  BY <1>1 DEF ReadsOnly, IInv, LiveUses
<1>4. ASSUME NEW q \in Requests \ {r}
      PROVE  /\ pc'[q] # "idle" => cred'[pres'[q].cred] # 0 /\ chal'[pres'[q].ch].state # "NONE"
             /\ pc'[q] = "accept" \/ use'[q] \in Live => Admissible(q)'
             /\ use'[q] \in Live => AskedFor[pres'[q].ch].intent = pres'[q].intent
             /\ pc'[q] = "record" /\ answer'[q] \in Refusals => Lasting(q)'
  BY <1>1, <1>2 DEF ReadsOnly, RefusalInv, Lasting, Admissible, Expired
<1>5. /\ cred'[pres'[r].cred] # 0 /\ chal'[pres'[r].ch].state # "NONE"
      /\ pc'[r] = "accept" => Admissible(r)'
      /\ use'[r] \notin Live
      /\ pc'[r] = "record" /\ answer'[r] \in Refusals => Lasting(r)'
  BY <1>1, <1>2, <1>3, BecomesRefused DEF ReadsOnly, Lasting, Admissible, Expired
<1>6. UNCHANGED pres
  BY <1>1 DEF ReadsOnly
<1> QED
  BY <1>4, <1>5, <1>6 DEF RefusalInv

LEMMA AcceptKeepsRefusal ==
  ASSUME IInv, RefusalInv, NEW r \in Requests, Accept(r)
  PROVE  RefusalInv'
<1>1. UNCHANGED <<now, cred, ApiNow>>
  BY DEF Accept, ApiNow
<1>2. Admissible(r) /\ AskedFor[pres[r].ch].intent = pres[r].intent
  BY AcceptMoves DEF RefusalInv, Accept, Precondition, ChallengeMatches
<1>3. \A c \in Challenges : /\ chal'[c].expires = chal[c].expires
                            /\ chal[c].state # "NONE" => chal'[c].state # "NONE"
  BY DEF Accept, IInv, TypeOK, ChallengeRows
<1>4. \A q \in Requests : pres[q].ch \in Challenges
  BY ConstantsAssumption DEF IInv, TypeOK, Presentations
<1>5. UNCHANGED <<pres, seenRun>>
  BY AcceptMoves
<1>6. \A q \in Requests : /\ Admissible(q) <=> Admissible(q)'
                          /\ Expired(pres[q].ch) <=> Expired(pres[q].ch)'
  BY <1>1, <1>3, <1>4, <1>5 DEF Admissible, Expired
<1>7. pc[r] = "accept" /\ pc'[r] = "done"
  BY AcceptMoves
<1>8. \A q \in Requests \ {r} : pc'[q] = pc[q] /\ answer'[q] = answer[q] /\ use'[q] = use[q]
  BY AcceptMoves
<1> QED
  BY <1>1, <1>2, <1>3, <1>4, <1>5, <1>6, <1>7, <1>8 DEF RefusalInv, Lasting

\* What has expired stays so, and a credential is sealed for one run.
LEMMA EnvironmentKeepsRefusal ==
  ASSUME IInv, RefusalInv, TypeOK', UNCHANGED reqVars, now <= now',
         \A u \in Requests : use'[u] \in Live => use[u] \in Live,
         \A k \in Credentials : cred[k] # 0 => cred'[k] = cred[k],
         \A c \in Challenges : chal[c].state # "NONE" =>
           chal'[c].state # "NONE" /\ chal'[c].expires = chal[c].expires
  PROVE  RefusalInv'
<1> SUFFICES ASSUME NEW q \in Requests
             PROVE  /\ pc'[q] # "idle" =>
                         cred'[pres'[q].cred] # 0 /\ chal'[pres'[q].ch].state # "NONE"
                    /\ pc'[q] = "accept" \/ use'[q] \in Live => Admissible(q)'
                    /\ use'[q] \in Live => AskedFor[pres'[q].ch].intent = pres'[q].intent
                    /\ pc'[q] = "record" /\ answer'[q] \in Refusals => Lasting(q)'
  BY DEF RefusalInv
<1>1. /\ pres[q].ch \in Challenges /\ pres[q].cred \in Credentials
      /\ chal[pres[q].ch].expires \in Int
  BY ConstantsAssumption DEF IInv, TypeOK, Presentations, ChallengeRows
<1>2. /\ ApiNow \in Int /\ ApiNow' \in Int /\ ApiNow <= ApiNow'
  BY ApiClockAdvances DEF IInv, TypeOK
<1>3. CASE pc[q] = "idle"
  <2>1. use[q] \notin Live
    BY <1>3 DEF IInv, LiveUses
  <2> QED
    BY <1>3, <2>1 DEF reqVars
<1>4. CASE pc[q] # "idle"
  <2>1. cred'[pres[q].cred] = cred[pres[q].cred] /\ cred[pres[q].cred] # 0
    BY <1>1, <1>4 DEF RefusalInv
  <2>2. /\ chal[pres[q].ch].state # "NONE" /\ chal'[pres[q].ch].state # "NONE"
        /\ chal'[pres[q].ch].expires = chal[pres[q].ch].expires
    BY <1>1, <1>4 DEF RefusalInv
  <2>3. Admissible(q)' <=> Admissible(q)
    BY <2>1 DEF Admissible, reqVars
  <2>4. Expired(pres[q].ch) => Expired(pres[q].ch)'
    BY <1>1, <1>2, <2>2, ConstantsAssumption DEF Expired, reqVars
  <2> QED
    BY <2>1, <2>2, <2>3, <2>4 DEF RefusalInv, Lasting, reqVars
<1> QED
  BY <1>3, <1>4

LEMMA NextKeepsRefusal == IInv /\ IInv' /\ RefusalInv /\ [Next]_vars => RefusalInv'
<1> SUFFICES ASSUME IInv, IInv', RefusalInv, [Next]_vars PROVE RefusalInv'
  OBVIOUS
<1>0. TypeOK' /\ now \in Int
  BY ConstantsAssumption DEF IInv, TypeOK
<1>1. ASSUME NEW r \in Requests, Moves(r) PROVE RefusalInv'
  BY <1>1, MovesKeepRefusal
<1>2. ASSUME NEW r \in Requests, Accept(r) PROVE RefusalInv'
  BY <1>2, AcceptKeepsRefusal
<1>3. ASSUME NEW r \in Requests, NEW result \in Terminal, Settle(r, result) PROVE RefusalInv'
  <2>1. /\ UNCHANGED <<now, cred, chal, reqVars>>
        /\ \A u \in Requests : use'[u] \in Live => use[u] \in Live
    BY <1>3 DEF Settle, IInv, TypeOK, Live, Terminal
  <2> QED
    BY <1>0, <2>1, EnvironmentKeepsRefusal
<1>4. CASE ResetDemoRun
  <2>1. UNCHANGED <<now, cred, reqVars>>
    BY <1>4 DEF ResetDemoRun
  <2>2. \A u \in Requests : use'[u] \in Live => use[u] \in Live
    BY <1>4 DEF ResetDemoRun, IInv, TypeOK, Live
  <2>3. \A c \in Challenges : chal[c].state # "NONE" =>
          chal'[c].state # "NONE" /\ chal'[c].expires = chal[c].expires
    BY <1>4 DEF ResetDemoRun, IInv, TypeOK, ChallengeRows
  <2> QED
    BY <1>0, <2>1, <2>2, <2>3, EnvironmentKeepsRefusal
<1>5. ASSUME NEW c \in Challenges, CreateChallenge(c) PROVE RefusalInv'
  <2>1. /\ UNCHANGED <<now, cred, use, reqVars>> /\ chal[c].state = "NONE"
        /\ \A d \in Challenges \ {c} : chal'[d] = chal[d]
    BY <1>5 DEF CreateChallenge, IInv, TypeOK
  <2> QED
    BY <1>0, <2>1, EnvironmentKeepsRefusal
<1>6. ASSUME NEW k \in Credentials, IssueCredential(k) PROVE RefusalInv'
  <2>1. /\ UNCHANGED <<now, chal, use, reqVars>> /\ cred[k] = 0
        /\ \A j \in Credentials \ {k} : cred'[j] = cred[j]
    BY <1>6 DEF IssueCredential, IInv, TypeOK
  <2> QED
    BY <1>0, <2>1, EnvironmentKeepsRefusal
<1>7. CASE Tick
  BY <1>0, <1>7, EnvironmentKeepsRefusal DEF Tick
<1>8. CASE UNCHANGED vars
  BY <1>0, <1>8, EnvironmentKeepsRefusal DEF vars, reqVars
<1> QED
  BY <1>1, <1>2, <1>3, <1>4, <1>5, <1>6, <1>7, <1>8 DEF Next, Environment, Moves

\* The lookup, the reading of the challenge and the acceptance transaction all find
\* the accepted copy; only the verification after them can refuse the request.
LEMMA RefusedByTheClock ==
  ASSUME IInv, RefusalInv, [Next]_vars, NEW r \in Requests, NEW u \in Requests,
         pc[r] # "done", pc'[r] = "done", answer'[r] \in Refusals,
         pres[u] = pres[r], seenRun[u] = seenRun[r], run = seenRun[r], use[u] \in Live
  PROVE  answer'[r] = "PRESENTATION_REJECTED" /\ Expired(pres[r].ch)
<1>1. u \in Rows(r)
  BY DEF Rows, SameNullifier
<1>2. ChallengeMatches(r) /\ chal[pres[r].ch].state = "CONSUMED"
  <2>1. pres[r].ch \in Challenges
    BY ConstantsAssumption DEF IInv, TypeOK, Presentations
  <2> QED
    BY <2>1 DEF ChallengeMatches, IInv, LiveUses, ChallengesOfRun, RefusalInv
<1>3. Admissible(r)
  BY DEF RefusalInv, Admissible
<1>4. FindNothing(r) \/ Record(r) \/ ReadChallenge(r) \/ Refuse(r)
  <2> USE DEF Give, GiveRecorded, Goto, LookUp, IInv, TypeOK
  <2>1. Environment => Abort(r)
    BY DEF Environment, IssueCredential, CreateChallenge, Settle, ResetDemoRun, Tick, Abort,
       reqVars
  <2>2. ASSUME NEW q \in Requests, Step(q) PROVE q = r
    BY <2>2 DEF Step, Begin, FindNothing, FindConflict, FindRetry, Record, CheckPolicy,
       ReadChallenge, Verify, Accept, Refuse, LoseRace
  <2>3. ~Abort(r) /\ ~Accept(r)
    BY DEF Abort, Accept, Refusals
  <2>4. Step(r)
    BY <2>1, <2>2, <2>3 DEF Next, vars
  <2> QED
    BY <2>3, <2>4 DEF Step, Begin, FindConflict, FindRetry, CheckPolicy, Verify, LoseRace
<1>5. ~FindNothing(r)
  BY <1>1 DEF FindNothing
<1>6. ~ReadChallenge(r)
  BY <1>2 DEF ReadChallenge, LookUp, Goto, IInv, TypeOK
<1>7. ~Refuse(r)
  BY <1>2 DEF Refuse, Precondition, Refusals
<1>8. CASE Record(r)
  <2>1. pc[r] = "record" /\ answer'[r] \in {answer[r], "INTERNAL_ERROR"}
    BY <1>8 DEF Record, Give, IInv, TypeOK
  <2>2. answer[r] \in Refusals
    BY <2>1 DEF Refusals
  <2> QED
    BY <1>3, <2>1, <2>2 DEF RefusalInv, Lasting, Refusals
<1> QED
  BY <1>4, <1>5, <1>6, <1>7, <1>8

\* A request is refused although a copy of it has been accepted in its run only
\* when, by the API's clock, its challenge or the policy has expired: the proof
\* verification, which reads that clock again after the lookup, is the one check
\* that can override the historical decision (rules.md section 9).
THEOREM OnlyExpiryOverrides ==
  Spec => [][\A r, u \in Requests :
               /\ pc[r] # "done" /\ pc'[r] = "done" /\ answer'[r] \in Refusals
               /\ pres[u] = pres[r] /\ seenRun[u] = seenRun[r] /\ run = seenRun[r]
               /\ use[u] \in Live
               => answer'[r] = "PRESENTATION_REJECTED" /\ Expired(pres[r].ch)]_vars
<1>1. IInv /\ RefusalInv /\ [Next]_vars =>
        [\A r, u \in Requests :
           /\ pc[r] # "done" /\ pc'[r] = "done" /\ answer'[r] \in Refusals
           /\ pres[u] = pres[r] /\ seenRun[u] = seenRun[r] /\ run = seenRun[r]
           /\ use[u] \in Live
           => answer'[r] = "PRESENTATION_REJECTED" /\ Expired(pres[r].ch)]_vars
  BY RefusedByTheClock
<1> QED
  BY <1>1, InitRefusal, NextKeepsRefusal, Invariance, PTL DEF Spec
=============================================================================
