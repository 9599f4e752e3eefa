-------------------------- MODULE AcceptanceProofs --------------------------
(***************************************************************************)
(* Proofs about Acceptance, for every number of requests, credentials,     *)
(* operations, challenges, runs and every bound L.                         *)
(***************************************************************************)
EXTENDS Acceptance, FiniteSetTheorems, TLAPS

-----------------------------------------------------------------------------
(* Type correctness.                                                       *)

LEMMA InitTyped == Init => TypeOK
<1> SUFFICES ASSUME Init PROVE TypeOK
  OBVIOUS
<1> USE ConstantsAssumption DEF Init
<1>1. /\ run \in 1..MaxRun /\ now \in 0..MaxTime
      /\ cred \in [Credentials -> 0..MaxRun]
  OBVIOUS
<1>2. chal \in [Challenges -> ChallengeRows]
  BY DEF ChallengeRows
<1>3. /\ use \in [Requests -> UseStates]
      /\ pres \in [Requests -> Sendable]
      /\ pc \in [Requests -> PCs]
      /\ answer \in [Requests -> Answers]
  BY DEF UseStates, PCs, Answers
<1>4. /\ seenRun \in [Requests -> 0..MaxRun]
      /\ clock \in [Requests -> Int]
      /\ resume \in [Requests -> {"CONTINUE", "POLICY_REJECTED",
                                  "CHALLENGE_EXPIRED", "LEDGER_INCONSISTENT"}]
      /\ found \in [Requests -> [id: Requests, status: Live \cup {"NONE"}]]
      /\ known \in [Requests -> BOOLEAN]
  OBVIOUS
<1> QED
  BY <1>1, <1>2, <1>3, <1>4 DEF TypeOK

\* Every step of a request keeps the types.
LEMMA StepTyped ==
  ASSUME TypeOK, NEW r \in Requests, Step(r)
  PROVE  TypeOK'
<1> USE ConstantsAssumption DEF TypeOK, dbVars, reqVars, Give, GiveRecorded,
        Goto, LookUp
<1>1. CASE Begin(r)
  BY <1>1 DEF Begin, PCs
<1>2. CASE FindNothing(r)
  BY <1>2 DEF FindNothing, PCs, Answers, Refusals
<1>3. CASE FindConflict(r)
  BY <1>3 DEF FindConflict, Conflict, Conflicts, PCs, Answers
<1>4. CASE FindRetry(r)
  BY <1>4 DEF FindRetry, Rows, PCs, Answers
<1>5. CASE Record(r)
  BY <1>5 DEF Record, PCs, Answers
<1>6. CASE CheckPolicy(r)
  BY <1>6 DEF CheckPolicy, ApiNow, PCs
<1>7. CASE ReadChallenge(r)
  <2>1. \/ Give(r, "PRESENTATION_REJECTED") /\ resume' = resume
        \/ LookUp(r, "LEDGER_INCONSISTENT") /\ answer' = answer
        \/ Goto(r, "verify") /\ resume' = resume /\ answer' = answer
        \/ LookUp(r, "CHALLENGE_EXPIRED") /\ answer' = answer
    BY <1>7 DEF ReadChallenge
  <2>2. UNCHANGED <<dbVars, pres, seenRun, clock, found, known>>
    BY <1>7 DEF ReadChallenge
  <2> QED
    BY <2>1, <2>2 DEF PCs, Answers, Refusals
<1>8. CASE Verify(r)
  BY <1>8 DEF Verify, PCs, Answers, Refusals
<1>9. CASE Accept(r)
  <2>1. pres[r].ch \in Challenges
    BY DEF Presentations
  <2>2. chal' \in [Challenges -> ChallengeRows]
    BY <1>9, <2>1 DEF Accept, ChallengeRows
  <2>3. use' \in [Requests -> UseStates]
    BY <1>9 DEF Accept, UseStates, Live
  <2> QED
    BY <1>9, <2>2, <2>3 DEF Accept, PCs, Answers
<1>10. CASE Refuse(r)
  BY <1>10 DEF Refuse, PCs, Answers
<1>11. CASE LoseRace(r)
  BY <1>11 DEF LoseRace, PCs
<1> QED
  BY <1>1, <1>2, <1>3, <1>4, <1>5, <1>6, <1>7, <1>8, <1>9, <1>10, <1>11
     DEF Step

\* Everything around the requests keeps the types.
LEMMA EnvironmentTyped ==
  ASSUME TypeOK, Environment
  PROVE  TypeOK'
<1> USE ConstantsAssumption DEF TypeOK, reqVars
<1>1. ASSUME NEW k \in Credentials, IssueCredential(k) PROVE TypeOK'
  BY <1>1 DEF IssueCredential
<1>2. ASSUME NEW c \in Challenges, CreateChallenge(c) PROVE TypeOK'
  BY <1>2 DEF CreateChallenge, ApiNow, ChallengeRows
<1>3. ASSUME NEW r \in Requests, NEW result \in Terminal, Settle(r, result)
      PROVE  TypeOK'
  BY <1>3 DEF Settle, UseStates, Live, Terminal
<1>4. ASSUME NEW r \in Requests, Abort(r) PROVE TypeOK'
  BY <1>4 DEF Abort, dbVars, Give, Goto, PCs, Answers
<1>5. CASE ResetDemoRun
  <2>1. use' \in [Requests -> UseStates]
    BY <1>5 DEF ResetDemoRun, UseStates
  <2>2. chal' \in [Challenges -> ChallengeRows]
    BY <1>5 DEF ResetDemoRun, ChallengeRows
  <2> QED
    BY <1>5, <2>1, <2>2 DEF ResetDemoRun
<1>6. CASE Tick
  BY <1>6 DEF Tick
<1> QED
  BY <1>1, <1>2, <1>3, <1>4, <1>5, <1>6 DEF Environment

\* The rows, program counters and captured values of the acceptance path stay
\* within their types, whatever the sizes of the constants.
THEOREM TypeCorrect == Spec => []TypeOK
<1>1. TypeOK /\ [Next]_vars => TypeOK'
  <2> SUFFICES ASSUME TypeOK, [Next]_vars PROVE TypeOK'
    OBVIOUS
  <2>1. CASE Environment
    BY <2>1, EnvironmentTyped
  <2>2. ASSUME NEW r \in Requests, Step(r) PROVE TypeOK'
    BY <2>2, StepTyped
  <2>3. CASE UNCHANGED vars
    BY <2>3 DEF TypeOK, vars
  <2> QED
    BY <2>1, <2>2, <2>3 DEF Next
<1> QED
  BY <1>1, InitTyped, PTL DEF Spec

-----------------------------------------------------------------------------
(* The inductive invariant.                                                *)

\* A request that has not begun has been told nothing and looks for nothing.
IdleIsFresh ==
  \A r \in Requests :
    pc[r] = "idle" => answer[r] = "NONE" /\ resume[r] = "CONTINUE"

\* No request works for a run that is still to come.
SeenRunIsPast == \A r \in Requests : seenRun[r] <= run

\* The verifier keeps challenges of the active run only.
ChallengesOfRun ==
  \A c \in Challenges : chal[c].state \in {"ISSUED", "CONSUMED"} =>
                          chal[c].run = run

\* A request that may accept has passed the bound check.
BoundChecked == \A r \in Requests : pc[r] = "accept" => pres[r].slot < L

\* What every committed use satisfies.
LiveUses ==
  \A u \in Requests : use[u] \in Live =>
    /\ pc[u] = "done"
    /\ answer[u] = "ACCEPTED"
    /\ seenRun[u] = run
    /\ pres[u].slot < L
    /\ AskedFor[pres[u].ch].op = pres[u].op
    /\ chal[pres[u].ch].state = "CONSUMED"

\* The uniqueness constraints hold of the table.
NoTwoAlike ==
  \A u, v \in Requests :
    use[u] \in Live /\ use[v] \in Live /\ u # v =>
      /\ pres[u].ch # pres[v].ch
      /\ ~SameNullifier(u, v)
      /\ pres[u].op # pres[v].op

ConsumedByAUse ==
  \A c \in Challenges : chal[c].state = "CONSUMED" =>
    \E u \in Requests : use[u] \in Live /\ pres[u].ch = c

\* A request that looks for the winner of its race will find a row, unless the
\* run is reset.
LoserHasWinner ==
  \A r \in Requests :
    pc[r] = "lookup" /\ resume[r] = "LEDGER_INCONSISTENT" /\ seenRun[r] = run =>
      Rows(r) # {}

\* The row found for a retry is there when the retry is recorded, unless the run
\* is reset.
RetryRowIsThere ==
  \A r \in Requests :
    pc[r] = "record" /\ answer[r] = "RETRY" /\ seenRun[r] = run =>
      use[found[r].id] \in Live

IInv ==
  /\ TypeOK
  /\ IdleIsFresh /\ SeenRunIsPast /\ ChallengesOfRun /\ BoundChecked
  /\ LiveUses /\ NoTwoAlike /\ ConsumedByAUse
  /\ LoserHasWinner /\ RetryRowIsThere
  /\ WinnerIsAlwaysFound

LEMMA InitInv == Init => IInv
<1> SUFFICES ASSUME Init PROVE IInv
  OBVIOUS
<1>1. TypeOK
  BY InitTyped
<1>2. /\ IdleIsFresh /\ SeenRunIsPast /\ ChallengesOfRun /\ BoundChecked
      /\ ConsumedByAUse /\ LoserHasWinner /\ RetryRowIsThere
      /\ WinnerIsAlwaysFound
  BY DEF Init, IdleIsFresh, SeenRunIsPast, ChallengesOfRun, BoundChecked,
         ConsumedByAUse, LoserHasWinner, RetryRowIsThere, WinnerIsAlwaysFound
<1>3. \A u \in Requests : use[u] \notin Live
  BY DEF Init, Live
<1> QED
  BY <1>1, <1>2, <1>3 DEF IInv, LiveUses, NoTwoAlike

\* A step of one request that writes no table, and what it owes the invariant.
ReadsOnly(r) ==
  /\ pc[r] # "done" /\ pc'[r] # "idle"
  /\ UNCHANGED <<run, chal, use, pres>>
  /\ \A q \in Requests \ {r} :
       /\ pc'[q] = pc[q] /\ seenRun'[q] = seenRun[q] /\ resume'[q] = resume[q]
       /\ found'[q] = found[q] /\ answer'[q] = answer[q]
  /\ seenRun'[r] <= run
  /\ pc'[r] = "accept" => pres[r].slot < L
  /\ pc'[r] = "lookup" /\ resume'[r] = "LEDGER_INCONSISTENT"
       /\ seenRun'[r] = run
     => \E u \in Requests : /\ use[u] \in Live
                            /\ SameNullifier(u, r) \/ pres[u].op = pres[r].op
  /\ pc'[r] = "record" /\ answer'[r] = "RETRY" /\ seenRun'[r] = run =>
       use[found'[r].id] \in Live
  /\ answer'[r] \in {"LEDGER_INCONSISTENT", "INTERNAL_ERROR"} =>
       run # seenRun'[r]

LEMMA ReadsOnlyKeepsInv ==
  ASSUME IInv, TypeOK', NEW r \in Requests, ReadsOnly(r)
  PROVE  IInv'
<1> USE DEF ReadsOnly
<1>0. \A u \in Requests : use[u] \in Live => u # r
  BY DEF IInv, LiveUses
<1>1. (IdleIsFresh /\ SeenRunIsPast /\ ChallengesOfRun /\ BoundChecked)'
  BY DEF IInv, IdleIsFresh, SeenRunIsPast, ChallengesOfRun, BoundChecked
<1>2. LiveUses'
  BY <1>0 DEF IInv, LiveUses
<1>3. (NoTwoAlike /\ ConsumedByAUse)'
  BY DEF IInv, NoTwoAlike, ConsumedByAUse, SameNullifier
<1>4. LoserHasWinner'
  <2> SUFFICES ASSUME NEW q \in Requests,
                      pc'[q] = "lookup", resume'[q] = "LEDGER_INCONSISTENT",
                      seenRun'[q] = run'
               PROVE  Rows(q)' # {}
    BY DEF LoserHasWinner
  <2>1. PICK u \in Requests : /\ use[u] \in Live
                              /\ SameNullifier(u, q) \/ pres[u].op = pres[q].op
    BY DEF IInv, LoserHasWinner, Rows
  <2>2. seenRun'[u] = run
    BY <1>0, <2>1 DEF IInv, LiveUses
  <2>3. u \in Rows(q)'
    BY <2>1, <2>2 DEF Rows, SameNullifier
  <2> QED
    BY <2>3
<1>5. (RetryRowIsThere /\ WinnerIsAlwaysFound)'
  BY DEF IInv, RetryRowIsThere, WinnerIsAlwaysFound
<1> QED
  BY <1>1, <1>2, <1>3, <1>4, <1>5 DEF IInv

LEMMA BeginReadsOnly ==
  ASSUME IInv, NEW r \in Requests, Begin(r)
  PROVE  ReadsOnly(r)
BY DEF Begin, ReadsOnly, IInv, TypeOK, IdleIsFresh, PCs, dbVars, Goto

LEMMA LookUpReadsOnly ==
  ASSUME IInv, NEW r \in Requests,
         FindNothing(r) \/ FindConflict(r) \/ FindRetry(r)
  PROVE  ReadsOnly(r)
<1> USE DEF ReadsOnly, dbVars, Give, GiveRecorded, Goto
<1>1. /\ pc[r] = "lookup" /\ seenRun[r] <= run
      /\ answer[r] \in {"LEDGER_INCONSISTENT", "INTERNAL_ERROR"} =>
           run # seenRun[r]
  BY DEF FindNothing, FindConflict, FindRetry, IInv, SeenRunIsPast,
         WinnerIsAlwaysFound
<1>2. CASE FindNothing(r)
  <2>1. Rows(r) = {} => ~(resume[r] = "LEDGER_INCONSISTENT" /\ run = seenRun[r])
    BY <1>1 DEF IInv, LoserHasWinner
  <2> QED
    BY <1>1, <1>2, <2>1 DEF FindNothing, IInv, TypeOK
<1>3. CASE FindConflict(r)
  BY <1>1, <1>3 DEF FindConflict, Conflict, IInv, TypeOK
<1>4. CASE FindRetry(r)
  <2>1. PICK u \in Rows(r) : found' = [found EXCEPT ![r] = [id     |-> u,
                                                           status |-> use[u]]]
    BY <1>4 DEF FindRetry
  <2>2. found'[r].id = u /\ use[u] \in Live
    BY <2>1 DEF Rows, IInv, TypeOK
  <2> QED
    BY <1>1, <1>4, <2>1, <2>2 DEF FindRetry, IInv, TypeOK
<1> QED
  BY <1>2, <1>3, <1>4

LEMMA RecordReadsOnly ==
  ASSUME IInv, NEW r \in Requests, Record(r)
  PROVE  ReadsOnly(r)
<1>1. /\ pc[r] = "record" /\ pc' = [pc EXCEPT ![r] = "done"]
      /\ UNCHANGED <<dbVars, pres, seenRun, resume, found>>
      /\ \/ answer' = answer
         \/ /\ answer' = [answer EXCEPT ![r] = "INTERNAL_ERROR"]
            /\ IF answer[r] = "RETRY" THEN use[found[r].id] \notin Live
                                      ELSE run # seenRun[r]
  BY DEF Record, Give, Goto, IInv, TypeOK
<1>2. answer'[r] \in {"LEDGER_INCONSISTENT", "INTERNAL_ERROR"} => run # seenRun[r]
  BY <1>1 DEF IInv, TypeOK, RetryRowIsThere, WinnerIsAlwaysFound
<1> QED
  BY <1>1, <1>2 DEF ReadsOnly, IInv, TypeOK, SeenRunIsPast, dbVars

\* A consumed challenge that matches leads to the use that consumed it.
LEMMA ConsumedMatchFindsUse ==
  ASSUME IInv, NEW r \in Requests, ChallengeMatches(r),
         chal[pres[r].ch].state = "CONSUMED"
  PROVE  \E u \in Requests : use[u] \in Live /\ pres[u].op = pres[r].op
<1>1. pres[r].ch \in Challenges
  BY ConstantsAssumption DEF IInv, TypeOK, Presentations
<1>2. PICK u \in Requests : use[u] \in Live /\ pres[u].ch = pres[r].ch
  BY <1>1 DEF IInv, ConsumedByAUse
<1> QED
  BY <1>2 DEF IInv, LiveUses, ChallengeMatches

LEMMA ChecksReadOnly ==
  ASSUME IInv, NEW r \in Requests,
         CheckPolicy(r) \/ ReadChallenge(r) \/ Verify(r)
  PROVE  ReadsOnly(r)
<1> USE DEF ReadsOnly, dbVars, Give, GiveRecorded, Goto, LookUp
<1>1. /\ pc[r] \in {"clock", "challenge", "verify"} /\ seenRun[r] <= run
      /\ answer[r] \in {"LEDGER_INCONSISTENT", "INTERNAL_ERROR"} =>
           run # seenRun[r]
  BY DEF CheckPolicy, ReadChallenge, Verify, IInv, SeenRunIsPast,
         WinnerIsAlwaysFound
<1>2. CASE CheckPolicy(r)
  BY <1>1, <1>2 DEF CheckPolicy, IInv, TypeOK
<1>3. CASE ReadChallenge(r)
  <2>1. CASE Give(r, "PRESENTATION_REJECTED") /\ resume' = resume
    BY <1>1, <1>3, <2>1 DEF ReadChallenge, IInv, TypeOK
  <2>2. CASE /\ ChallengeMatches(r) /\ chal[pres[r].ch].state = "CONSUMED"
             /\ LookUp(r, "LEDGER_INCONSISTENT") /\ answer' = answer
    <3>1. \E u \in Requests : use[u] \in Live /\ pres[u].op = pres[r].op
      BY <2>2, ConsumedMatchFindsUse
    <3> QED
      BY <1>1, <1>3, <2>2, <3>1 DEF ReadChallenge, IInv, TypeOK
  <2>3. CASE Goto(r, "verify") /\ resume' = resume /\ answer' = answer
    BY <1>1, <1>3, <2>3 DEF ReadChallenge, IInv, TypeOK
  <2>4. CASE LookUp(r, "CHALLENGE_EXPIRED") /\ answer' = answer
    BY <1>1, <1>3, <2>4 DEF ReadChallenge, IInv, TypeOK
  <2> QED
    BY <1>3, <2>1, <2>2, <2>3, <2>4 DEF ReadChallenge
<1>4. CASE Verify(r)
  BY <1>1, <1>4 DEF Verify, ProofValid, IInv, TypeOK
<1> QED
  BY <1>2, <1>3, <1>4

\* What stopped the acceptance is found by the lookup that follows: the row
\* behind each uniqueness constraint is one the lookup query selects.
LEMMA RefusalsReadOnly ==
  ASSUME IInv, NEW r \in Requests, Refuse(r) \/ LoseRace(r) \/ Abort(r)
  PROVE  ReadsOnly(r)
<1> USE DEF ReadsOnly, dbVars, Give, Goto, LookUp
<1>1. /\ seenRun[r] <= run
      /\ answer[r] \in {"LEDGER_INCONSISTENT", "INTERNAL_ERROR"} =>
           run # seenRun[r]
  BY DEF IInv, SeenRunIsPast, WinnerIsAlwaysFound
<1>2. CASE Refuse(r)
  BY <1>1, <1>2 DEF Refuse, Refusals, IInv, TypeOK
<1>3. CASE LoseRace(r)
  <2>1. \E u \in Requests : /\ use[u] \in Live
                            /\ SameNullifier(u, r) \/ pres[u].op = pres[r].op
    <3>1. /\ run = seenRun[r] /\ ChallengeMatches(r)
          /\ chal[pres[r].ch].state = "CONSUMED" \/ ~Unique(r)
      BY <1>3 DEF LoseRace, Precondition
    <3>2. CASE chal[pres[r].ch].state = "CONSUMED"
      BY <3>1, <3>2, ConsumedMatchFindsUse
    <3>3. CASE chal[pres[r].ch].state # "CONSUMED"
      BY <3>1, <3>3 DEF Unique, IInv, LiveUses
    <3> QED
      BY <3>2, <3>3
  <2> QED
    BY <1>1, <1>3, <2>1 DEF LoseRace, IInv, TypeOK
<1>4. CASE Abort(r)
  BY <1>1, <1>4 DEF Abort, IInv, TypeOK
<1> QED
  BY <1>2, <1>3, <1>4

-----------------------------------------------------------------------------
(* The steps that write the tables.                                        *)

\* What the locks and the uniqueness constraints give a committing request.
LEMMA AcceptFacts ==
  ASSUME IInv, NEW r \in Requests, Accept(r)
  PROVE  /\ seenRun[r] = run /\ pres[r].slot < L /\ use[r] \notin Live
         /\ pres[r].ch \in Challenges
         /\ chal[pres[r].ch].run = run
         /\ AskedFor[pres[r].ch].op = pres[r].op
         /\ \A u \in Requests : use[u] \in Live =>
              /\ pres[u].ch # pres[r].ch
              /\ ~SameNullifier(u, r)
              /\ pres[u].op # pres[r].op
<1>1. run = seenRun[r] /\ ChallengeMatches(r) /\ Unique(r) /\ pc[r] = "accept"
  BY DEF Accept, Precondition
<1>2. pres[r].ch \in Challenges
  BY ConstantsAssumption DEF IInv, TypeOK, Presentations
<1> QED
  BY <1>1, <1>2 DEF ChallengeMatches, Unique, IInv, LiveUses, BoundChecked

LEMMA AcceptKeepsInv ==
  ASSUME IInv, TypeOK', NEW r \in Requests, Accept(r)
  PROVE  IInv'
<1>1. /\ use' = [use EXCEPT ![r] = "ACCEPTED_PENDING_ACTION"]
      /\ chal' = [chal EXCEPT ![pres[r].ch].state = "CONSUMED"]
      /\ pc' = [pc EXCEPT ![r] = "done"]
      /\ answer' = [answer EXCEPT ![r] = "ACCEPTED"]
      /\ UNCHANGED <<run, pres, seenRun, resume, found>>
  BY DEF Accept, Give, Goto
<1>2. \A u \in Requests : use'[u] \in Live <=> use[u] \in Live \/ u = r
  BY <1>1 DEF IInv, TypeOK, Live
<1>3. \A c \in Challenges :
        /\ chal'[c].run = chal[c].run
        /\ chal'[c].state = IF c = pres[r].ch THEN "CONSUMED" ELSE chal[c].state
  BY <1>1, AcceptFacts DEF IInv, TypeOK, ChallengeRows
<1>4. \A q \in Requests \ {r} : pc'[q] = pc[q] /\ answer'[q] = answer[q]
  BY <1>1 DEF IInv, TypeOK
<1>5. pc'[r] = "done" /\ answer'[r] = "ACCEPTED"
  BY <1>1 DEF IInv, TypeOK
<1>6. (IdleIsFresh /\ SeenRunIsPast /\ BoundChecked)'
  BY <1>1, <1>4, <1>5 DEF IInv, IdleIsFresh, SeenRunIsPast, BoundChecked
<1>7. ChallengesOfRun'
  BY <1>1, <1>3, AcceptFacts DEF IInv, ChallengesOfRun
<1>8. LiveUses'
  <2>1. \A u \in Requests : pres[u].ch \in Challenges
    BY ConstantsAssumption DEF IInv, TypeOK, Presentations
  <2> QED
    BY <1>1, <1>2, <1>3, <1>4, <1>5, <2>1, AcceptFacts DEF IInv, LiveUses
<1>9. NoTwoAlike'
  <2>1. \A u, v \in Requests : SameNullifier(u, v)' <=> SameNullifier(v, u)
    BY <1>1 DEF SameNullifier
  <2> QED
    BY <1>1, <1>2, <2>1, AcceptFacts DEF IInv, NoTwoAlike, SameNullifier
<1>10. ConsumedByAUse'
  BY <1>1, <1>2, <1>3 DEF IInv, ConsumedByAUse
<1>11. LoserHasWinner'
  <2>1. \A q \in Requests : Rows(q) \subseteq Rows(q)'
    BY <1>1, <1>2 DEF Rows, SameNullifier
  <2> QED
    BY <1>1, <1>4, <1>5, <2>1 DEF IInv, LoserHasWinner
<1>12. (RetryRowIsThere /\ WinnerIsAlwaysFound)'
  <2>1. \A q \in Requests : found[q].id \in Requests
    BY DEF IInv, TypeOK
  <2> QED
    BY <1>1, <1>2, <1>4, <1>5, <2>1
       DEF IInv, RetryRowIsThere, WinnerIsAlwaysFound
<1> QED
  BY <1>6, <1>7, <1>8, <1>9, <1>10, <1>11, <1>12 DEF IInv

LEMMA SettleKeepsInv ==
  ASSUME IInv, TypeOK', NEW r \in Requests, NEW result \in Terminal,
         Settle(r, result)
  PROVE  IInv'
<1>1. UNCHANGED <<run, chal, reqVars>>
  BY DEF Settle
<1>2. \A u \in Requests : use'[u] \in Live <=> use[u] \in Live
  BY DEF Settle, IInv, TypeOK, Live, Terminal
<1>3. (IdleIsFresh /\ SeenRunIsPast /\ ChallengesOfRun /\ BoundChecked
        /\ LiveUses /\ NoTwoAlike /\ ConsumedByAUse /\ WinnerIsAlwaysFound)'
  BY <1>1, <1>2 DEF reqVars, IInv, IdleIsFresh, SeenRunIsPast, ChallengesOfRun,
     BoundChecked, LiveUses, NoTwoAlike, SameNullifier, ConsumedByAUse,
     WinnerIsAlwaysFound
<1>4. LoserHasWinner'
  <2>1. \A q \in Requests : Rows(q)' = Rows(q)
    BY <1>1, <1>2 DEF Rows, SameNullifier, reqVars
  <2> QED
    BY <1>1, <2>1 DEF reqVars, IInv, LoserHasWinner
<1>5. RetryRowIsThere'
  <2>1. \A q \in Requests : found[q].id \in Requests
    BY DEF IInv, TypeOK
  <2> QED
    BY <1>1, <1>2, <2>1 DEF reqVars, IInv, RetryRowIsThere
<1> QED
  BY <1>3, <1>4, <1>5 DEF IInv

\* The reset leaves no use, no challenge and no request of the active run.
LEMMA ResetKeepsInv ==
  ASSUME IInv, TypeOK', ResetDemoRun
  PROVE  IInv'
<1>1. run' = run + 1 /\ UNCHANGED reqVars
  BY DEF ResetDemoRun
<1>2. \A u \in Requests : use'[u] \notin Live
  BY DEF ResetDemoRun, IInv, TypeOK, LiveUses, Live
<1>3. \A c \in Challenges : chal'[c].state \notin {"ISSUED", "CONSUMED"}
  BY DEF ResetDemoRun, IInv, TypeOK, ChallengesOfRun, ChallengeRows
<1>4. \A r \in Requests : seenRun[r] \in Int /\ run \in Int /\ seenRun[r] <= run
  BY DEF IInv, TypeOK, SeenRunIsPast
<1>5. \A r \in Requests : seenRun'[r] # run' /\ seenRun'[r] <= run'
  BY <1>1, <1>4 DEF reqVars
<1>6. (IdleIsFresh /\ BoundChecked)'
  BY <1>1 DEF reqVars, IInv, IdleIsFresh, BoundChecked
<1>7. (SeenRunIsPast /\ LoserHasWinner /\ RetryRowIsThere /\ WinnerIsAlwaysFound)'
  BY <1>5 DEF SeenRunIsPast, LoserHasWinner, RetryRowIsThere,
              WinnerIsAlwaysFound
<1>8. (LiveUses /\ NoTwoAlike)'
  BY <1>2 DEF LiveUses, NoTwoAlike
<1>9. (ChallengesOfRun /\ ConsumedByAUse)'
  BY <1>3 DEF ChallengesOfRun, ConsumedByAUse
<1> QED
  BY <1>6, <1>7, <1>8, <1>9 DEF IInv

\* Steps the invariant's parts beyond the types do not see.
LEMMA UnseenKeepsInv ==
  ASSUME IInv, TypeOK', UNCHANGED <<run, use, chal, reqVars>>
  PROVE  IInv'
BY DEF reqVars, IInv, IdleIsFresh, SeenRunIsPast, ChallengesOfRun,
       BoundChecked, LiveUses, NoTwoAlike, SameNullifier, ConsumedByAUse,
       LoserHasWinner, Rows, RetryRowIsThere, WinnerIsAlwaysFound

LEMMA CreateChallengeKeepsInv ==
  ASSUME IInv, TypeOK', NEW c \in Challenges, CreateChallenge(c)
  PROVE  IInv'
<1>1. UNCHANGED <<run, use, reqVars>> /\ chal[c].state = "NONE"
  BY DEF CreateChallenge
<1>2. chal'[c].state = "ISSUED" /\ chal'[c].run = run
  BY DEF CreateChallenge, IInv, TypeOK
<1>3. \A d \in Challenges \ {c} : chal'[d] = chal[d]
  BY DEF CreateChallenge, IInv, TypeOK
<1>4. \A u \in Requests : pres[u].ch \in Challenges
  BY ConstantsAssumption DEF IInv, TypeOK, Presentations
<1>5. (ChallengesOfRun /\ LiveUses /\ ConsumedByAUse)'
  BY <1>1, <1>2, <1>3, <1>4
     DEF reqVars, IInv, ChallengesOfRun, LiveUses, ConsumedByAUse
<1> QED
  BY <1>1, <1>5 DEF reqVars, IInv, IdleIsFresh, SeenRunIsPast, BoundChecked,
     NoTwoAlike, SameNullifier, LoserHasWinner, Rows, RetryRowIsThere,
     WinnerIsAlwaysFound

LEMMA NextKeepsInv == IInv /\ [Next]_vars => IInv'
<1> SUFFICES ASSUME IInv, [Next]_vars PROVE IInv'
  OBVIOUS
<1>0. TypeOK'
  <2>1. CASE Environment
    BY <2>1, EnvironmentTyped DEF IInv
  <2>2. ASSUME NEW r \in Requests, Step(r) PROVE TypeOK'
    BY <2>2, StepTyped DEF IInv
  <2>3. CASE UNCHANGED vars
    BY <2>3 DEF IInv, TypeOK, vars
  <2> QED
    BY <2>1, <2>2, <2>3 DEF Next
<1>1. ASSUME NEW r \in Requests, Step(r) PROVE IInv'
  <2>1. CASE Accept(r)
    BY <1>0, <2>1, AcceptKeepsInv
  <2>2. CASE ~Accept(r)
    BY <1>0, <1>1, <2>2, ReadsOnlyKeepsInv, BeginReadsOnly, LookUpReadsOnly,
       RecordReadsOnly, ChecksReadOnly, RefusalsReadOnly DEF Step
  <2> QED
    BY <2>1, <2>2
<1>2. ASSUME NEW k \in Credentials, IssueCredential(k) PROVE IInv'
  BY <1>0, <1>2, UnseenKeepsInv DEF IssueCredential
<1>3. ASSUME NEW c \in Challenges, CreateChallenge(c) PROVE IInv'
  BY <1>0, <1>3, CreateChallengeKeepsInv
<1>4. ASSUME NEW r \in Requests, NEW result \in Terminal, Settle(r, result)
      PROVE  IInv'
  BY <1>0, <1>4, SettleKeepsInv
<1>5. ASSUME NEW r \in Requests, Abort(r) PROVE IInv'
  BY <1>0, <1>5, RefusalsReadOnly, ReadsOnlyKeepsInv
<1>6. CASE ResetDemoRun
  BY <1>0, <1>6, ResetKeepsInv
<1>7. CASE Tick
  BY <1>0, <1>7, UnseenKeepsInv DEF Tick
<1>8. CASE UNCHANGED vars
  BY <1>0, <1>8, UnseenKeepsInv DEF vars, reqVars
<1> QED
  BY <1>1, <1>2, <1>3, <1>4, <1>5, <1>6, <1>7, <1>8 DEF Next, Environment

\* The inductive invariant holds of every behaviour of the acceptance path.
THEOREM Invariance == Spec => []IInv
BY InitInv, NextKeepsInv, PTL DEF Spec

-----------------------------------------------------------------------------
(* What it implies.                                                        *)

\* The slots of a credential's accepted uses are distinct numbers below L.
LEMMA InvBoundsQuota == IInv => QuotaBound
<1> SUFFICES ASSUME IInv, NEW k \in Credentials
             PROVE  Cardinality({u \in Requests : use[u] \in Live
                                                 /\ pres[u].cred = k}) <= L
  BY DEF QuotaBound
<1> DEFINE S == {u \in Requests : use[u] \in Live /\ pres[u].cred = k}
           f == [u \in S |-> pres[u].slot]
<1>1. f \in Injection(S, 0..(L - 1))
  <2>1. ASSUME NEW u \in S PROVE pres[u].slot \in 0..(L - 1)
    BY ConstantsAssumption DEF IInv, TypeOK, LiveUses, Presentations, Slots
  <2>2. ASSUME NEW u \in S, NEW v \in S, pres[u].slot = pres[v].slot
        PROVE  u = v
    BY <2>2 DEF IInv, NoTwoAlike, SameNullifier
  <2> QED
    BY <2>1, <2>2 DEF Injection, IsInjective
<1>2. IsFiniteSet(0..(L - 1)) /\ Cardinality(0..(L - 1)) = L
  <2>1. 0 \in Int /\ L - 1 \in Int /\ ~(0 > L - 1) /\ (L - 1) - 0 + 1 = L
    BY ConstantsAssumption
  <2> QED
    BY <2>1, FS_Interval
<1>3. Cardinality(S) <= Cardinality(0..(L - 1))
  <2> HIDE DEF f
  <2> QED
    BY <1>1, <1>2, FS_Injection
<1> QED
  BY <1>2, <1>3

LEMMA InvMatchesChallenges == IInv => ChallengesMatchUses
BY DEF IInv, LiveUses, NoTwoAlike, ConsumedByAUse, ChallengesMatchUses

\* Product invariant 1: no credential has more than L accepted uses, for every
\* number of requests, credentials and runs, and every interleaving of theirs.
THEOREM QuotaHolds == Spec => []QuotaBound
BY Invariance, InvBoundsQuota, PTL

\* Consumed challenges and accepted uses stay matched one to one through
\* acceptance, settlement and reset.
THEOREM ChallengesStayMatched == Spec => []ChallengesMatchUses
BY Invariance, InvMatchesChallenges, PTL

\* Whoever loses a race against an acceptance finds the winner's row: the two
\* "cannot happen" answers of the API need a reset between the two queries.
THEOREM LosersFindTheWinner == Spec => []WinnerIsAlwaysFound
<1>1. IInv => WinnerIsAlwaysFound
  BY DEF IInv
<1> QED
  BY <1>1, Invariance, PTL

-----------------------------------------------------------------------------
(* The acceptance path implements the abstract ledger.                     *)

\* The ledger's entry for the use of request r.
Entry(r) ==
  [id |-> r, cred |-> pres[r].cred, slot |-> pres[r].slot, op |-> pres[r].op,
   intent |-> pres[r].intent, status |-> use[r]]

LEMMA LedgerIsEntries ==
  /\ Ledger  = {Entry(u)  : u \in {q \in Requests : use[q] \in Live}}
  /\ Ledger' = {Entry(u)' : u \in {q \in Requests : use'[q] \in Live}}
BY DEF Ledger, Entry

LEMMA AcceptRefines ==
  ASSUME IInv, NEW r \in Requests, Accept(r)
  PROVE  Abstract!Accept
<1>1. /\ use' = [use EXCEPT ![r] = "ACCEPTED_PENDING_ACTION"]
      /\ UNCHANGED pres
  BY DEF Accept
<1>2. \A u \in Requests : use'[u] \in Live <=> use[u] \in Live \/ u = r
  BY <1>1 DEF IInv, TypeOK, Live
<1>3. \A u \in Requests \ {r} : Entry(u)' = Entry(u)
  BY <1>1 DEF Entry, IInv, TypeOK
<1>4. Ledger' = Ledger \cup {Entry(r)'}
  BY <1>2, <1>3, AcceptFacts, LedgerIsEntries
<1>5. Entry(r)' \in Abstract!Use
  <2>1. use'[r] \in Live /\ use'[r] = "ACCEPTED_PENDING_ACTION"
    BY <1>1, <1>2 DEF IInv, TypeOK
  <2>2. pres[r] \in Presentations /\ pres[r].slot \in 0..(L - 1)
    BY AcceptFacts, ConstantsAssumption DEF IInv, TypeOK, Presentations, Slots
  <2> QED
    BY <1>1, <2>1, <2>2 DEF Entry, Abstract!Use, Presentations
<1>6. Entry(r)'.status = "ACCEPTED_PENDING_ACTION"
  BY <1>1 DEF Entry, IInv, TypeOK
<1>7. \A v \in Ledger : ~Abstract!Clash(Entry(r)', v)
  <2> SUFFICES ASSUME NEW u \in Requests, use[u] \in Live
               PROVE  ~Abstract!Clash(Entry(r)', Entry(u))
    BY LedgerIsEntries
  <2>1. u # r /\ ~SameNullifier(u, r) /\ pres[u].op # pres[r].op
    BY AcceptFacts
  <2> QED
    BY <1>1, <2>1 DEF Abstract!Clash, Entry, SameNullifier
<1> QED
  BY <1>4, <1>5, <1>6, <1>7 DEF Abstract!Accept

LEMMA SettleRefines ==
  ASSUME IInv, NEW r \in Requests, NEW result \in Terminal, Settle(r, result)
  PROVE  Abstract!Settle
<1>1. /\ use[r] = "ACCEPTED_PENDING_ACTION"
      /\ use' = [use EXCEPT ![r] = result]
      /\ UNCHANGED pres
  BY DEF Settle, reqVars
<1>2. \A u \in Requests : use'[u] \in Live <=> use[u] \in Live
  BY <1>1 DEF IInv, TypeOK, Live, Terminal
<1>3. \A u \in Requests \ {r} : Entry(u)' = Entry(u) /\ Entry(u) # Entry(r)
  BY <1>1 DEF Entry, IInv, TypeOK
<1>4. Entry(r)' = [Entry(r) EXCEPT !.status = result]
  BY <1>1 DEF Entry, IInv, TypeOK
<1>5. Entry(r) \in Ledger
  BY <1>1, LedgerIsEntries DEF Live
<1>6. Ledger' = (Ledger \ {Entry(r)}) \cup {Entry(r)'}
  <2>1. use[r] \in Live
    BY <1>1 DEF Live
  <2> QED
    BY <1>2, <1>3, <2>1, LedgerIsEntries
<1>7. Entry(r).status = "ACCEPTED_PENDING_ACTION"
  BY <1>1 DEF Entry
<1> QED
  BY <1>4, <1>5, <1>6, <1>7 DEF Abstract!Settle, Terminal

LEMMA ResetRefines ==
  ASSUME IInv, ResetDemoRun
  PROVE  Abstract!Reset
<1>1. \A u \in Requests : use'[u] \notin Live
  BY DEF ResetDemoRun, IInv, TypeOK, LiveUses, Live
<1> QED
  BY <1>1, LedgerIsEntries DEF Abstract!Reset

LEMMA NextRefines == IInv /\ [Next]_vars => [Abstract!Next]_Ledger
<1> SUFFICES ASSUME IInv, [Next]_vars PROVE [Abstract!Next]_Ledger
  OBVIOUS
<1> USE DEF Abstract!Next
<1>1. ASSUME UNCHANGED <<use, pres>> PROVE UNCHANGED Ledger
  BY <1>1 DEF Ledger
<1>2. ASSUME NEW r \in Requests, Step(r) PROVE [Abstract!Next]_Ledger
  <2>1. CASE Accept(r)
    BY <2>1, AcceptRefines
  <2>2. CASE ~Accept(r)
    <3>1. ReadsOnly(r)
      BY <1>2, <2>2, BeginReadsOnly, LookUpReadsOnly, RecordReadsOnly,
         ChecksReadOnly, RefusalsReadOnly DEF Step
    <3> QED
      BY <1>1, <3>1 DEF ReadsOnly
  <2> QED
    BY <2>1, <2>2
<1>3. CASE Environment
  <2>1. ASSUME NEW r \in Requests, NEW result \in Terminal, Settle(r, result)
        PROVE  Abstract!Next
    BY <2>1, SettleRefines
  <2>2. CASE ResetDemoRun
    BY <2>2, ResetRefines
  <2> QED
    BY <1>1, <1>3, <2>1, <2>2
       DEF Environment, IssueCredential, CreateChallenge, Abort, Tick, dbVars,
           reqVars
<1>4. CASE UNCHANGED vars
  BY <1>1, <1>4 DEF vars
<1> QED
  BY <1>2, <1>3, <1>4 DEF Next

\* The concurrent acceptance path, with its pre-lock checks, re-lookups, lost
\* answers, settlement and reset, is the atomic ledger of BoundedUse.
THEOREM Implementation == Spec => ImplementsBoundedUse
<1>1. Init => Abstract!Init
  BY DEF Init, Ledger, Live, Abstract!Init
<1> QED
  BY <1>1, Invariance, NextRefines, PTL
     DEF Spec, ImplementsBoundedUse, Abstract!Spec
=============================================================================
