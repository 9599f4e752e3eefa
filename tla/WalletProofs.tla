----------------------------- MODULE WalletProofs -----------------------------
(***************************************************************************)
(* Theorems about Wallet, for any number of calls and pages: first the     *)
(* types; then that an operation stands for one slot, from which follow    *)
(* that the cursor passes only spent slots, that one slot at most is at    *)
(* stake and that the results shown are the verifier's; then what holds as *)
(* long as arming the fault does not meet other calls: the credential      *)
(* moves forward, and the wallet keeps the record of every use of it;      *)
(* last, that the verifier the wallet meets is the ledger of BoundedUse.   *)
(***************************************************************************)
EXTENDS Wallet, TLAPS

\* Where a flow works on an operation.
WithRec == {"reconcile", "send", "sent", "answered", "refresh", "release", "poll"}

\* Where it may learn what became of the operation.
Learning == {"answered", "refresh", "poll"}

\* A record that somebody has saved or is about to save.
Real(rec) ==
  /\ rec \in Records
  /\ rec.state # "NONE" /\ rec.cred # 0 /\ rec.slot < L /\ rec.ch # 0

FlowShape(s) ==
  /\ s.pc \in WithRec => s.op \in Ops /\ Real(s.rec)
  /\ s.pc = "reconcile" => s.rec.result \in Terminal
  /\ s.pc = "prepare" => s.cred.id # 0 /\ s.cred.next < L
  /\ s.pc = "issue" => s.cred.id # 0 /\ s.cred.next = 0 /\ s.cred.prepared = NoOp
  /\ s.pc = "arm" => s.cred.id # 0

StoreOK ==
  /\ cred \in Creds /\ (cred = NoCred \/ cred.id # 0)
  /\ ops \in [Ops -> Records] /\ \A o \in Ops : ops[o] = NoRecord \/ Real(ops[o])
  /\ latest \in Ops \cup {NoOp}

FlowOK ==
  /\ flow \in [Flows -> FlowStates]
  /\ \A f \in Flows : FlowShape(flow[f])

\* A message that waits for its answer is the one its owner has sent.
WireOK ==
  /\ wire \subseteq Messages
  /\ \A m \in wire : m.owner # NoFlow =>
       /\ flow[m.owner].pc = "sent" /\ flow[m.owner].op = m.op
       /\ \A k \in wire : k.owner = m.owner => k = m

RunsOK ==
  /\ run \in 1..MaxRun
  /\ runOf \in [1..MaxIssued -> 0..MaxRun]
  /\ \A n \in 1..MaxIssued : runOf[n] <= run

ServerOK ==
  /\ minted \subseteq Ops
  /\ ledger \in [Ops -> Uses]
  /\ challenges \in Seq(1..MaxRun) /\ Len(challenges) <= MaxChallenges
  /\ expired \subseteq 1..MaxChallenges

TypeInv == StoreOK /\ FlowOK /\ WireOK /\ RunsOK /\ ServerOK

-----------------------------------------------------------------------------
(* Records and credentials.                                                *)

WithState(rec, state) == [rec EXCEPT !.state = state]
WithChallenge(rec, ch) == [rec EXCEPT !.ch = ch, !.state = "PENDING"]
Advanced(c, rec) ==
  [c EXCEPT !.next = IF @ > rec.slot THEN @ ELSE rec.slot + 1, !.prepared = NoOp]

\* A change of state, of challenge or of result keeps whose record it is.
LEMMA WithStateReal ==
  ASSUME NEW rec, Real(rec), NEW state \in {"PENDING", "OUTCOME_UNKNOWN", "SUCCEEDED", "FAILED"}
  PROVE  /\ Real(WithState(rec, state))
         /\ WithState(rec, state).cred = rec.cred /\ WithState(rec, state).slot = rec.slot
         /\ WithState(rec, state).result = rec.result
  BY DEF Real, WithState, Records, Terminal

LEMMA WithChallengeReal ==
  ASSUME NEW rec, Real(rec), NEW ch \in 1..MaxChallenges
  PROVE  /\ Real(WithChallenge(rec, ch))
         /\ WithChallenge(rec, ch).cred = rec.cred /\ WithChallenge(rec, ch).slot = rec.slot
         /\ WithChallenge(rec, ch).result = rec.result
<1> DEFINE new == WithChallenge(rec, ch)
<1>1. ch \in 0..MaxChallenges /\ ch # 0
  BY ConstantsAssumption
<1>2. new \in Records /\ new.state = "PENDING" /\ new.ch = ch
  BY <1>1 DEF Real, WithChallenge, Records
<1>3. new.cred = rec.cred /\ new.slot = rec.slot /\ new.result = rec.result
  BY DEF Real, WithChallenge, Records
<1> QED BY <1>1, <1>2, <1>3 DEF Real

LEMMA WithResultReal ==
  ASSUME NEW rec, Real(rec), NEW status \in Terminal \cup {"ACCEPTED_PENDING_ACTION"}
  PROVE  /\ Real(WithResult(rec, status))
         /\ WithResult(rec, status).cred = rec.cred /\ WithResult(rec, status).slot = rec.slot
         /\ status \in Terminal => /\ WithResult(rec, status).result = status
                                   /\ WithResult(rec, status).state # "PENDING"
         /\ status \notin Terminal => /\ WithResult(rec, status).result = rec.result
                                      /\ WithResult(rec, status).state = "PENDING"
  BY DEF Real, WithResult, Records, Terminal

LEMMA AdvancedCred ==
  ASSUME NEW c \in Creds, NEW rec, Real(rec)
  PROVE  /\ Advanced(c, rec) \in Creds
         /\ Advanced(c, rec).id = c.id /\ Advanced(c, rec).prepared = NoOp
         /\ Advanced(c, rec).next = IF c.next > rec.slot THEN c.next ELSE rec.slot + 1
<1> DEFINE next == IF c.next > rec.slot THEN c.next ELSE rec.slot + 1
<1>1. rec.slot \in 0..L /\ rec.slot < L /\ c.next \in 0..L /\ L \in Nat
  BY ConstantsAssumption DEF Real, Records, Creds
<1>2. next \in 0..L
  BY <1>1
<1>3. Advanced(c, rec) = [c EXCEPT !.next = next, !.prepared = NoOp]
  BY DEF Advanced, Creds
<1> HIDE DEF next
<1>4. /\ Advanced(c, rec) \in Creds
      /\ Advanced(c, rec).id = c.id /\ Advanced(c, rec).prepared = NoOp
      /\ Advanced(c, rec).next = next
  BY <1>2, <1>3 DEF Creds
<1> QED BY <1>4 DEF next

LEMMA Constants ==
  /\ NoCred \in Creds /\ NoCred.id = 0 /\ NoCred.prepared = NoOp
  /\ NoRecord \in Records /\ NoRecord.state = "NONE" /\ NoRecord.result = "NONE"
  /\ Idle \in FlowStates /\ Idle.pc = "idle" /\ FlowShape(Idle)
  /\ NoUse \in Uses /\ NoUse.status = "NONE"
  BY ConstantsAssumption DEF NoCred, Creds, NoRecord, Records, Idle, FlowStates, NoUse, Uses,
    Answers, Refusals, Terminal, FlowShape, WithRec

LEMMA RealIsSome ==
  ASSUME NEW rec, Real(rec)
  PROVE  rec # NoRecord
  BY Constants DEF Real

-----------------------------------------------------------------------------
(* Flows.                                                                  *)

Moves(f, s) == flow' = [flow EXCEPT ![f] = s] /\ s \in FlowStates /\ FlowShape(s)

LEMMA MovesOK ==
  ASSUME FlowOK, NEW f \in Flows, NEW s, Moves(f, s)
  PROVE  /\ FlowOK'
         /\ flow'[f] = s /\ \A g \in Flows \ {f} : flow'[g] = flow[g]
  BY DEF FlowOK, Moves

LEMMA ShownIsLatest ==
  ASSUME StoreOK, Shown.state # "NONE"
  PROVE  latest \in Ops /\ Shown = ops[latest] /\ Real(Shown) /\ ops[latest] # NoRecord
<1>1. Shown = Stored
  BY Constants DEF Shown
<1>2. latest # NoOp
  BY <1>1, Constants DEF Stored
<1>3. latest \in Ops /\ Shown = ops[latest]
  BY <1>1, <1>2 DEF Stored, StoreOK
<1>4. ops[latest] # NoRecord
  BY <1>3, Constants
<1>5. Real(ops[latest])
  BY <1>3, <1>4 DEF StoreOK
<1> QED BY <1>3, <1>4, <1>5

-----------------------------------------------------------------------------
(* The steps of flows, of four kinds: a flow takes up what the stores      *)
(* hold, saves its record, goes on with it, or waits for an answer.        *)

Loaded(pc, mode) == [Idle EXCEPT !.pc = pc, !.mode = mode, !.op = latest, !.rec = Shown]
WithCredential(c) == [Idle EXCEPT !.pc = "prepare", !.cred = c]
Saved(s, pc, rec) == [s EXCEPT !.pc = pc, !.rec = rec]
Moved(s, pc) == [s EXCEPT !.pc = pc]

LEMMA LoadedShape ==
  ASSUME TypeInv, Shown.state # "NONE", NEW mode \in {"use", "retry", "resume"},
         NEW pc \in {"reconcile", "send", "poll"},
         pc = "reconcile" => Shown.result \in Terminal
  PROVE  /\ Loaded(pc, mode) \in FlowStates /\ FlowShape(Loaded(pc, mode))
         /\ Loaded(pc, mode).pc = pc
         /\ Loaded(pc, mode).op = latest /\ Loaded(pc, mode).rec = ops[latest]
<1>1. latest \in Ops /\ Shown = ops[latest] /\ Real(Shown) /\ Shown \in Records
  BY ShownIsLatest DEF TypeInv, Real
<1>2. /\ Loaded(pc, mode) \in FlowStates
      /\ Loaded(pc, mode).pc = pc
      /\ Loaded(pc, mode).op = latest /\ Loaded(pc, mode).rec = Shown
  BY <1>1, Constants DEF Loaded, Idle, FlowStates
<1> QED BY <1>1, <1>2 DEF FlowShape

Opened == [Idle EXCEPT !.pc = "load", !.mode = "resume"]

LEMMA OpenedShape == Opened \in FlowStates /\ FlowShape(Opened) /\ Opened.pc = "load"
  BY Constants DEF Opened, Idle, FlowStates, FlowShape, WithRec

LEMMA WithCredentialShape ==
  ASSUME NEW c \in Creds, c.id # 0, c.next < L
  PROVE  /\ WithCredential(c) \in FlowStates /\ FlowShape(WithCredential(c))
         /\ WithCredential(c).pc = "prepare" /\ WithCredential(c).cred = c
<1>1. /\ WithCredential(c) \in FlowStates
      /\ WithCredential(c).pc = "prepare" /\ WithCredential(c).cred = c
  BY Constants DEF WithCredential, Idle, FlowStates
<1> QED BY <1>1 DEF FlowShape, WithRec

LEMMA SavedShape ==
  ASSUME NEW s \in FlowStates, FlowShape(s), s.pc \in WithRec,
         NEW pc \in {"send", "sent", "answered", "refresh", "release", "poll"},
         NEW rec, Real(rec)
  PROVE  /\ Saved(s, pc, rec) \in FlowStates /\ FlowShape(Saved(s, pc, rec))
         /\ Saved(s, pc, rec).pc = pc
         /\ Saved(s, pc, rec).op = s.op /\ Saved(s, pc, rec).rec = rec
<1>1. /\ Saved(s, pc, rec) \in FlowStates
      /\ Saved(s, pc, rec).pc = pc
      /\ Saved(s, pc, rec).op = s.op /\ Saved(s, pc, rec).rec = rec
  BY DEF Saved, FlowStates, Real
<1> QED BY <1>1 DEF FlowShape

Resent(s, rec) == [s EXCEPT !.pc = "send", !.attempt = 1, !.rec = rec]

LEMMA ResentShape ==
  ASSUME NEW s \in FlowStates, FlowShape(s), s.pc \in WithRec, NEW rec, Real(rec)
  PROVE  /\ Resent(s, rec) \in FlowStates /\ FlowShape(Resent(s, rec))
         /\ Resent(s, rec).pc = "send"
         /\ Resent(s, rec).op = s.op /\ Resent(s, rec).rec = rec
<1> DEFINE t == [s EXCEPT !.attempt = 1]
<1>1. t \in FlowStates /\ t.pc = s.pc /\ t.op = s.op /\ t.rec = s.rec /\ t.cred = s.cred
  BY DEF FlowStates
<1>2. Resent(s, rec) = Saved(t, "send", rec)
  BY DEF Resent, Saved, FlowStates
<1>3. FlowShape(t)
  BY <1>1 DEF FlowShape
<1> HIDE DEF t
<1> QED BY <1>1, <1>2, <1>3, SavedShape

LEMMA MovedShape ==
  ASSUME NEW s \in FlowStates, FlowShape(s), s.pc \in WithRec,
         NEW pc \in {"send", "sent", "answered", "refresh", "release", "poll"}
  PROVE  /\ Moved(s, pc) \in FlowStates /\ FlowShape(Moved(s, pc))
         /\ Moved(s, pc).pc = pc /\ Moved(s, pc).answer = s.answer
         /\ Moved(s, pc).op = s.op /\ Moved(s, pc).rec = s.rec
<1>1. /\ Moved(s, pc) \in FlowStates
      /\ Moved(s, pc).pc = pc /\ Moved(s, pc).answer = s.answer
      /\ Moved(s, pc).op = s.op /\ Moved(s, pc).rec = s.rec
  BY DEF Moved, FlowStates
<1> QED BY <1>1 DEF FlowShape

\* A flow takes up what the stores hold.
Load(f, s) ==
  /\ Moves(f, s) /\ flow[f].pc \in {"idle", "load"}
  /\ s.pc \in {"idle", "load", "prepare", "reconcile", "send", "poll"}
  /\ s.pc \in WithRec => s.op = latest /\ s.rec = ops[latest] /\ ops[latest] # NoRecord
  /\ s.pc = "prepare" => s.cred = cred /\ cred # NoCred
  /\ UNCHANGED <<local, minted, wire, server>>

\* A flow saves its record, of the same slot, with a result it has learnt, and
\* may retire the slot.
Save(f, rec, s) ==
  LET own == flow[f] IN
  /\ own.pc \in WithRec \ {"sent"}
  /\ Real(rec) /\ rec.cred = own.rec.cred /\ rec.slot = own.rec.slot
  /\ \/ rec.result = own.rec.result
     \/ rec.result \in Terminal /\ rec.result = ledger[own.op].status
     \/ rec.result \in Terminal /\ own.pc = "answered" /\ rec.result = own.answer
  /\ Moves(f, s)
  /\ s.pc \in {"idle", "prepare", "poll", "release", "send"}
  /\ s.pc \in WithRec => s.op = own.op /\ s.rec \in {rec, own.rec}
  /\ s.pc = "prepare" => s.cred = cred' /\ cred' # NoCred
  /\ ops' = [ops EXCEPT ![own.op] = rec] /\ latest' \in Ops \cup {NoOp}
  /\ \/ cred' = cred
     \/ /\ cred # NoCred /\ cred.id = rec.cred /\ rec.result \in Terminal
        /\ cred' = Advanced(cred, rec)
  /\ UNCHANGED <<minted, wire, run, runOf, ledger, expired>>
  /\ challenges' = challenges \/ NewChallenge

\* A flow goes on with its record, or ends.
Rest(f, s) ==
  /\ Moves(f, s)
  /\ s.pc \in WithRec \cup {"idle"}
  /\ s.pc \in WithRec => /\ flow[f].pc \in WithRec
                         /\ s.op = flow[f].op /\ s.rec = flow[f].rec
  /\ s.pc = "answered" /\ s.answer \in Terminal => s.answer = ledger[s.op].status
  /\ UNCHANGED <<local, minted, run, runOf, challenges, expired>>

LEMMA CredIsReal ==
  ASSUME TypeInv, cred # NoCred
  PROVE  cred \in Creds /\ cred.id # 0
  BY DEF TypeInv, StoreOK

LEMMA RecIsReal ==
  ASSUME TypeInv, NEW f \in Flows, flow[f].pc \in WithRec
  PROVE  /\ flow[f] \in FlowStates /\ FlowShape(flow[f])
         /\ flow[f].op \in Ops /\ Real(flow[f].rec)
  BY DEF TypeInv, FlowOK, FlowShape

LEMMA EndShape ==
  ASSUME NEW f \in Flows, Go(f, Idle)
  PROVE  Moves(f, Idle) /\ Idle.pc = "idle" /\ Idle.pc \notin WithRec
  BY Constants DEF Go, Moves, WithRec

LEMMA UseFromMoves ==
  ASSUME NEW f \in Flows, NEW c \in Creds, c # NoCred => c.id # 0, UseFrom(f, c)
  PROVE  \E s : /\ Moves(f, s) /\ s.pc \in {"idle", "prepare"}
                /\ s.pc = "prepare" => s.cred = c /\ c # NoCred
<1>1. CASE MayUse(c)
  <2>1. c # NoCred /\ c.next < L
    BY <1>1 DEF MayUse
  <2>2. Moves(f, WithCredential(c))
    BY <1>1, <2>1, WithCredentialShape DEF UseFrom, Go, Moves, WithCredential
  <2> QED BY <2>1, <2>2, WithCredentialShape
<1>2. CASE ~MayUse(c)
  BY <1>2, EndShape DEF UseFrom
<1> QED BY <1>1, <1>2

\* What each call does first is a load.
LEMMA LoadKind ==
  ASSUME TypeInv, NEW f \in Flows,
         \/ StartUse(f) \/ StartRetry(f) \/ OpenPage(f) \/ StartResume(f)
         \/ \E mode \in {"use", "retry", "resume"} : StartReconciling(f, mode)
  PROVE  \E s : Load(f, s)
<1>1. CASE StartUse(f)
  <2>1. cred \in Creds /\ (cred # NoCred => cred.id # 0)
    BY DEF TypeInv, StoreOK
  <2>2. PICK s : /\ Moves(f, s) /\ s.pc \in {"idle", "prepare"}
                 /\ s.pc = "prepare" => s.cred = cred /\ cred # NoCred
    BY <1>1, <2>1, UseFromMoves DEF StartUse
  <2>3. Load(f, s)
    BY <1>1, <2>2 DEF StartUse, Load, WithRec
  <2> QED BY <2>3
<1>2. CASE StartRetry(f)
  <2>1. Shown.state # "NONE"
    BY <1>2 DEF StartRetry, Unresolved
  <2>2. flow' = [flow EXCEPT ![f] = Loaded("send", "retry")]
    BY <1>2 DEF StartRetry, Go, Loaded
  <2>3. Load(f, Loaded("send", "retry"))
    BY <1>2, <2>1, <2>2, LoadedShape, ShownIsLatest DEF StartRetry, Load, Moves, TypeInv
  <2> QED BY <2>3
<1>3. CASE StartResume(f) /\ Resumable
  <2>1. Shown.state # "NONE"
    BY <1>3 DEF Resumable
  <2>2. flow' = [flow EXCEPT ![f] = Loaded("poll", "resume")]
    BY <1>3 DEF StartResume, Go, Loaded
  <2>3. Load(f, Loaded("poll", "resume"))
    BY <1>3, <2>1, <2>2, LoadedShape, ShownIsLatest DEF StartResume, Load, Moves, TypeInv
  <2> QED BY <2>3
<1>5. CASE StartResume(f) /\ ~Resumable
  <2>1. Go(f, Idle)
    BY <1>5 DEF StartResume
  <2>2. Load(f, Idle)
    BY <1>5, <2>1, EndShape DEF StartResume, Load
  <2> QED BY <2>2
<1>6. CASE OpenPage(f)
  <2>1. flow' = [flow EXCEPT ![f] = Opened]
    BY <1>6 DEF OpenPage, Go, Opened
  <2>2. Load(f, Opened)
    BY <1>6, <2>1, OpenedShape DEF OpenPage, Load, Moves, WithRec
  <2> QED BY <2>2
<1>4. CASE \E mode \in {"use", "retry", "resume"} : StartReconciling(f, mode)
  <2>1. PICK mode \in {"use", "retry", "resume"} : StartReconciling(f, mode)
    BY <1>4
  <2>2. Shown.state # "NONE" /\ Shown.result \in Terminal
    BY <2>1 DEF StartReconciling, NeedsReconciling
  <2>3. flow' = [flow EXCEPT ![f] = Loaded("reconcile", mode)]
    BY <2>1 DEF StartReconciling, Go, Loaded
  <2>4. Load(f, Loaded("reconcile", mode))
    BY <2>1, <2>2, <2>3, LoadedShape, ShownIsLatest DEF StartReconciling, Load, Moves, TypeInv
  <2> QED BY <2>4
<1> QED BY <1>1, <1>2, <1>3, <1>4, <1>5, <1>6

Learnt(f, status) ==
  status \in Terminal =>
    \/ status = ledger[flow[f].op].status
    \/ flow[f].pc = "answered" /\ status = flow[f].answer

LEMMA AcceptedStateKind ==
  ASSUME TypeInv, NEW f \in Flows, flow[f].pc \in Learning,
         NEW status \in Terminal \cup {"ACCEPTED_PENDING_ACTION"}, Learnt(f, status),
         SaveAcceptedState(f, flow[f].op, WithResult(flow[f].rec, status)),
         UNCHANGED <<minted, wire, server>>
  PROVE  (\E rec, s : Save(f, rec, s)) \/ (Rest(f, Idle) /\ UNCHANGED ledger)
<1> DEFINE own == flow[f]
           rec == WithResult(own.rec, status)
<1>1. /\ own \in FlowStates /\ FlowShape(own) /\ own.pc \in WithRec \ {"sent"}
      /\ own.op \in Ops /\ Real(own.rec) /\ own.pc # "reconcile"
  BY RecIsReal DEF Learning, WithRec
<1>2. /\ Real(rec) /\ rec.cred = own.rec.cred /\ rec.slot = own.rec.slot
      /\ status \in Terminal => rec.result = status /\ rec.state # "PENDING"
      /\ status \notin Terminal => rec.result = own.rec.result /\ rec.state = "PENDING"
  BY <1>1, WithResultReal
<1>3. \/ rec.result = own.rec.result
      \/ rec.result \in Terminal /\ rec.result = ledger[own.op].status
      \/ rec.result \in Terminal /\ own.pc = "answered" /\ rec.result = own.answer
  BY <1>2 DEF Learnt
<1> HIDE DEF rec
<1>4. CASE rec.state = "PENDING"
  <2>1. /\ flow' = [flow EXCEPT ![f] = Saved(own, "poll", rec)]
        /\ SaveOperation(own.op, rec)
    BY <1>4 DEF SaveAcceptedState, Go, Saved, rec
  <2>2. Save(f, rec, Saved(own, "poll", rec))
    BY <1>1, <1>2, <1>3, <2>1, SavedShape DEF Save, Moves, SaveOperation, server
  <2> QED BY <2>2
<1>5. CASE rec.state # "PENDING"
  <2>1. Moves(f, Idle) /\ Idle.pc = "idle" /\ Idle.pc \notin WithRec
    BY <1>5, EndShape DEF SaveAcceptedState, rec
  <2>2. CASE CompleteAcceptedOperation(own.op, rec) /\ latest' = own.op
    <3>1. /\ cred.id = rec.cred /\ cred # NoCred
          /\ ops' = [ops EXCEPT ![own.op] = rec] /\ cred' = Advanced(cred, rec)
      BY <2>2 DEF CompleteAcceptedOperation, Advanced
    <3>2. rec.result \in Terminal
      BY <1>2, <1>5
    <3>3. Save(f, rec, Idle)
      BY <1>1, <1>2, <1>3, <2>1, <2>2, <3>1, <3>2 DEF Save, server
    <3> QED BY <3>3
  <2>3. CASE UNCHANGED local
    <3>1. Rest(f, Idle)
      BY <2>1, <2>3 DEF Rest, server, local
    <3> QED BY <3>1 DEF server
  <2> QED BY <1>5, <2>2, <2>3 DEF SaveAcceptedState, rec
<1> QED BY <1>4, <1>5

\* The second half of loadWallet completes the operation, or ends.
LEMMA ReconcileKind ==
  ASSUME TypeInv, NEW f \in Flows, Reconcile(f)
  PROVE  (\E rec, s : Save(f, rec, s)) \/ (Rest(f, Idle) /\ UNCHANGED <<wire, ledger>>)
<1> DEFINE own == flow[f]
<1>1. own.pc = "reconcile" /\ own.pc \in WithRec \ {"sent"}
  BY DEF Reconcile, WithRec
<1>2. /\ own \in FlowStates /\ own.op \in Ops /\ Real(own.rec)
      /\ own.rec.result \in Terminal
  BY <1>1, RecIsReal DEF FlowShape
<1>3. CASE /\ CompleteAcceptedOperation(own.op, own.rec)
           /\ IF own.mode = "use" THEN UseFrom(f, cred') ELSE Go(f, Idle)
           /\ UNCHANGED latest
  <2>1. /\ cred.id = own.rec.cred /\ cred # NoCred
        /\ ops' = [ops EXCEPT ![own.op] = own.rec] /\ cred' = Advanced(cred, own.rec)
    BY <1>3 DEF CompleteAcceptedOperation, Advanced
  <2>2. cred' \in Creds /\ cred'.id = cred.id /\ cred.id # 0 /\ cred' # NoCred
    BY <1>2, <2>1, CredIsReal, AdvancedCred, Constants
  <2>3. PICK s : /\ Moves(f, s) /\ s.pc \in {"idle", "prepare"}
                 /\ s.pc = "prepare" => s.cred = cred' /\ cred' # NoCred
    BY <1>3, <2>2, UseFromMoves, EndShape
  <2>4. latest' \in Ops \cup {NoOp}
    BY <1>3 DEF TypeInv, StoreOK
  <2>5. Save(f, own.rec, s)
    BY <1>1, <1>2, <2>1, <2>3, <2>4 DEF Reconcile, Save, server, WithRec
  <2> QED BY <2>5
<1>4. CASE Go(f, Idle) /\ UNCHANGED local
  BY <1>4, EndShape DEF Reconcile, Rest, server, local
<1> QED BY <1>3, <1>4 DEF Reconcile

LEMMA ResultKind ==
  ASSUME TypeInv, NEW f \in Flows, HandleResult(f)
  PROVE  (\E rec, s : Save(f, rec, s)) \/ (Rest(f, Idle) /\ UNCHANGED <<wire, ledger>>)
<1>1. flow[f].pc \in Learning /\ Learnt(f, flow[f].answer)
  BY DEF HandleResult, Learning, Learnt
<1> QED BY <1>1, AcceptedStateKind DEF HandleResult

\* A record whose outcome is unknown, or that was refused, is saved as such.
LEMMA MarkKind ==
  ASSUME TypeInv, NEW f \in Flows, flow[f].pc \in Learning,
         NEW state \in {"OUTCOME_UNKNOWN", "FAILED"},
         SaveOperation(flow[f].op, WithState(flow[f].rec, state)),
         \/ Go(f, Idle)
         \/ Go(f, [flow[f] EXCEPT !.pc = "release"]),
         UNCHANGED <<minted, wire, server>>
  PROVE  \E rec, s : Save(f, rec, s)
<1> DEFINE rec == WithState(flow[f].rec, state)
<1>1. /\ flow[f] \in FlowStates /\ FlowShape(flow[f])
      /\ flow[f].pc \in WithRec \ {"sent", "reconcile"}
      /\ flow[f].op \in Ops /\ Real(flow[f].rec)
  BY RecIsReal DEF Learning, WithRec
<1>2. /\ Real(rec) /\ rec.cred = flow[f].rec.cred /\ rec.slot = flow[f].rec.slot
      /\ rec.result = flow[f].rec.result
  BY <1>1, WithStateReal
<1> HIDE DEF rec
<1>3. PICK s : /\ Moves(f, s) /\ s.pc \in {"idle", "release"}
               /\ s.pc \in WithRec => s.op = flow[f].op /\ s.rec = flow[f].rec
  <2>1. CASE Go(f, Idle)
    BY <2>1, EndShape
  <2>2. CASE Go(f, [flow[f] EXCEPT !.pc = "release"])
    <3>1. flow' = [flow EXCEPT ![f] = Moved(flow[f], "release")]
      BY <2>2 DEF Go, Moved
    <3>2. Moves(f, Moved(flow[f], "release"))
      BY <1>1, <3>1, MovedShape DEF Moves
    <3> QED BY <1>1, <3>2, MovedShape
  <2> QED BY <2>1, <2>2
<1>4. Save(f, rec, s)
  BY <1>1, <1>2, <1>3 DEF Save, SaveOperation, server, rec
<1> QED BY <1>4

LEMMA LossKind ==
  ASSUME TypeInv, NEW f \in Flows, HandleLoss(f) \/ HandleRefusal(f)
  PROVE  \E rec, s : Save(f, rec, s)
<1>1. flow[f].pc \in Learning
  BY DEF HandleLoss, HandleRefusal, Learning
<1>2. CASE HandleLoss(f)
  BY <1>1, <1>2, MarkKind DEF HandleLoss, MarkOutcomeUnknown, WithState
<1>3. CASE HandleRefusal(f)
  BY <1>1, <1>3, MarkKind DEF HandleRefusal, WithState
<1> QED BY <1>2, <1>3

LEMMA RefreshKind ==
  ASSUME TypeInv, NEW f \in Flows, Refresh(f) \/ RefreshFails(f)
  PROVE  \E rec, s : Save(f, rec, s)
<1>1. flow[f].pc = "refresh" /\ flow[f].pc \in Learning /\ flow[f].pc \in WithRec \ {"sent"}
  BY DEF Refresh, RefreshFails, Learning, WithRec
<1>2. CASE Refresh(f)
  <2> DEFINE ch == Len(challenges')
             rec == WithChallenge(flow[f].rec, ch)
  <2>1. ch \in 1..MaxChallenges
    BY <1>2, ConstantsAssumption DEF Refresh, NewChallenge, TypeInv, ServerOK, RunsOK
  <2>2. /\ flow[f] \in FlowStates /\ FlowShape(flow[f])
        /\ flow[f].op \in Ops /\ Real(flow[f].rec)
    BY <1>1, RecIsReal
  <2> HIDE DEF ch
  <2>3. /\ Real(rec) /\ rec.cred = flow[f].rec.cred /\ rec.slot = flow[f].rec.slot
        /\ rec.result = flow[f].rec.result
    BY <2>1, <2>2, WithChallengeReal
  <2> HIDE DEF rec
  <2>4. SaveOperation(flow[f].op, rec) /\ flow' = [flow EXCEPT ![f] = Resent(flow[f], rec)]
    BY <1>2 DEF Refresh, Go, Resent, rec, ch, WithChallenge
  <2>5. Save(f, rec, Resent(flow[f], rec))
    BY <1>1, <1>2, <2>2, <2>3, <2>4, ResentShape DEF Refresh, Save, Moves, SaveOperation
  <2> QED BY <2>5
<1>3. CASE RefreshFails(f)
  BY <1>1, <1>3, MarkKind DEF RefreshFails, MarkOutcomeUnknown, WithState
<1> QED BY <1>2, <1>3

LEMMA PollKind ==
  ASSUME TypeInv, NEW f \in Flows, Poll(f)
  PROVE  (\E rec, s : Save(f, rec, s)) \/ (Rest(f, Idle) /\ UNCHANGED <<wire, ledger>>)
<1>1. flow[f].pc \in Learning
  BY DEF Poll, Learning
<1>2. CASE /\ ledger[flow[f].op].status \in Terminal
           /\ SaveAcceptedState(f, flow[f].op,
                                WithResult(flow[f].rec, ledger[flow[f].op].status))
  <2>1. Learnt(f, ledger[flow[f].op].status)
    BY DEF Learnt
  <2> QED BY <1>1, <1>2, <2>1, AcceptedStateKind DEF Poll
<1>3. CASE MarkOutcomeUnknown(flow[f].op, flow[f].rec) /\ Go(f, Idle)
  BY <1>1, <1>3, MarkKind DEF Poll, MarkOutcomeUnknown, WithState
<1> QED BY <1>2, <1>3 DEF Poll

-----------------------------------------------------------------------------
(* The wire.                                                               *)

\* What a message is about is what an earlier one or its sender's record is.
WireFrom ==
  \A m \in wire' :
    \/ \E k \in wire : m.op = k.op /\ m.cred = k.cred /\ m.slot = k.slot
    \/ \E f \in Flows : /\ flow[f].pc \in WithRec /\ flow[f].op = m.op
                        /\ flow[f].rec.cred = m.cred /\ flow[f].rec.slot = m.slot

\* A flow that waits for no answer moves, and the wire stays as it is.
LEMMA WireUntouched ==
  ASSUME TypeInv, NEW f \in Flows, NEW s, Moves(f, s), flow[f].pc # "sent",
         UNCHANGED wire
  PROVE  WireOK' /\ WireFrom
<1>1. \A m \in wire : m.owner # NoFlow => m.owner \in Flows \ {f}
  BY DEF TypeInv, WireOK, Messages
<1>2. \A g \in Flows \ {f} : flow'[g] = flow[g]
  BY MovesOK DEF TypeInv
<1> QED BY <1>1, <1>2 DEF TypeInv, WireOK, WireFrom

Orphan(f, m) == [m EXCEPT !.owner = IF @ = f THEN NoFlow ELSE @]

LEMMA OrphanShape ==
  ASSUME NEW f \in Flows, NEW m \in Messages
  PROVE  /\ Orphan(f, m) \in Messages
         /\ Orphan(f, m).op = m.op /\ Orphan(f, m).cred = m.cred /\ Orphan(f, m).slot = m.slot
         /\ Orphan(f, m).owner = IF m.owner = f THEN NoFlow ELSE m.owner
  BY DEF Orphan, Messages

\* A flow that leaves orphans its message.
LEMMA WireOrphaned ==
  ASSUME TypeInv, NEW f \in Flows, NEW s, Moves(f, s), wire' = Orphaned(f)
  PROVE  WireOK' /\ WireFrom
<1>1. wire' = {Orphan(f, m) : m \in wire}
  BY DEF Orphaned, Orphan
<1>2. \A g \in Flows \ {f} : flow'[g] = flow[g]
  BY MovesOK DEF TypeInv
<1>3. wire \subseteq Messages
  BY DEF TypeInv, WireOK
<1>4. wire' \subseteq Messages /\ WireFrom
  BY <1>1, <1>3, OrphanShape DEF WireFrom
<1>5. ASSUME NEW n \in wire', n.owner # NoFlow
      PROVE  /\ flow'[n.owner].pc = "sent" /\ flow'[n.owner].op = n.op
             /\ \A k \in wire' : k.owner = n.owner => k = n
  <2>1. PICK m \in wire : n = Orphan(f, m)
    BY <1>1
  <2>2. m.owner # f /\ n.owner = m.owner /\ n.op = m.op /\ m.owner \in Flows
    BY <1>3, <1>5, <2>1, OrphanShape DEF Messages
  <2>3. flow'[n.owner].pc = "sent" /\ flow'[n.owner].op = n.op
    BY <1>2, <1>5, <2>2 DEF TypeInv, WireOK
  <2>4. ASSUME NEW k \in wire', k.owner = n.owner
        PROVE  k = n
    <3>1. PICK j \in wire : k = Orphan(f, j)
      BY <1>1
    <3>2. j.owner = m.owner
      BY <1>3, <1>5, <2>2, <2>4, <3>1, OrphanShape
    <3> QED BY <1>5, <2>1, <2>2, <3>1, <3>2 DEF TypeInv, WireOK
  <2> QED BY <2>3, <2>4
<1> QED BY <1>4, <1>5 DEF WireOK

\* A message that is taken from the wire was the only one of its owner.
LEMMA WireTaken ==
  ASSUME TypeInv, NEW m \in wire, wire' = wire \ {m},
         IF m.owner = NoFlow THEN UNCHANGED flow ELSE \E s : Moves(m.owner, s)
  PROVE  WireOK' /\ WireFrom
<1>1. wire \subseteq Messages /\ NoFlow \notin Flows
  BY ConstantsAssumption DEF TypeInv, WireOK
<1>2. m.owner # NoFlow => \A k \in wire' : k.owner # m.owner
  BY DEF TypeInv, WireOK
<1>3. \A k \in wire' : k.owner # NoFlow => k.owner \in Flows /\ flow'[k.owner] = flow[k.owner]
  <2>1. CASE m.owner = NoFlow
    BY <1>1, <2>1 DEF Messages
  <2>2. CASE m.owner # NoFlow
    <3>1. m.owner \in Flows
      BY <1>1, <2>2 DEF Messages
    <3>2. PICK s : Moves(m.owner, s)
      BY <2>2
    <3>3. \A g \in Flows \ {m.owner} : flow'[g] = flow[g]
      BY <3>1, <3>2, MovesOK DEF TypeInv
    <3> QED BY <1>1, <1>2, <2>2, <3>3 DEF Messages
  <2> QED BY <2>1, <2>2
<1>4. WireFrom
  BY DEF WireFrom
<1> QED BY <1>3, <1>4 DEF TypeInv, WireOK

Staged(m, stage) == [m EXCEPT !.stage = stage]

\* A message that goes on keeps its owner and what it is about.
LEMMA WireAdvanced ==
  ASSUME TypeInv, NEW m \in wire, NEW stage \in {"looked", "checked"}, Advance(m, stage)
  PROVE  WireOK' /\ WireFrom
<1>1. wire' = (wire \ {m}) \cup {Staged(m, stage)} /\ UNCHANGED flow
  BY DEF Advance, Staged
<1>2. wire \subseteq Messages
  BY DEF TypeInv, WireOK
<1>3. /\ Staged(m, stage) \in Messages
      /\ Staged(m, stage).op = m.op /\ Staged(m, stage).cred = m.cred
      /\ Staged(m, stage).slot = m.slot /\ Staged(m, stage).owner = m.owner
  BY <1>2 DEF Staged, Messages
<1>4. wire' \subseteq Messages /\ WireFrom
  BY <1>1, <1>2, <1>3 DEF WireFrom
<1>5. ASSUME NEW n \in wire', n.owner # NoFlow
      PROVE  /\ flow'[n.owner].pc = "sent" /\ flow'[n.owner].op = n.op
             /\ \A k \in wire' : k.owner = n.owner => k = n
  <2>1. CASE n = Staged(m, stage)
    BY <1>1, <1>3, <1>5, <2>1 DEF TypeInv, WireOK
  <2>2. CASE n \in wire \ {m}
    BY <1>1, <1>3, <1>5, <2>2 DEF TypeInv, WireOK
  <2> QED BY <1>1, <2>1, <2>2
<1> QED BY <1>4, <1>5 DEF WireOK

\* A flow that sends had no message under way.
LEMMA SendKind ==
  ASSUME TypeInv, NEW f \in Flows, Send(f)
  PROVE  (\E s : Rest(f, s)) /\ WireOK' /\ WireFrom
<1> DEFINE n == Message(f)
<1>1. /\ flow[f] \in FlowStates /\ FlowShape(flow[f])
      /\ flow[f].op \in Ops /\ Real(flow[f].rec) /\ flow[f].pc \in WithRec
  BY RecIsReal DEF Send, WithRec
<1>2. flow' = [flow EXCEPT ![f] = Moved(flow[f], "sent")]
  BY DEF Send, Go, Moved
<1>3. Moves(f, Moved(flow[f], "sent"))
  BY <1>1, <1>2, MovedShape DEF Moves
<1>4. Rest(f, Moved(flow[f], "sent"))
  BY <1>1, <1>3, MovedShape DEF Send, Rest, local, server, WithRec
<1>5. /\ n \in Messages /\ n.owner = f /\ n.op = flow[f].op
      /\ n.cred = flow[f].rec.cred /\ n.slot = flow[f].rec.slot
  <2>1. /\ flow[f].rec.cred \in 1..MaxIssued
        /\ flow[f].rec.slot \in 0..(L - 1)
        /\ flow[f].rec.ch \in 1..MaxChallenges
    BY <1>1, ConstantsAssumption DEF Real, Records
  <2> QED BY <1>1, <2>1 DEF Message, Messages
<1> HIDE DEF n
<1>6. wire' = wire \cup {n} /\ wire \subseteq Messages
  BY DEF Send, n, TypeInv, WireOK
<1>7. WireFrom
  BY <1>1, <1>5, <1>6 DEF WireFrom
<1>8. flow'[f].pc = "sent" /\ flow'[f].op = n.op /\ \A g \in Flows \ {f} : flow'[g] = flow[g]
  BY <1>1, <1>3, <1>5, MovesOK, MovedShape DEF TypeInv
<1>9. \A m \in wire : m.owner # NoFlow => m.owner \in Flows \ {f}
  BY <1>6 DEF Send, TypeInv, WireOK, Messages
<1>10. WireOK'
  <2>1. wire' \subseteq Messages
    BY <1>5, <1>6
  <2>2. ASSUME NEW m \in wire', m.owner # NoFlow
        PROVE  /\ flow'[m.owner].pc = "sent" /\ flow'[m.owner].op = m.op
               /\ \A k \in wire' : k.owner = m.owner => k = m
    <3>1. CASE m = n
      BY <1>5, <1>6, <1>8, <1>9, <2>2, <3>1
    <3>2. CASE m \in wire
      BY <1>5, <1>6, <1>8, <1>9, <2>2, <3>2 DEF TypeInv, WireOK
    <3> QED BY <1>6, <3>1, <3>2
  <2> QED BY <2>1, <2>2 DEF WireOK
<1> QED BY <1>4, <1>7, <1>10

\* An expired challenge is refreshed if the credential is still the active one.
LEMMA ExpiryKind ==
  ASSUME TypeInv, NEW f \in Flows, HandleExpiry(f)
  PROVE  (\E s : Rest(f, s) /\ flow[f].pc # "sent") /\ UNCHANGED <<wire, ledger>>
<1>1. /\ flow[f] \in FlowStates /\ FlowShape(flow[f])
      /\ flow[f].pc = "answered" /\ flow[f].pc \in WithRec
  BY RecIsReal DEF HandleExpiry, WithRec
<1>2. CASE flow' = [flow EXCEPT ![f] = Moved(flow[f], "refresh")]
  <2>1. Rest(f, Moved(flow[f], "refresh"))
    BY <1>1, <1>2, MovedShape
    DEF HandleExpiry, Rest, Moves, local, server, WithRec
  <2> QED BY <1>1, <2>1 DEF HandleExpiry, server
<1>3. CASE Go(f, Idle)
  <2>1. Rest(f, Idle)
    BY <1>3, EndShape DEF HandleExpiry, Rest, local, server
  <2> QED BY <1>1, <2>1 DEF HandleExpiry, server
<1> QED BY <1>2, <1>3 DEF HandleExpiry, Go, Moved

Replied(s, answer) == [s EXCEPT !.pc = "answered", !.answer = answer]

LEMMA RepliedShape ==
  ASSUME NEW s \in FlowStates, FlowShape(s), s.pc \in WithRec, NEW answer \in Answers
  PROVE  /\ Replied(s, answer) \in FlowStates /\ FlowShape(Replied(s, answer))
         /\ Replied(s, answer).pc = "answered" /\ Replied(s, answer).answer = answer
         /\ Replied(s, answer).op = s.op /\ Replied(s, answer).rec = s.rec
<1>1. /\ Replied(s, answer) \in FlowStates
      /\ Replied(s, answer).pc = "answered" /\ Replied(s, answer).answer = answer
      /\ Replied(s, answer).op = s.op /\ Replied(s, answer).rec = s.rec
  BY DEF Replied, FlowStates
<1> QED BY <1>1 DEF FlowShape

\* The page closes, or fetch times out: the flow ends or goes on without an answer.
LEMMA LeaveKind ==
  ASSUME TypeInv, NEW f \in Flows, Close(f) \/ GiveUp(f)
  PROVE  (\E s : Rest(f, s)) /\ WireOK' /\ WireFrom /\ UNCHANGED ledger
<1>1. PICK s : Rest(f, s)
  <2>1. CASE Close(f)
    BY <2>1, EndShape DEF Close, Rest, local, server
  <2>2. CASE GiveUp(f)
    <3>1. /\ flow[f] \in FlowStates /\ FlowShape(flow[f])
          /\ flow[f].pc \in WithRec
      BY <2>2, RecIsReal DEF GiveUp, WithRec
    <3>2. flow' = [flow EXCEPT ![f] = Replied(flow[f], "LOST")]
      BY <2>2 DEF GiveUp, Go, Replied
    <3>3. "LOST" \in Answers /\ "LOST" \notin Terminal
      BY DEF Answers, Terminal
    <3>4. Rest(f, Replied(flow[f], "LOST"))
      BY <2>2, <3>1, <3>2, <3>3, RepliedShape
      DEF GiveUp, Rest, Moves, local, server, WithRec
    <3> QED BY <3>4
  <2> QED BY <2>1, <2>2
<1>2. wire' = Orphaned(f) /\ UNCHANGED ledger
  BY DEF Close, GiveUp, server
<1>3. WireOK' /\ WireFrom
  BY <1>1, <1>2, WireOrphaned DEF Rest
<1> QED BY <1>1, <1>2, <1>3

\* The verifier works on a message, or answers it.
Verifies ==
  /\ WireOK' /\ WireFrom
  /\ UNCHANGED <<local, minted, run, runOf, challenges, expired>>
  /\ UNCHANGED flow \/ \E f \in Flows : \E s : Rest(f, s)

LEMMA ReplyKind ==
  ASSUME TypeInv, NEW m \in wire, NEW a \in Answers, Reply(m, a),
         a \in Terminal => a = ledger[m.op].status,
         UNCHANGED <<local, minted, run, runOf, challenges, expired>>
  PROVE  Verifies
<1>1. wire \subseteq Messages
  BY DEF TypeInv, WireOK
<1>2. CASE m.owner = NoFlow
  <2>1. UNCHANGED flow /\ wire' = wire \ {m}
    BY <1>2 DEF Reply
  <2>2. WireOK' /\ WireFrom
    BY <1>2, <2>1, WireTaken
  <2> QED BY <2>1, <2>2 DEF Verifies
<1>3. CASE m.owner # NoFlow
  <2> DEFINE f == m.owner
  <2>1. f \in Flows /\ flow[f].pc = "sent" /\ flow[f].op = m.op
    BY <1>1, <1>3 DEF TypeInv, WireOK, Messages
  <2>2. flow[f] \in FlowStates /\ FlowShape(flow[f]) /\ flow[f].pc \in WithRec
    BY <2>1, RecIsReal DEF WithRec
  <2>3. PICK answer \in {a, "LOST"} : flow' = [flow EXCEPT ![f] = Replied(flow[f], answer)]
    BY <1>3 DEF Reply, Go, Replied
  <2>4. answer \in Answers /\ (answer \in Terminal => answer = ledger[flow[f].op].status)
    BY <2>1, <2>3 DEF Answers, Terminal
  <2>5. Rest(f, Replied(flow[f], answer))
    BY <2>1, <2>2, <2>3, <2>4, RepliedShape DEF Rest, Moves, local, WithRec
  <2>6. WireOK' /\ WireFrom
    BY <1>3, <2>5, WireTaken DEF Rest, Reply
  <2> QED BY <2>1, <2>5, <2>6 DEF Verifies
<1> QED BY <1>2, <1>3

\* A terminal status that the look-up answers is that of the message's use.
LEMMA FoundAnswer ==
  ASSUME TypeInv, NEW m \in wire, NEW otherwise \in Answers \ Terminal
  PROVE  /\ Found(m, otherwise) \in Answers
         /\ Found(m, otherwise) \in Terminal => Found(m, otherwise) = ledger[m.op].status
<1>1. m.op \in Ops /\ ledger[m.op].status \in Answers
  BY DEF TypeInv, WireOK, ServerOK, Messages, Uses, Answers
<1>2. "CONFLICT" \in Answers /\ "CONFLICT" \notin Terminal
  BY DEF Answers, Refusals, Terminal
<1> QED BY <1>1, <1>2 DEF Found

LEMMA VerifierKind ==
  ASSUME TypeInv, NEW m \in wire,
         LookUp(m) \/ CheckChallenge(m) \/ Reject(m) \/ Refuse(m) \/ Drop(m)
  PROVE  Verifies /\ UNCHANGED ledger
<1>1. {"NONE", "LOST", "CHALLENGE_EXPIRED", "PRESENTATION_REJECTED"} \subseteq Answers \ Terminal
  BY DEF Answers, Refusals, Terminal
<1>2. UNCHANGED <<local, minted, run, runOf, challenges, expired, ledger>>
  BY DEF LookUp, CheckChallenge, Reject, Refuse, Drop, server
<1>3. ASSUME NEW otherwise \in {"NONE", "LOST", "CHALLENGE_EXPIRED"}, Reply(m, Found(m, otherwise))
      PROVE  Verifies
  BY <1>1, <1>2, <1>3, FoundAnswer, ReplyKind
<1>4. ASSUME NEW a \in {"LOST", "CHALLENGE_EXPIRED", "PRESENTATION_REJECTED"}, Reply(m, a)
      PROVE  Verifies
  BY <1>1, <1>2, <1>4, ReplyKind
<1>5. ASSUME NEW stage \in {"looked", "checked"}, Advance(m, stage)
      PROVE  Verifies
  BY <1>2, <1>5, WireAdvanced DEF Verifies, Advance
<1>6. CASE LookUp(m)
  BY <1>2, <1>3, <1>5, <1>6 DEF LookUp
<1>7. CASE CheckChallenge(m)
  BY <1>2, <1>3, <1>5, <1>7 DEF CheckChallenge
<1>8. CASE Reject(m)
  BY <1>2, <1>4, <1>8 DEF Reject
<1>9. CASE Refuse(m)
  BY <1>2, <1>3, <1>4, <1>9 DEF Refuse
<1>10. CASE Drop(m)
  BY <1>2, <1>4, <1>10 DEF Drop
<1> QED BY <1>2, <1>6, <1>7, <1>8, <1>9, <1>10

UseOf(m) == [status |-> "ACCEPTED_PENDING_ACTION", cred |-> m.cred, slot |-> m.slot, ch |-> m.ch]

LEMMA AcceptKind ==
  ASSUME TypeInv, NEW m \in wire, Accept(m)
  PROVE  /\ Verifies
         /\ m.op \in Ops /\ ledger[m.op].status = "NONE"
         /\ ledger' = [ledger EXCEPT ![m.op] = UseOf(m)]
         /\ UseOf(m) \in Uses
<1>1. m \in Messages /\ m.op \in Ops
  BY DEF TypeInv, WireOK, Messages
<1>2. ledger[m.op].status = "NONE"
  BY <1>1 DEF Accept, Clashing
<1>3. "ACCEPTED_PENDING_ACTION" \in Answers \ Terminal
  BY DEF Answers, Terminal
<1>4. Verifies
  BY <1>3, ReplyKind DEF Accept, local
<1>5. UseOf(m) \in Uses
  BY <1>1, ConstantsAssumption DEF UseOf, Uses, Messages
<1> QED BY <1>1, <1>2, <1>4, <1>5 DEF Accept, UseOf

-----------------------------------------------------------------------------
(* Type correctness, for any pages.                                        *)

LEMMA TypeInit == Init => TypeInv
<1> SUFFICES ASSUME Init PROVE TypeInv
  OBVIOUS
<1>1. StoreOK
  BY Constants DEF Init, StoreOK
<1>2. FlowOK
  BY Constants DEF Init, FlowOK
<1>3. WireOK
  BY DEF Init, WireOK
<1>4. RunsOK
  BY ConstantsAssumption DEF Init, RunsOK
<1>5. ServerOK
  BY Constants, ConstantsAssumption DEF Init, ServerOK
<1> QED BY <1>1, <1>2, <1>3, <1>4, <1>5 DEF TypeInv

LEMMA StoreKept ==
  ASSUME TypeInv, UNCHANGED local
  PROVE  StoreOK'
  BY DEF TypeInv, StoreOK, local

LEMMA RunsKept ==
  ASSUME TypeInv, UNCHANGED <<run, runOf>>
  PROVE  RunsOK'
  BY DEF TypeInv, RunsOK

LEMMA ServerKept ==
  ASSUME TypeInv, UNCHANGED <<minted, ledger, challenges, expired>>
  PROVE  ServerOK'
  BY DEF TypeInv, ServerOK

\* An operation that is saved is a real one.
LEMMA SavedStore ==
  ASSUME TypeInv, NEW o \in Ops, NEW rec, Real(rec), ops' = [ops EXCEPT ![o] = rec],
         latest' \in Ops \cup {NoOp}, cred' \in Creds, cred' = NoCred \/ cred'.id # 0
  PROVE  StoreOK'
  BY DEF TypeInv, StoreOK, Real

LEMMA TypeOfLoad ==
  ASSUME TypeInv, NEW f \in Flows, NEW s, Load(f, s)
  PROVE  TypeInv'
<1>1. FlowOK' /\ WireOK'
  BY MovesOK, WireUntouched DEF Load, TypeInv
<1>2. StoreOK' /\ RunsOK' /\ ServerOK'
  BY StoreKept, RunsKept, ServerKept DEF Load, server
<1> QED BY <1>1, <1>2 DEF TypeInv

LEMMA NewChallengeType ==
  ASSUME TypeInv, challenges' = challenges \/ NewChallenge
  PROVE  challenges' \in Seq(1..MaxRun) /\ Len(challenges') <= MaxChallenges
<1>1. /\ challenges \in Seq(1..MaxRun) /\ Len(challenges) <= MaxChallenges
      /\ run \in 1..MaxRun /\ MaxChallenges \in Nat
  BY ConstantsAssumption DEF TypeInv, ServerOK, RunsOK
<1>2. CASE NewChallenge
  <2>1. challenges' = Append(challenges, run) /\ Len(challenges) < MaxChallenges
    BY <1>2 DEF NewChallenge
  <2> QED BY <1>1, <2>1
<1> QED BY <1>1, <1>2

LEMMA TypeOfSave ==
  ASSUME TypeInv, NEW f \in Flows, NEW rec, NEW s, Save(f, rec, s)
  PROVE  TypeInv'
<1>1. FlowOK' /\ WireOK'
  BY MovesOK, WireUntouched DEF Save, TypeInv
<1>2. flow[f].op \in Ops /\ Real(rec)
  BY RecIsReal DEF Save
<1>3. cred' \in Creds /\ (cred' = NoCred \/ cred'.id # 0)
  <2>1. CASE cred' = cred
    BY <2>1 DEF TypeInv, StoreOK
  <2>2. CASE cred # NoCred /\ cred' = Advanced(cred, rec)
    BY <1>2, <2>2, CredIsReal, AdvancedCred
  <2> QED BY <2>1, <2>2 DEF Save
<1>4. StoreOK'
  BY <1>2, <1>3, SavedStore DEF Save
<1>5. RunsOK'
  BY RunsKept DEF Save
<1>6. ServerOK'
  BY NewChallengeType DEF Save, TypeInv, ServerOK
<1> QED BY <1>1, <1>4, <1>5, <1>6 DEF TypeInv

LEMMA TypeOfRest ==
  ASSUME TypeInv, NEW f \in Flows, NEW s, Rest(f, s), WireOK', UNCHANGED ledger
  PROVE  TypeInv'
<1>1. FlowOK'
  BY MovesOK DEF Rest, TypeInv
<1>2. StoreOK' /\ RunsOK' /\ ServerOK'
  BY StoreKept, RunsKept, ServerKept DEF Rest
<1> QED BY <1>1, <1>2 DEF TypeInv

LEMMA TypeOfVerifies ==
  ASSUME TypeInv, Verifies, ledger' \in [Ops -> Uses]
  PROVE  TypeInv'
<1>1. FlowOK'
  <2>1. CASE UNCHANGED flow
    BY <2>1 DEF TypeInv, FlowOK
  <2>2. CASE \E f \in Flows : \E s : Rest(f, s)
    BY <2>2, MovesOK DEF Rest, TypeInv
  <2> QED BY <2>1, <2>2 DEF Verifies
<1>2. StoreOK' /\ RunsOK'
  BY StoreKept, RunsKept DEF Verifies
<1>3. ServerOK'
  BY DEF Verifies, TypeInv, ServerOK
<1> QED BY <1>1, <1>2, <1>3 DEF Verifies, TypeInv

\* The record that is prepared for the first send.
NewRecord(id, slot, ch) ==
  [NoRecord EXCEPT !.state = "PENDING", !.cred = id, !.slot = slot, !.ch = ch]

Prepared(f) == NewRecord(flow[f].cred.id, flow[f].cred.next, Len(challenges'))

LEMMA NewRecordReal ==
  ASSUME NEW id \in 1..MaxIssued, NEW slot \in 0..(L - 1), NEW ch \in 1..MaxChallenges
  PROVE  /\ Real(NewRecord(id, slot, ch))
         /\ NewRecord(id, slot, ch).cred = id /\ NewRecord(id, slot, ch).slot = slot
         /\ NewRecord(id, slot, ch).result = "NONE"
<1> DEFINE r == [NoRecord EXCEPT !.state = "PENDING", !.cred = id]
<1>1. r \in Records /\ r.state = "PENDING" /\ r.cred = id /\ r.result = "NONE"
  <2>1. id \in 0..MaxIssued
    BY ConstantsAssumption
  <2> QED BY <2>1, Constants DEF Records
<1>2. NewRecord(id, slot, ch) = [r EXCEPT !.slot = slot, !.ch = ch]
  BY DEF NewRecord, NoRecord
<1>3. slot \in 0..L /\ slot < L /\ ch \in 0..MaxChallenges /\ ch # 0 /\ id # 0
  BY ConstantsAssumption
<1> HIDE DEF r
<1>4. /\ NewRecord(id, slot, ch) \in Records
      /\ NewRecord(id, slot, ch).state = "PENDING" /\ NewRecord(id, slot, ch).cred = id
      /\ NewRecord(id, slot, ch).slot = slot /\ NewRecord(id, slot, ch).ch = ch
      /\ NewRecord(id, slot, ch).result = "NONE"
  BY <1>1, <1>2, <1>3 DEF Records
<1> QED BY <1>3, <1>4 DEF Real

LEMMA PrepareKind ==
  ASSUME TypeInv, NEW f \in Flows, Prepare(f)
  PROVE  \E o \in Ops :
           LET s == [flow[f] EXCEPT !.pc = "send", !.op = o, !.rec = Prepared(f)] IN
           /\ IF flow[f].cred.prepared = NoOp THEN o \notin minted
                                              ELSE o = flow[f].cred.prepared
           /\ minted' = minted \cup {o}
           /\ Real(Prepared(f)) /\ Prepared(f).cred = flow[f].cred.id
           /\ Prepared(f).slot = flow[f].cred.next /\ Prepared(f).result = "NONE"
           /\ SaveOperation(o, Prepared(f))
           /\ Moves(f, s) /\ s.pc = "send" /\ s.op = o /\ s.rec = Prepared(f)
<1>1. PICK o \in Ops :
        /\ IF flow[f].cred.prepared = NoOp THEN o \notin minted
                                           ELSE o = flow[f].cred.prepared
        /\ minted' = minted \cup {o}
        /\ SaveOperation(o, Prepared(f))
        /\ Go(f, [flow[f] EXCEPT !.pc = "send", !.op = o, !.rec = Prepared(f)])
  BY DEF Prepare, Prepared, NewRecord
<1> DEFINE s == [flow[f] EXCEPT !.pc = "send", !.op = o, !.rec = Prepared(f)]
<1>2. /\ flow[f] \in FlowStates /\ flow[f].cred.id \in 1..MaxIssued
      /\ flow[f].cred.next \in 0..L /\ flow[f].cred.next < L
  BY ConstantsAssumption DEF Prepare, TypeInv, FlowOK, FlowShape, FlowStates, Creds
<1>3. Len(challenges') \in 1..MaxChallenges
  BY ConstantsAssumption DEF Prepare, NewChallenge, TypeInv, ServerOK, RunsOK
<1>4. /\ Real(Prepared(f)) /\ Prepared(f).cred = flow[f].cred.id
      /\ Prepared(f).slot = flow[f].cred.next /\ Prepared(f).result = "NONE"
  <2>1. /\ flow[f].cred.id \in 1..MaxIssued /\ flow[f].cred.next \in 0..(L - 1)
        /\ Len(challenges') \in 1..MaxChallenges
    BY <1>2, <1>3, ConstantsAssumption
  <2> QED BY <2>1, NewRecordReal DEF Prepared
<1>5. s \in FlowStates /\ s.pc = "send" /\ s.op = o /\ s.rec = Prepared(f)
  BY <1>2, <1>4 DEF FlowStates, Real
<1>6. FlowShape(s)
  BY <1>4, <1>5 DEF FlowShape
<1> QED BY <1>1, <1>4, <1>5, <1>6 DEF Go, Moves

LEMMA TypeOfPrepare ==
  ASSUME TypeInv, NEW f \in Flows, Prepare(f)
  PROVE  TypeInv'
<1> DEFINE state(o) == [flow[f] EXCEPT !.pc = "send", !.op = o, !.rec = Prepared(f)]
<1>1. PICK o \in Ops : /\ minted' = minted \cup {o} /\ Real(Prepared(f))
                       /\ SaveOperation(o, Prepared(f)) /\ Moves(f, state(o))
  BY PrepareKind
<1>2. flow[f].pc = "prepare" /\ UNCHANGED <<wire, run, runOf, ledger, expired>> /\ NewChallenge
  BY DEF Prepare
<1>3. FlowOK' /\ WireOK'
  BY <1>1, <1>2, MovesOK, WireUntouched DEF TypeInv
<1>4. StoreOK'
  BY <1>1, SavedStore DEF SaveOperation, TypeInv, StoreOK
<1>5. RunsOK' /\ ServerOK'
  BY <1>1, <1>2, RunsKept, NewChallengeType DEF TypeInv, ServerOK
<1> QED BY <1>3, <1>4, <1>5 DEF TypeInv

IssuedState(n) == [Idle EXCEPT !.pc = "issue", !.cred = [NoCred EXCEPT !.id = n]]

LEMMA IssuedShape ==
  ASSUME NEW n \in 1..MaxIssued
  PROVE  /\ IssuedState(n) \in FlowStates /\ FlowShape(IssuedState(n))
         /\ IssuedState(n).pc = "issue"
         /\ IssuedState(n).cred.id = n /\ IssuedState(n).cred.next = 0
         /\ IssuedState(n).cred.prepared = NoOp
<1> DEFINE c == [NoCred EXCEPT !.id = n]
<1>1. c \in Creds /\ c.id = n /\ c.next = 0 /\ c.prepared = NoOp /\ n # 0
  BY ConstantsAssumption DEF NoCred, Creds
<1> HIDE DEF c
<1>2. [Idle EXCEPT !.pc = "issue", !.cred = c] \in FlowStates
  BY <1>1, Constants DEF FlowStates
<1>3. IssuedState(n) \in FlowStates /\ IssuedState(n).pc = "issue" /\ IssuedState(n).cred = c
  BY <1>2 DEF IssuedState, Idle, c
<1> QED BY <1>1, <1>3 DEF FlowShape, WithRec

LEMMA StartIssueKind ==
  ASSUME TypeInv, NEW f \in Flows, StartIssue(f)
  PROVE  \E n \in 1..MaxIssued :
           /\ runOf[n] = 0 /\ runOf' = [runOf EXCEPT ![n] = run]
           /\ Moves(f, IssuedState(n))
           /\ flow[f].pc = "idle" /\ cred = NoCred
           /\ UNCHANGED <<local, minted, wire, run, ledger, challenges, expired>>
  BY IssuedShape DEF StartIssue, IssuedState, Go, Moves

LEMMA TypeOfIssue ==
  ASSUME TypeInv, NEW f \in Flows, StartIssue(f) \/ SaveIssued(f)
  PROVE  TypeInv'
<1>1. CASE StartIssue(f)
  <2>1. PICK n \in 1..MaxIssued :
           /\ runOf' = [runOf EXCEPT ![n] = run] /\ Moves(f, IssuedState(n))
           /\ flow[f].pc = "idle"
           /\ UNCHANGED <<local, minted, wire, run, ledger, challenges, expired>>
    BY <1>1, StartIssueKind
  <2>2. FlowOK' /\ WireOK' /\ StoreOK' /\ ServerOK'
    BY <2>1, MovesOK, WireUntouched, StoreKept, ServerKept DEF TypeInv
  <2>3. RunsOK'
    BY <2>1 DEF TypeInv, RunsOK
  <2> QED BY <2>2, <2>3 DEF TypeInv
<1>2. CASE SaveIssued(f)
  <2>1. Moves(f, Idle) /\ flow[f].pc = "issue"
    BY <1>2, EndShape DEF SaveIssued
  <2>2. FlowOK' /\ WireOK' /\ RunsOK' /\ ServerOK'
    BY <1>2, <2>1, MovesOK, WireUntouched, RunsKept, ServerKept DEF SaveIssued, TypeInv, server
  <2>3. flow[f].cred \in Creds /\ flow[f].cred.id # 0
    BY <2>1 DEF TypeInv, FlowOK, FlowShape, FlowStates
  <2>4. StoreOK'
    BY <1>2, <2>3 DEF SaveIssued, TypeInv, StoreOK
  <2> QED BY <2>2, <2>4 DEF TypeInv
<1> QED BY <1>1, <1>2

Cleared == [Idle EXCEPT !.pc = "clear"]
ArmedCred(o) == [cred EXCEPT !.prepared = o]
ArmedState(o) == [Idle EXCEPT !.pc = "arm", !.cred = ArmedCred(o)]

LEMMA ClearedShape == Cleared \in FlowStates /\ FlowShape(Cleared) /\ Cleared.pc = "clear"
  BY Constants DEF Cleared, Idle, FlowStates, FlowShape, WithRec

LEMMA ArmedShape ==
  ASSUME cred \in Creds, cred.id # 0, NEW o \in Ops
  PROVE  /\ ArmedState(o) \in FlowStates /\ FlowShape(ArmedState(o))
         /\ ArmedState(o).pc = "arm" /\ ArmedState(o).cred = ArmedCred(o)
         /\ ArmedCred(o).id = cred.id /\ ArmedCred(o).next = cred.next
         /\ ArmedCred(o).prepared = o
<1>1. /\ ArmedCred(o) \in Creds /\ ArmedCred(o).id = cred.id
      /\ ArmedCred(o).next = cred.next /\ ArmedCred(o).prepared = o
  BY DEF ArmedCred, Creds
<1>2. /\ ArmedState(o) \in FlowStates
      /\ ArmedState(o).pc = "arm" /\ ArmedState(o).cred = ArmedCred(o)
  BY <1>1, Constants DEF ArmedState, Idle, FlowStates
<1> QED BY <1>1, <1>2 DEF FlowShape, WithRec

\* What a reset, its clearing and the arming of the fault do.
LEMMA TypeOfReset ==
  ASSUME TypeInv, NEW f \in Flows, StartReset(f) \/ ClearWallet(f)
  PROVE  TypeInv'
<1>1. CASE StartReset(f)
  <2>1. PICK s \in {Idle, Cleared} : flow' = [flow EXCEPT ![f] = s]
    BY <1>1 DEF StartReset, Go, Cleared
  <2>2. Moves(f, s)
    BY <2>1, Constants, ClearedShape DEF Moves
  <2>3. FlowOK' /\ WireOK' /\ StoreOK'
    BY <1>1, <2>2, MovesOK, WireUntouched, StoreKept DEF StartReset, TypeInv
  <2>4. RunsOK'
    BY <1>1, ConstantsAssumption DEF StartReset, TypeInv, RunsOK
  <2>5. ServerOK'
    BY <1>1, Constants DEF StartReset, TypeInv, ServerOK
  <2> QED BY <2>3, <2>4, <2>5 DEF TypeInv
<1>2. CASE ClearWallet(f)
  <2>1. Moves(f, Idle) /\ flow[f].pc = "clear"
    BY <1>2, EndShape DEF ClearWallet
  <2>2. FlowOK' /\ WireOK' /\ RunsOK' /\ ServerOK'
    BY <1>2, <2>1, MovesOK, WireUntouched, RunsKept, ServerKept DEF ClearWallet, TypeInv, server
  <2>3. StoreOK'
    BY <1>2, Constants DEF ClearWallet, StoreOK
  <2> QED BY <2>2, <2>3 DEF TypeInv
<1> QED BY <1>1, <1>2

LEMMA StartArmKind ==
  ASSUME TypeInv, NEW f \in Flows, StartArm(f)
  PROVE  \E o \in Ops :
           /\ IF cred.prepared = NoOp THEN o \notin minted ELSE o = cred.prepared
           /\ minted' = minted \cup {o}
           /\ Moves(f, ArmedState(o)) /\ flow[f].pc = "idle"
           /\ cred # NoCred
           /\ UNCHANGED <<local, wire, server>>
<1>1. cred # NoCred
  BY DEF StartArm, MayUse
<1>2. cred \in Creds /\ cred.id # 0
  BY <1>1, CredIsReal
<1> QED BY <1>1, <1>2, ArmedShape DEF StartArm, ArmedState, ArmedCred, Go, Moves

LEMMA TypeOfArm ==
  ASSUME TypeInv, NEW f \in Flows, StartArm(f) \/ SaveArmed(f)
  PROVE  TypeInv'
<1>1. CASE StartArm(f)
  <2>1. PICK o \in Ops : /\ minted' = minted \cup {o}
                         /\ Moves(f, ArmedState(o)) /\ flow[f].pc = "idle"
                         /\ UNCHANGED <<local, wire, server>>
    BY <1>1, StartArmKind
  <2>2. FlowOK' /\ WireOK' /\ StoreOK' /\ RunsOK'
    BY <2>1, MovesOK, WireUntouched, StoreKept, RunsKept DEF TypeInv, server
  <2>3. ServerOK'
    BY <2>1 DEF TypeInv, ServerOK, server
  <2> QED BY <2>2, <2>3 DEF TypeInv
<1>2. CASE SaveArmed(f)
  <2>1. Moves(f, Idle) /\ flow[f].pc = "arm"
    BY <1>2, EndShape DEF SaveArmed
  <2>2. FlowOK' /\ WireOK' /\ RunsOK' /\ ServerOK'
    BY <1>2, <2>1, MovesOK, WireUntouched, RunsKept, ServerKept DEF SaveArmed, TypeInv, server
  <2>3. flow[f].cred \in Creds /\ flow[f].cred.id # 0
    BY <2>1 DEF TypeInv, FlowOK, FlowShape, FlowStates
  <2>4. StoreOK'
    BY <1>2, <2>3 DEF SaveArmed, TypeInv, StoreOK
  <2> QED BY <2>2, <2>4 DEF TypeInv
<1> QED BY <1>1, <1>2

\* The prepared operation of a credential is given up.
Unprepared(c) == [c EXCEPT !.prepared = NoOp]

LEMMA ReleaseKind ==
  ASSUME TypeInv, NEW f \in Flows, Release(f)
  PROVE  /\ Moves(f, Idle) /\ flow[f].pc = "release"
         /\ cred' = cred \/ (cred' = Unprepared(cred) /\ cred # NoCred)
         /\ Unprepared(cred) \in Creds /\ Unprepared(cred).id = cred.id
         /\ Unprepared(cred).next = cred.next /\ Unprepared(cred).prepared = NoOp
         /\ UNCHANGED <<ops, latest, minted, wire, server>>
<1>1. flow[f].op \in Ops
  BY RecIsReal DEF Release, WithRec
<1>2. cred.prepared = flow[f].op => cred # NoCred
  BY <1>1, Constants, ConstantsAssumption
<1>3. cred \in Creds
  BY DEF TypeInv, StoreOK
<1>4. /\ Unprepared(cred) \in Creds /\ Unprepared(cred).id = cred.id
      /\ Unprepared(cred).next = cred.next /\ Unprepared(cred).prepared = NoOp
  BY <1>3 DEF Unprepared, Creds
<1> QED BY <1>2, <1>4, EndShape DEF Release, Unprepared

LEMMA TypeOfRelease ==
  ASSUME TypeInv, NEW f \in Flows, Release(f)
  PROVE  TypeInv'
<1>1. FlowOK' /\ WireOK' /\ RunsOK' /\ ServerOK'
  BY ReleaseKind, MovesOK, WireUntouched, RunsKept, ServerKept DEF TypeInv, server
<1>2. StoreOK'
  BY ReleaseKind, CredIsReal DEF TypeInv, StoreOK
<1> QED BY <1>1, <1>2 DEF TypeInv

WithStatus(use, status) == [use EXCEPT !.status = status]

LEMMA WithStatusShape ==
  ASSUME NEW use \in Uses, NEW status \in Terminal
  PROVE  /\ WithStatus(use, status) \in Uses /\ WithStatus(use, status).status = status
         /\ WithStatus(use, status).cred = use.cred /\ WithStatus(use, status).slot = use.slot
  BY DEF WithStatus, Uses

LEMMA TypeOfSettle ==
  ASSUME TypeInv, NEW o \in Ops, NEW status \in Terminal, Settle(o, status)
  PROVE  TypeInv'
<1>1. ledger' = [ledger EXCEPT ![o] = WithStatus(ledger[o], status)]
  BY DEF Settle, WithStatus
<1>2. ledger' \in [Ops -> Uses]
  BY <1>1, WithStatusShape DEF TypeInv, ServerOK
<1>3. StoreOK' /\ FlowOK' /\ WireOK' /\ RunsOK'
  BY StoreKept, RunsKept DEF Settle, TypeInv, FlowOK, WireOK
<1> QED BY <1>2, <1>3 DEF Settle, TypeInv, ServerOK

LEMMA TypeOfExpire ==
  ASSUME TypeInv, NEW c \in DOMAIN challenges, Expire(c)
  PROVE  TypeInv'
<1>1. c \in 1..MaxChallenges
  BY ConstantsAssumption DEF TypeInv, ServerOK
<1>2. StoreOK' /\ FlowOK' /\ WireOK' /\ RunsOK'
  BY StoreKept, RunsKept DEF Expire, TypeInv, FlowOK, WireOK
<1> QED BY <1>1, <1>2 DEF Expire, TypeInv, ServerOK

LEMMA TypeOfStart ==
  ASSUME TypeInv, NEW f \in Flows, Start(f)
  PROVE  TypeInv'
<1>1. CASE \/ StartUse(f) \/ StartRetry(f) \/ OpenPage(f) \/ StartResume(f)
           \/ \E mode \in {"use", "retry", "resume"} : StartReconciling(f, mode)
  BY <1>1, LoadKind, TypeOfLoad
<1> QED BY <1>1, TypeOfIssue, TypeOfReset, TypeOfArm DEF Start

LEMMA TypeOfContinue ==
  ASSUME TypeInv, NEW f \in Flows, Continue(f)
  PROVE  TypeInv'
<1>1. ASSUME Reconcile(f) \/ HandleResult(f) \/ Poll(f)
      PROVE  TypeInv'
  <2>1. (\E rec, s : Save(f, rec, s)) \/ (Rest(f, Idle) /\ UNCHANGED <<wire, ledger>>)
    BY <1>1, ReconcileKind, ResultKind, PollKind
  <2>2. flow[f].pc # "sent"
    BY <1>1 DEF Reconcile, HandleResult, Poll
  <2>3. ASSUME Rest(f, Idle), UNCHANGED <<wire, ledger>>
        PROVE  TypeInv'
    BY <2>2, <2>3, WireUntouched, TypeOfRest DEF Rest
  <2> QED BY <2>1, <2>3, TypeOfSave
<1>2. CASE HandleLoss(f) \/ HandleRefusal(f) \/ Refresh(f) \/ RefreshFails(f)
  BY <1>2, LossKind, RefreshKind, TypeOfSave
<1>3. CASE Send(f)
  BY <1>3, SendKind, TypeOfRest DEF Send, server
<1>4. CASE HandleExpiry(f)
  BY <1>4, ExpiryKind, WireUntouched, TypeOfRest DEF Rest
<1> QED
  BY <1>1, <1>2, <1>3, <1>4, TypeOfPrepare, TypeOfRelease, TypeOfIssue, TypeOfReset,
     TypeOfArm DEF Continue

LEMMA TypeOfVerifier ==
  ASSUME TypeInv, Verifier
  PROVE  TypeInv'
<1>1. ASSUME NEW m \in wire,
             LookUp(m) \/ CheckChallenge(m) \/ Reject(m) \/ Refuse(m) \/ Drop(m)
      PROVE  TypeInv'
  BY <1>1, VerifierKind, TypeOfVerifies DEF TypeInv, ServerOK
<1>2. ASSUME NEW m \in wire, Accept(m)
      PROVE  TypeInv'
  <2>1. ledger' \in [Ops -> Uses]
    BY <1>2, AcceptKind DEF TypeInv, ServerOK
  <2> QED BY <1>2, <2>1, AcceptKind, TypeOfVerifies
<1> QED BY <1>1, <1>2, TypeOfSettle, TypeOfExpire DEF Verifier

LEMMA TypeStep == TypeInv /\ [Next]_vars => TypeInv'
<1> SUFFICES ASSUME TypeInv, [Next]_vars PROVE TypeInv'
  OBVIOUS
<1>1. CASE UNCHANGED vars
  BY <1>1 DEF vars, TypeInv, StoreOK, FlowOK, WireOK, RunsOK, ServerOK
<1>2. ASSUME NEW f \in Flows, Close(f) \/ GiveUp(f)
      PROVE  TypeInv'
  BY <1>2, LeaveKind, TypeOfRest
<1> QED BY <1>1, <1>2, TypeOfStart, TypeOfContinue, TypeOfVerifier DEF Next

\* Every variable keeps its type: whatever a flow saves or sends is a whole record
\* of a credential, a slot it has and a challenge (wallet-db.ts).
THEOREM TypeCorrect == Spec => []TypeOK
<1>1. TypeInv => TypeOK
  BY DEF TypeInv, StoreOK, FlowOK, WireOK, RunsOK, ServerOK, TypeOK
<1> QED BY <1>1, TypeInit, TypeStep, PTL DEF Spec

-----------------------------------------------------------------------------
(* Whose slot an operation stands for.                                     *)

Carries(c, o, n, s) == c.prepared = o /\ c.id = n /\ c.next = s
IsOf(rec, n, s) == rec.cred = n /\ rec.slot = s

\* Somebody takes operation o to be the use of slot s of credential n.
Holds(o, n, s) ==
  \/ ops[o] # NoRecord /\ IsOf(ops[o], n, s)
  \/ Carries(cred, o, n, s)
  \/ ledger[o].status # "NONE" /\ IsOf(ledger[o], n, s)
  \/ \E m \in wire : m.op = o /\ IsOf(m, n, s)
  \/ \E f \in Flows :
       \/ flow[f].pc \in WithRec /\ flow[f].op = o /\ IsOf(flow[f].rec, n, s)
       \/ flow[f].pc \in {"prepare", "arm"} /\ Carries(flow[f].cred, o, n, s)

\* An operation stands for one slot, once it is drawn.
Bound ==
  \A o \in Ops : \A n, s :
    Holds(o, n, s) => /\ o \in minted
                      /\ \A k, t : Holds(o, k, t) => k = n /\ t = s

\* What is held after a step was held before it, but for operation o.
HoldsNext(o, n, s) ==
  \/ ops'[o] # NoRecord /\ IsOf(ops'[o], n, s)
  \/ Carries(cred', o, n, s)
  \/ ledger'[o].status # "NONE" /\ IsOf(ledger'[o], n, s)
  \/ \E m \in wire' : m.op = o /\ IsOf(m, n, s)
  \/ \E f \in Flows :
       \/ flow'[f].pc \in WithRec /\ flow'[f].op = o /\ IsOf(flow'[f].rec, n, s)
       \/ flow'[f].pc \in {"prepare", "arm"} /\ Carries(flow'[f].cred, o, n, s)

NothingNew == \A o \in Ops : \A n, s : HoldsNext(o, n, s) => Holds(o, n, s)

LEMMA BoundNext ==
  ASSUME \A o \in Ops : \A n, s :
           HoldsNext(o, n, s) => /\ o \in minted'
                                 /\ \A k, t : HoldsNext(o, k, t) => k = n /\ t = s
  PROVE  Bound'
  BY DEF Bound, HoldsNext, Holds, Carries, IsOf

LEMMA BoundKept ==
  ASSUME Bound, NothingNew, UNCHANGED minted
  PROVE  Bound'
  BY BoundNext DEF Bound, NothingNew

\* An operation that is drawn, or taken up where it is bound already.
LEMMA BoundDrawn ==
  ASSUME Bound, NEW o \in Ops, NEW id, NEW slot,
         o \notin minted \/ Holds(o, id, slot),
         minted' = minted \cup {o},
         \A p \in Ops : \A n, s :
           HoldsNext(p, n, s) => Holds(p, n, s) \/ (p = o /\ n = id /\ s = slot)
  PROVE  Bound'
<1> SUFFICES ASSUME NEW p \in Ops, NEW n, NEW s, HoldsNext(p, n, s)
             PROVE  /\ p \in minted'
                    /\ \A k, t : HoldsNext(p, k, t) => k = n /\ t = s
  BY BoundNext
<1>1. CASE p = o
  BY <1>1 DEF Bound
<1>2. CASE p # o
  BY <1>2 DEF Bound
<1> QED BY <1>1, <1>2

\* One flow moves; the others hold what they held.
LEMMA OthersHold ==
  ASSUME TypeInv, NEW f \in Flows, NEW s, Moves(f, s),
         NEW o \in Ops, NEW n, NEW k,
         \E g \in Flows :
           \/ flow'[g].pc \in WithRec /\ flow'[g].op = o /\ IsOf(flow'[g].rec, n, k)
           \/ flow'[g].pc \in {"prepare", "arm"} /\ Carries(flow'[g].cred, o, n, k)
  PROVE  \/ Holds(o, n, k)
         \/ s.pc \in WithRec /\ s.op = o /\ IsOf(s.rec, n, k)
         \/ s.pc \in {"prepare", "arm"} /\ Carries(s.cred, o, n, k)
<1>1. flow'[f] = s /\ \A g \in Flows \ {f} : flow'[g] = flow[g]
  BY MovesOK DEF TypeInv
<1>2. PICK g \in Flows :
           \/ flow'[g].pc \in WithRec /\ flow'[g].op = o /\ IsOf(flow'[g].rec, n, k)
           \/ flow'[g].pc \in {"prepare", "arm"} /\ Carries(flow'[g].cred, o, n, k)
  OBVIOUS
<1>3. CASE g = f
  BY <1>1, <1>2, <1>3
<1>4. CASE g # f
  BY <1>1, <1>2, <1>4 DEF Holds
<1> QED BY <1>3, <1>4

LEMMA LoadHolds ==
  ASSUME TypeInv, NEW f \in Flows, NEW s, Load(f, s)
  PROVE  NothingNew
<1> SUFFICES ASSUME NEW o \in Ops, NEW n, NEW k, HoldsNext(o, n, k) PROVE Holds(o, n, k)
  BY DEF NothingNew
<1>1. CASE \E g \in Flows :
           \/ flow'[g].pc \in WithRec /\ flow'[g].op = o /\ IsOf(flow'[g].rec, n, k)
           \/ flow'[g].pc \in {"prepare", "arm"} /\ Carries(flow'[g].cred, o, n, k)
  <2>1. \/ Holds(o, n, k)
        \/ s.pc \in WithRec /\ s.op = o /\ IsOf(s.rec, n, k)
        \/ s.pc \in {"prepare", "arm"} /\ Carries(s.cred, o, n, k)
    BY <1>1, OthersHold DEF Load
  <2>2. CASE s.pc \in WithRec /\ s.op = o /\ IsOf(s.rec, n, k)
    BY <2>2 DEF Load, Holds
  <2>3. CASE s.pc \in {"prepare", "arm"} /\ Carries(s.cred, o, n, k)
    BY <2>3 DEF Load, Holds
  <2> QED BY <2>1, <2>2, <2>3
<1>2. UNCHANGED <<ops, cred, wire, ledger>>
  BY DEF Load, local, server
<1> QED BY <1>1, <1>2 DEF HoldsNext, Holds

LEMMA SaveHolds ==
  ASSUME TypeInv, NEW f \in Flows, NEW rec, NEW s, Save(f, rec, s)
  PROVE  NothingNew
<1> SUFFICES ASSUME NEW o \in Ops, NEW n, NEW k, HoldsNext(o, n, k) PROVE Holds(o, n, k)
  BY DEF NothingNew
<1>1. flow[f].op \in Ops /\ flow[f].pc \in WithRec /\ Real(rec)
      /\ rec.cred = flow[f].rec.cred /\ rec.slot = flow[f].rec.slot
  BY RecIsReal DEF Save
<1>2. flow[f].op = o /\ IsOf(rec, n, k) => Holds(o, n, k)
  BY <1>1 DEF Holds, IsOf
<1>3. CASE ops'[o] # NoRecord /\ IsOf(ops'[o], n, k)
  BY <1>1, <1>2, <1>3 DEF Save, TypeInv, StoreOK, Holds
<1>4. Carries(cred', o, n, k) => Holds(o, n, k)
  <2>1. CASE cred' = cred
    BY <2>1 DEF Holds
  <2>2. CASE cred # NoCred /\ cred' = Advanced(cred, rec)
    BY <1>1, <2>2, CredIsReal, AdvancedCred, ConstantsAssumption DEF Carries
  <2> QED BY <2>1, <2>2 DEF Save
<1>5. CASE \E g \in Flows :
           \/ flow'[g].pc \in WithRec /\ flow'[g].op = o /\ IsOf(flow'[g].rec, n, k)
           \/ flow'[g].pc \in {"prepare", "arm"} /\ Carries(flow'[g].cred, o, n, k)
  <2>1. \/ Holds(o, n, k)
        \/ s.pc \in WithRec /\ s.op = o /\ IsOf(s.rec, n, k)
        \/ s.pc \in {"prepare", "arm"} /\ Carries(s.cred, o, n, k)
    BY <1>5, OthersHold DEF Save
  <2>2. CASE s.pc \in WithRec /\ s.op = o /\ IsOf(s.rec, n, k)
    BY <1>1, <1>2, <2>2 DEF Save, IsOf
  <2>3. CASE s.pc \in {"prepare", "arm"} /\ Carries(s.cred, o, n, k)
    BY <1>4, <2>3 DEF Save
  <2> QED BY <2>1, <2>2, <2>3
<1>6. UNCHANGED <<wire, ledger>>
  BY DEF Save
<1> QED BY <1>3, <1>4, <1>5, <1>6 DEF HoldsNext, Holds

LEMMA RestHolds ==
  ASSUME TypeInv, NEW f \in Flows, NEW s, Rest(f, s), WireFrom, UNCHANGED ledger
  PROVE  NothingNew
<1> SUFFICES ASSUME NEW o \in Ops, NEW n, NEW k, HoldsNext(o, n, k) PROVE Holds(o, n, k)
  BY DEF NothingNew
<1>1. CASE \E g \in Flows :
           \/ flow'[g].pc \in WithRec /\ flow'[g].op = o /\ IsOf(flow'[g].rec, n, k)
           \/ flow'[g].pc \in {"prepare", "arm"} /\ Carries(flow'[g].cred, o, n, k)
  <2>1. \/ Holds(o, n, k)
        \/ s.pc \in WithRec /\ s.op = o /\ IsOf(s.rec, n, k)
        \/ s.pc \in {"prepare", "arm"} /\ Carries(s.cred, o, n, k)
    BY <1>1, OthersHold DEF Rest
  <2>2. s.pc \notin {"prepare", "arm"}
    BY DEF Rest, WithRec
  <2> QED BY <2>1, <2>2 DEF Rest, Holds
<1>2. CASE \E m \in wire' : m.op = o /\ IsOf(m, n, k)
  BY <1>2 DEF WireFrom, Holds, IsOf
<1>3. UNCHANGED <<ops, cred, ledger>>
  BY DEF Rest, local
<1> QED BY <1>1, <1>2, <1>3 DEF HoldsNext, Holds

\* A flow that ends holds nothing.
LEMMA EndHolds ==
  ASSUME TypeInv, NEW f \in Flows, NEW s, Moves(f, s),
         s.pc \notin WithRec \cup {"prepare", "arm"},
         UNCHANGED wire, NEW o \in Ops, NEW n, NEW k, HoldsNext(o, n, k)
  PROVE  \/ Holds(o, n, k)
         \/ ops'[o] # NoRecord /\ IsOf(ops'[o], n, k)
         \/ Carries(cred', o, n, k)
         \/ ledger'[o].status # "NONE" /\ IsOf(ledger'[o], n, k)
  BY OthersHold DEF HoldsNext, Holds

LEMMA VerifiesHolds ==
  ASSUME TypeInv, Verifies,
         \A o \in Ops : \/ ledger'[o] = ledger[o]
                        \/ \E m \in wire : m.op = o /\ IsOf(ledger'[o], m.cred, m.slot)
  PROVE  NothingNew
<1> SUFFICES ASSUME NEW o \in Ops, NEW n, NEW k, HoldsNext(o, n, k) PROVE Holds(o, n, k)
  BY DEF NothingNew
<1>1. CASE \E g \in Flows :
           \/ flow'[g].pc \in WithRec /\ flow'[g].op = o /\ IsOf(flow'[g].rec, n, k)
           \/ flow'[g].pc \in {"prepare", "arm"} /\ Carries(flow'[g].cred, o, n, k)
  <2>1. CASE UNCHANGED flow
    BY <1>1, <2>1 DEF Holds
  <2>2. ASSUME NEW f \in Flows, NEW s, Rest(f, s)
        PROVE  Holds(o, n, k)
    <3>1. \/ Holds(o, n, k)
          \/ s.pc \in WithRec /\ s.op = o /\ IsOf(s.rec, n, k)
          \/ s.pc \in {"prepare", "arm"} /\ Carries(s.cred, o, n, k)
      BY <1>1, <2>2, OthersHold DEF Rest
    <3>2. s.pc \notin {"prepare", "arm"}
      BY <2>2 DEF Rest, WithRec
    <3> QED BY <2>2, <3>1, <3>2 DEF Rest, Holds
  <2> QED BY <2>1, <2>2 DEF Verifies
<1>2. CASE \E m \in wire' : m.op = o /\ IsOf(m, n, k)
  BY <1>2 DEF Verifies, WireFrom, Holds, IsOf
<1>3. CASE ledger'[o].status # "NONE" /\ IsOf(ledger'[o], n, k)
  BY <1>3 DEF Holds, IsOf
<1>4. UNCHANGED <<ops, cred>>
  BY DEF Verifies, local
<1> QED BY <1>1, <1>2, <1>3, <1>4 DEF HoldsNext, Holds

LEMMA SettleHolds ==
  ASSUME TypeInv, NEW o \in Ops, NEW status \in Terminal, Settle(o, status)
  PROVE  NothingNew
<1>1. ledger' = [ledger EXCEPT ![o] = WithStatus(ledger[o], status)]
  BY DEF Settle, WithStatus
<1>2. ledger \in [Ops -> Uses] /\ ledger[o].status # "NONE"
  BY DEF Settle, TypeInv, ServerOK
<1>3. \A p \in Ops : ledger'[p].status # "NONE" =>
        /\ ledger[p].status # "NONE"
        /\ ledger'[p].cred = ledger[p].cred /\ ledger'[p].slot = ledger[p].slot
  BY <1>1, <1>2, WithStatusShape
<1>4. UNCHANGED <<ops, cred, wire, flow>>
  BY DEF Settle, local
<1> QED BY <1>3, <1>4 DEF NothingNew, HoldsNext, Holds, IsOf

LEMMA BoundOfPrepare ==
  ASSUME TypeInv, Bound, NEW f \in Flows, Prepare(f)
  PROVE  Bound'
<1> DEFINE id == flow[f].cred.id
           slot == flow[f].cred.next
           state(o) == [flow[f] EXCEPT !.pc = "send", !.op = o, !.rec = Prepared(f)]
<1>1. PICK o \in Ops :
        /\ IF flow[f].cred.prepared = NoOp THEN o \notin minted
                                           ELSE o = flow[f].cred.prepared
        /\ minted' = minted \cup {o}
        /\ Prepared(f).cred = id /\ Prepared(f).slot = slot
        /\ SaveOperation(o, Prepared(f))
        /\ Moves(f, state(o)) /\ state(o).pc = "send" /\ state(o).op = o
        /\ state(o).rec = Prepared(f)
  BY PrepareKind
<1>2. flow[f].pc = "prepare" /\ UNCHANGED <<wire, ledger>>
  BY DEF Prepare
<1> HIDE DEF state
<1>3. o \notin minted \/ Holds(o, id, slot)
  BY <1>1, <1>2 DEF Holds, Carries
<1>4. ASSUME NEW p \in Ops, NEW n, NEW k, HoldsNext(p, n, k)
      PROVE  Holds(p, n, k) \/ (p = o /\ n = id /\ k = slot)
  <2>1. CASE ops'[p] # NoRecord /\ IsOf(ops'[p], n, k)
    BY <1>1, <2>1 DEF SaveOperation, TypeInv, StoreOK, Holds, IsOf
  <2>2. CASE \E g \in Flows :
               \/ flow'[g].pc \in WithRec /\ flow'[g].op = p /\ IsOf(flow'[g].rec, n, k)
               \/ flow'[g].pc \in {"prepare", "arm"} /\ Carries(flow'[g].cred, p, n, k)
    <3>1. \/ Holds(p, n, k)
          \/ state(o).pc \in WithRec /\ state(o).op = p /\ IsOf(state(o).rec, n, k)
          \/ state(o).pc \in {"prepare", "arm"} /\ Carries(state(o).cred, p, n, k)
      BY <1>1, <2>2, OthersHold
    <3> QED BY <1>1, <3>1 DEF IsOf
  <2>3. UNCHANGED <<cred, wire, ledger>>
    BY <1>1, <1>2 DEF SaveOperation
  <2> QED BY <1>4, <2>1, <2>2, <2>3 DEF HoldsNext, Holds
<1> QED BY <1>1, <1>3, <1>4, BoundDrawn

LEMMA BoundOfArm ==
  ASSUME TypeInv, Bound, NEW f \in Flows, StartArm(f)
  PROVE  Bound'
<1>1. PICK o \in Ops :
           /\ IF cred.prepared = NoOp THEN o \notin minted ELSE o = cred.prepared
           /\ minted' = minted \cup {o}
           /\ Moves(f, ArmedState(o))
           /\ cred # NoCred
           /\ UNCHANGED <<local, wire, server>>
  BY StartArmKind
<1>2. /\ ArmedState(o).pc = "arm" /\ ArmedState(o).pc \notin WithRec
      /\ ArmedState(o).cred.id = cred.id
      /\ ArmedState(o).cred.next = cred.next /\ ArmedState(o).cred.prepared = o
  BY <1>1, CredIsReal, ArmedShape DEF WithRec
<1>3. o \notin minted \/ Holds(o, cred.id, cred.next)
  BY <1>1 DEF Holds, Carries
<1>4. ASSUME NEW p \in Ops, NEW n, NEW k, HoldsNext(p, n, k)
      PROVE  Holds(p, n, k) \/ (p = o /\ n = cred.id /\ k = cred.next)
  <2>1. CASE \E g \in Flows :
               \/ flow'[g].pc \in WithRec /\ flow'[g].op = p /\ IsOf(flow'[g].rec, n, k)
               \/ flow'[g].pc \in {"prepare", "arm"} /\ Carries(flow'[g].cred, p, n, k)
    BY <1>1, <1>2, <2>1, OthersHold DEF Carries
  <2>2. UNCHANGED <<ops, cred, wire, ledger>>
    BY <1>1 DEF local, server
  <2> QED BY <1>4, <2>1, <2>2 DEF HoldsNext, Holds
<1> QED BY <1>1, <1>3, <1>4, BoundDrawn

\* The other steps of a flow hold no more than was held.
LEMMA RestingHolds ==
  ASSUME TypeInv, NEW f \in Flows,
         \/ StartIssue(f) \/ SaveIssued(f) \/ StartReset(f) \/ ClearWallet(f)
         \/ SaveArmed(f) \/ Release(f)
  PROVE  NothingNew /\ UNCHANGED minted
<1> SUFFICES ASSUME NEW o \in Ops, NEW n, NEW k, HoldsNext(o, n, k) PROVE Holds(o, n, k)
  BY DEF NothingNew, StartIssue, SaveIssued, StartReset, ClearWallet, SaveArmed, Release
<1>1. \E s : Moves(f, s) /\ s.pc \notin WithRec \cup {"prepare", "arm"}
  <2>1. CASE StartIssue(f)
    BY <2>1, StartIssueKind, IssuedShape DEF WithRec
  <2>2. CASE StartReset(f)
    <3>1. PICK s \in {Idle, Cleared} : flow' = [flow EXCEPT ![f] = s]
      BY <2>2 DEF StartReset, Go, Cleared
    <3>2. Moves(f, s)
      BY <3>1, Constants, ClearedShape DEF Moves
    <3> QED BY <3>2, Constants, ClearedShape DEF WithRec
  <2>3. CASE SaveIssued(f) \/ ClearWallet(f) \/ SaveArmed(f) \/ Release(f)
    BY <2>3, EndShape DEF SaveIssued, ClearWallet, SaveArmed, Release
  <2> QED BY <2>1, <2>2, <2>3
<1>2. UNCHANGED wire
  BY DEF StartIssue, SaveIssued, StartReset, ClearWallet, SaveArmed, Release
<1>3. ops'[o] # NoRecord => ops'[o] = ops[o]
  BY DEF StartIssue, SaveIssued, StartReset, ClearWallet, SaveArmed, Release, local
<1>4. ledger'[o].status # "NONE" => ledger'[o] = ledger[o]
  BY Constants DEF StartIssue, SaveIssued, StartReset, ClearWallet, SaveArmed, Release, server
<1>5. Carries(cred', o, n, k) => Holds(o, n, k)
  <2>1. CASE UNCHANGED cred
    BY <2>1 DEF Holds
  <2>2. CASE cred'.prepared = NoOp
    BY <2>2, ConstantsAssumption DEF Carries
  <2>3. CASE flow[f].pc = "arm" /\ cred' = flow[f].cred
    BY <2>3 DEF Holds
  <2>4. CASE SaveIssued(f)
    <3>1. flow[f].cred.prepared = NoOp
      BY <2>4 DEF SaveIssued, TypeInv, FlowOK, FlowShape
    <3> QED BY <2>1, <2>2, <2>4, <3>1 DEF SaveIssued
  <2>5. CASE Release(f)
    BY <2>1, <2>2, <2>5, ReleaseKind
  <2> QED
    BY <2>1, <2>2, <2>3, <2>4, <2>5, Constants
    DEF StartIssue, StartReset, ClearWallet, SaveArmed, local
<1> QED BY <1>1, <1>2, <1>3, <1>4, <1>5, EndHolds DEF Holds

LEMMA BoundInit == Init => Bound
  BY Constants, ConstantsAssumption DEF Init, Bound, Holds, Carries, Idle, WithRec

LEMMA BoundStep == TypeInv /\ Bound /\ [Next]_vars => Bound'
<1> SUFFICES ASSUME TypeInv, Bound, [Next]_vars PROVE Bound'
  OBVIOUS
<1>1. CASE UNCHANGED vars
  BY <1>1, BoundKept DEF vars, NothingNew, HoldsNext, Holds
<1>2. ASSUME NEW f \in Flows, NEW rec, NEW s, Save(f, rec, s)
      PROVE  Bound'
  BY <1>2, SaveHolds, BoundKept DEF Save
<1>3. ASSUME NEW f \in Flows, NEW s, Rest(f, s), WireFrom, UNCHANGED ledger
      PROVE  Bound'
  BY <1>3, RestHolds, BoundKept DEF Rest
<1>4. ASSUME NEW f \in Flows, Start(f)
      PROVE  Bound'
  <2>1. CASE \/ StartUse(f) \/ StartRetry(f) \/ OpenPage(f) \/ StartResume(f)
             \/ \E mode \in {"use", "retry", "resume"} : StartReconciling(f, mode)
    BY <2>1, LoadKind, LoadHolds, BoundKept DEF Load
  <2> QED BY <1>4, <2>1, RestingHolds, BoundKept, BoundOfArm DEF Start
<1>5. ASSUME NEW f \in Flows, Continue(f)
      PROVE  Bound'
  <2>1. ASSUME Rest(f, Idle), UNCHANGED <<wire, ledger>>
        PROVE  Bound'
    BY <1>3, <2>1 DEF WireFrom
  <2>2. CASE Reconcile(f) \/ HandleResult(f) \/ Poll(f)
    BY <1>2, <2>1, <2>2, ReconcileKind, ResultKind, PollKind
  <2>3. CASE HandleLoss(f) \/ HandleRefusal(f) \/ Refresh(f) \/ RefreshFails(f)
    BY <1>2, <2>3, LossKind, RefreshKind
  <2>4. CASE Send(f)
    BY <1>3, <2>4, SendKind DEF Send, server
  <2>5. CASE HandleExpiry(f)
    BY <1>3, <2>5, ExpiryKind DEF WireFrom
  <2> QED
    BY <1>5, <2>2, <2>3, <2>4, <2>5, BoundOfPrepare, RestingHolds, BoundKept DEF Continue
<1>6. ASSUME NEW f \in Flows, Close(f) \/ GiveUp(f)
      PROVE  Bound'
  BY <1>3, <1>6, LeaveKind
<1>7. CASE Verifier
  <2>1. ASSUME NEW m \in wire,
               LookUp(m) \/ CheckChallenge(m) \/ Reject(m) \/ Refuse(m) \/ Drop(m)
        PROVE  Bound'
    BY <2>1, VerifierKind, VerifiesHolds, BoundKept DEF Verifies
  <2>2. ASSUME NEW m \in wire, Accept(m)
        PROVE  Bound'
    <3>1. \A o \in Ops : \/ ledger'[o] = ledger[o]
                         \/ \E j \in wire : j.op = o /\ IsOf(ledger'[o], j.cred, j.slot)
      <4>1. /\ m.op \in Ops /\ ledger' = [ledger EXCEPT ![m.op] = UseOf(m)]
            /\ ledger \in [Ops -> Uses]
        BY <2>2, AcceptKind DEF TypeInv, ServerOK
      <4>2. UseOf(m).cred = m.cred /\ UseOf(m).slot = m.slot
        BY DEF UseOf
      <4> QED BY <4>1, <4>2 DEF IsOf
    <3> QED BY <2>2, <3>1, AcceptKind, VerifiesHolds, BoundKept DEF Verifies
  <2>3. ASSUME NEW o \in Ops, NEW status \in Terminal, Settle(o, status)
        PROVE  Bound'
    BY <2>3, SettleHolds, BoundKept DEF Settle
  <2>4. ASSUME NEW c \in DOMAIN challenges, Expire(c)
        PROVE  Bound'
    BY <2>4, BoundKept DEF Expire, NothingNew, HoldsNext, Holds, local
  <2> QED BY <1>7, <2>1, <2>2, <2>3, <2>4 DEF Verifier
<1> QED BY <1>1, <1>4, <1>5, <1>6, <1>7 DEF Next

-----------------------------------------------------------------------------
(* What the copies say is true of the run they belong to.                  *)

\* A use of slot t of credential n is settled.
Spent(n, t) ==
  \E o \in Ops : ledger[o].status \in Terminal /\ ledger[o].cred = n /\ ledger[o].slot = t

\* Credential n is issued and, if its run is active, its slots below s are spent.
SlotsBelow(n, s) ==
  runOf[n] # 0 /\ (runOf[n] = run => \A t \in 0..(s - 1) : Spent(n, t))

\* If the run of credential n is active, r is the result of operation o.
ResultOf(o, n, r) == r # "NONE" /\ runOf[n] = run => ledger[o].status = r

RecTrue(o, rec) == SlotsBelow(rec.cred, rec.slot) /\ ResultOf(o, rec.cred, rec.result)

FlowTrue(s) ==
  /\ s.pc \in WithRec => RecTrue(s.op, s.rec)
  /\ s.pc = "answered" /\ s.answer \in Terminal => ResultOf(s.op, s.rec.cred, s.answer)
  /\ s.pc \in {"prepare", "arm", "issue"} => SlotsBelow(s.cred.id, s.cred.next)

CopiesTrue ==
  /\ cred # NoCred => SlotsBelow(cred.id, cred.next)
  /\ \A o \in Ops : ops[o] # NoRecord => RecTrue(o, ops[o])
  /\ \A f \in Flows : FlowTrue(flow[f])

\* The same of the ledger and the runs after a step.
SlotsBelowNext(n, s) ==
  /\ runOf'[n] # 0
  /\ runOf'[n] = run' => \A t \in 0..(s - 1) : \E o \in Ops :
       ledger'[o].status \in Terminal /\ ledger'[o].cred = n /\ ledger'[o].slot = t
ResultOfNext(o, n, r) == r # "NONE" /\ runOf'[n] = run' => ledger'[o].status = r

\* A settled use stays, and a credential keeps its run, unless the run is replaced.
Lasts ==
  \/ /\ run' = run
     /\ \A n \in 1..MaxIssued : runOf[n] # 0 => runOf'[n] = runOf[n]
     /\ \A o \in Ops : ledger[o].status \in Terminal => ledger'[o] = ledger[o]
  \/ run' = run + 1 /\ runOf' = runOf

LEMMA TrueLasts ==
  ASSUME TypeInv, Lasts
  PROVE  /\ \A n \in 1..MaxIssued : \A s : SlotsBelow(n, s) => SlotsBelowNext(n, s)
         /\ \A o \in Ops : \A n \in 1..MaxIssued : \A r \in Terminal \cup {"NONE"} :
              runOf[n] # 0 /\ ResultOf(o, n, r) => ResultOfNext(o, n, r)
<1>1. CASE run' = run + 1 /\ runOf' = runOf
  <2>1. \A n \in 1..MaxIssued : runOf'[n] # run'
    BY <1>1, ConstantsAssumption DEF TypeInv, RunsOK
  <2> QED BY <1>1, <2>1 DEF SlotsBelow, SlotsBelowNext, ResultOfNext
<1>2. CASE /\ run' = run
           /\ \A n \in 1..MaxIssued : runOf[n] # 0 => runOf'[n] = runOf[n]
           /\ \A o \in Ops : ledger[o].status \in Terminal => ledger'[o] = ledger[o]
  <2>1. ASSUME NEW n \in 1..MaxIssued, NEW s, SlotsBelow(n, s)
        PROVE  SlotsBelowNext(n, s)
    BY <1>2, <2>1 DEF SlotsBelow, Spent, SlotsBelowNext
  <2>2. ASSUME NEW o \in Ops, NEW n \in 1..MaxIssued, NEW r \in Terminal \cup {"NONE"},
               runOf[n] # 0, ResultOf(o, n, r)
        PROVE  ResultOfNext(o, n, r)
    BY <1>2, <2>2 DEF ResultOf, ResultOfNext
  <2> QED BY <2>1, <2>2
<1> QED BY <1>1, <1>2 DEF Lasts

LEMMA RealFields ==
  ASSUME NEW rec, Real(rec)
  PROVE  rec.cred \in 1..MaxIssued /\ rec.result \in Terminal \cup {"NONE"}
  BY ConstantsAssumption DEF Real, Records

LEMMA CredFields ==
  ASSUME NEW c \in Creds, c.id # 0
  PROVE  c.id \in 1..MaxIssued
  BY ConstantsAssumption DEF Creds

\* The copies of the next state are true if they were before what the verifier
\* did in the step.
LEMMA CopiesLast ==
  ASSUME TypeInv, TypeInv', Lasts,
         cred' # NoCred => SlotsBelow(cred'.id, cred'.next),
         \A o \in Ops : ops'[o] # NoRecord => RecTrue(o, ops'[o]),
         \A f \in Flows : FlowTrue(flow'[f])
  PROVE  CopiesTrue'
<1>1. /\ \A n \in 1..MaxIssued : \A s : SlotsBelow(n, s) => SlotsBelowNext(n, s)
      /\ \A o \in Ops : \A n \in 1..MaxIssued : \A r \in Terminal \cup {"NONE"} :
           runOf[n] # 0 /\ ResultOf(o, n, r) => ResultOfNext(o, n, r)
  BY TrueLasts
<1>2. cred' # NoCred => SlotsBelowNext(cred'.id, cred'.next)
  <2>1. cred' # NoCred => cred'.id \in 1..MaxIssued
    BY CredFields DEF TypeInv, StoreOK
  <2> QED BY <1>1, <2>1
<1>3. ASSUME NEW o \in Ops, NEW rec, Real(rec), RecTrue(o, rec)
      PROVE  SlotsBelowNext(rec.cred, rec.slot) /\ ResultOfNext(o, rec.cred, rec.result)
  BY <1>1, <1>3, RealFields DEF RecTrue, SlotsBelow
<1>4. \A o \in Ops : ops'[o] # NoRecord =>
        /\ SlotsBelowNext(ops'[o].cred, ops'[o].slot)
        /\ ResultOfNext(o, ops'[o].cred, ops'[o].result)
  BY <1>3 DEF TypeInv, StoreOK
<1>5. ASSUME NEW f \in Flows
      PROVE  /\ flow'[f].pc \in WithRec =>
                  /\ SlotsBelowNext(flow'[f].rec.cred, flow'[f].rec.slot)
                  /\ ResultOfNext(flow'[f].op, flow'[f].rec.cred, flow'[f].rec.result)
             /\ flow'[f].pc = "answered" /\ flow'[f].answer \in Terminal =>
                  ResultOfNext(flow'[f].op, flow'[f].rec.cred, flow'[f].answer)
             /\ flow'[f].pc \in {"prepare", "arm", "issue"} =>
                  SlotsBelowNext(flow'[f].cred.id, flow'[f].cred.next)
  <2>1. flow'[f].pc \in WithRec => flow'[f].op \in Ops /\ Real(flow'[f].rec)
    BY DEF TypeInv, FlowOK, FlowShape
  <2>2. flow'[f].pc \in {"prepare", "arm", "issue"} => flow'[f].cred.id \in 1..MaxIssued
    BY CredFields DEF TypeInv, FlowOK, FlowShape, FlowStates
  <2>3. FlowTrue(flow'[f])
    OBVIOUS
  <2>4. flow'[f].pc \in WithRec =>
                  /\ SlotsBelowNext(flow'[f].rec.cred, flow'[f].rec.slot)
                  /\ ResultOfNext(flow'[f].op, flow'[f].rec.cred, flow'[f].rec.result)
    BY <1>3, <2>1, <2>3 DEF FlowTrue
  <2>5. flow'[f].pc = "answered" /\ flow'[f].answer \in Terminal =>
                  ResultOfNext(flow'[f].op, flow'[f].rec.cred, flow'[f].answer)
    <3>1. flow'[f].pc = "answered" => flow'[f].pc \in WithRec
      BY DEF WithRec
    <3> QED BY <1>1, <2>1, <2>3, <3>1, RealFields DEF FlowTrue, RecTrue, SlotsBelow
  <2>6. flow'[f].pc \in {"prepare", "arm", "issue"} =>
                  SlotsBelowNext(flow'[f].cred.id, flow'[f].cred.next)
    BY <1>1, <2>2, <2>3 DEF FlowTrue
  <2> QED BY <2>4, <2>5, <2>6
<1> QED
  BY <1>2, <1>4, <1>5
  DEF CopiesTrue, FlowTrue, RecTrue, SlotsBelow, Spent, ResultOf, SlotsBelowNext, ResultOfNext

\* Most steps change neither the runs nor the ledger.
LEMMA QuietLasts == UNCHANGED <<run, runOf, ledger>> => Lasts
  BY DEF Lasts

LEMMA OthersTrue ==
  ASSUME TypeInv, CopiesTrue, NEW f \in Flows, NEW s, Moves(f, s), FlowTrue(s)
  PROVE  \A g \in Flows : FlowTrue(flow'[g])
  BY MovesOK DEF TypeInv, CopiesTrue

LEMMA IdleTrue ==
  ASSUME NEW s, s.pc \in {"idle", "clear"}
  PROVE  FlowTrue(s)
  BY DEF FlowTrue, WithRec

LEMMA TrueOfLoad ==
  ASSUME TypeInv, TypeInv', CopiesTrue, NEW f \in Flows, NEW s, Load(f, s)
  PROVE  CopiesTrue'
<1>1. FlowTrue(s)
  <2>1. s.pc \in WithRec => RecTrue(s.op, s.rec)
    BY DEF Load, Moves, FlowShape, CopiesTrue
  <2>2. s.pc \notin {"answered", "arm", "issue"}
    BY DEF Load
  <2>3. s.pc = "prepare" => SlotsBelow(s.cred.id, s.cred.next)
    BY DEF Load, CopiesTrue
  <2> QED BY <2>1, <2>2, <2>3 DEF FlowTrue
<1>2. \A g \in Flows : FlowTrue(flow'[g])
  BY <1>1, OthersTrue DEF Load
<1> QED BY <1>2, CopiesLast, QuietLasts DEF Load, local, server, CopiesTrue

LEMMA TrueOfSave ==
  ASSUME TypeInv, TypeInv', Bound, CopiesTrue, NEW f \in Flows, NEW rec, NEW s, Save(f, rec, s)
  PROVE  CopiesTrue'
<1> DEFINE own == flow[f]
<1>1. /\ own.op \in Ops /\ Real(own.rec) /\ own.pc \in WithRec
      /\ RecTrue(own.op, own.rec) /\ Real(rec)
      /\ rec.cred = own.rec.cred /\ rec.slot = own.rec.slot
  BY RecIsReal DEF Save, CopiesTrue, FlowTrue
<1>2. ResultOf(own.op, rec.cred, rec.result)
  BY <1>1 DEF Save, ResultOf, RecTrue, CopiesTrue, FlowTrue
<1>3. RecTrue(own.op, rec)
  BY <1>1, <1>2 DEF RecTrue
<1>4. \A o \in Ops : ops'[o] # NoRecord => RecTrue(o, ops'[o])
  BY <1>1, <1>3 DEF Save, CopiesTrue, TypeInv, StoreOK
<1>5. cred' # NoCred => SlotsBelow(cred'.id, cred'.next)
  <2>1. CASE cred' = cred
    BY <2>1 DEF CopiesTrue
  <2>2. CASE /\ cred # NoCred /\ cred.id = rec.cred /\ rec.result \in Terminal
             /\ cred' = Advanced(cred, rec)
    <3>1. /\ cred'.id = rec.cred
          /\ cred'.next = IF cred.next > rec.slot THEN cred.next ELSE rec.slot + 1
      BY <1>1, <2>2, CredIsReal, AdvancedCred
    <3>2. SlotsBelow(rec.cred, cred.next) /\ SlotsBelow(rec.cred, rec.slot)
      BY <1>3, <2>2 DEF CopiesTrue, RecTrue
    <3>3. runOf[rec.cred] = run => Spent(rec.cred, rec.slot)
      <4> SUFFICES ASSUME runOf[rec.cred] = run PROVE Spent(rec.cred, rec.slot)
        OBVIOUS
      <4>1. ledger[own.op].status = rec.result /\ ledger[own.op].status # "NONE"
        BY <1>2, <2>2 DEF ResultOf, Terminal
      <4>2. Holds(own.op, rec.cred, rec.slot)
        BY <1>1 DEF Holds, IsOf
      <4>3. Holds(own.op, ledger[own.op].cred, ledger[own.op].slot)
        BY <4>1 DEF Holds, IsOf
      <4>4. ledger[own.op].cred = rec.cred /\ ledger[own.op].slot = rec.slot
        BY <1>1, <4>2, <4>3 DEF Bound
      <4> QED BY <1>1, <2>2, <4>1, <4>4 DEF Spent
    <3>4. rec.slot \in Nat /\ cred.next \in Nat
      BY <1>1, <2>2, CredIsReal, ConstantsAssumption DEF Real, Records, Creds
    <3> QED BY <3>1, <3>2, <3>3, <3>4 DEF SlotsBelow
  <2> QED BY <2>1, <2>2 DEF Save
<1>6. FlowTrue(s)
  <2>1. s.pc = "answered" => FALSE
    BY DEF Save
  <2>2. s.pc \in WithRec => RecTrue(s.op, s.rec)
    BY <1>1, <1>3 DEF Save
  <2>3. s.pc \in {"prepare", "arm", "issue"} => SlotsBelow(s.cred.id, s.cred.next)
    BY <1>5 DEF Save
  <2> QED BY <2>1, <2>2, <2>3 DEF FlowTrue
<1>7. \A g \in Flows : FlowTrue(flow'[g])
  BY <1>6, OthersTrue DEF Save
<1> QED BY <1>4, <1>5, <1>7, CopiesLast, QuietLasts DEF Save

LEMMA RestTrue ==
  ASSUME TypeInv, CopiesTrue, NEW f \in Flows, NEW s, Rest(f, s)
  PROVE  \A g \in Flows : FlowTrue(flow'[g])
<1>1. s.pc \in WithRec => RecTrue(s.op, s.rec)
  BY DEF Rest, CopiesTrue, FlowTrue
<1>2. s.pc = "answered" /\ s.answer \in Terminal => ResultOf(s.op, s.rec.cred, s.answer)
  BY DEF Rest, ResultOf
<1>3. s.pc \notin {"prepare", "arm", "issue"}
  BY DEF Rest, WithRec
<1> QED BY <1>1, <1>2, <1>3, OthersTrue DEF FlowTrue, Rest

LEMMA TrueOfRest ==
  ASSUME TypeInv, TypeInv', CopiesTrue, NEW f \in Flows, NEW s, Rest(f, s), UNCHANGED ledger
  PROVE  CopiesTrue'
  BY RestTrue, CopiesLast, QuietLasts DEF Rest, local, CopiesTrue

LEMMA TrueOfVerifies ==
  ASSUME TypeInv, TypeInv', CopiesTrue, Verifies, Lasts
  PROVE  CopiesTrue'
<1>1. \A g \in Flows : FlowTrue(flow'[g])
  BY RestTrue DEF Verifies, CopiesTrue
<1> QED BY <1>1, CopiesLast DEF Verifies, local, CopiesTrue

LEMMA TrueOfPrepare ==
  ASSUME TypeInv, TypeInv', CopiesTrue, NEW f \in Flows, Prepare(f)
  PROVE  CopiesTrue'
<1> DEFINE state(o) == [flow[f] EXCEPT !.pc = "send", !.op = o, !.rec = Prepared(f)]
<1>1. PICK o \in Ops :
        /\ Prepared(f).cred = flow[f].cred.id /\ Prepared(f).slot = flow[f].cred.next
        /\ Prepared(f).result = "NONE"
        /\ SaveOperation(o, Prepared(f))
        /\ Moves(f, state(o)) /\ state(o).pc = "send" /\ state(o).op = o
        /\ state(o).rec = Prepared(f)
  BY PrepareKind
<1> HIDE DEF state
<1>2. RecTrue(o, Prepared(f))
  BY <1>1 DEF Prepare, CopiesTrue, FlowTrue, RecTrue, ResultOf
<1>3. FlowTrue(state(o))
  BY <1>1, <1>2 DEF FlowTrue
<1>4. \A g \in Flows : FlowTrue(flow'[g])
  BY <1>1, <1>3, OthersTrue
<1>5. \A p \in Ops : ops'[p] # NoRecord => RecTrue(p, ops'[p])
  BY <1>1, <1>2 DEF SaveOperation, CopiesTrue, TypeInv, StoreOK
<1>6. UNCHANGED <<cred, run, runOf, ledger>>
  BY <1>1 DEF SaveOperation, Prepare
<1> QED BY <1>4, <1>5, <1>6, CopiesLast, QuietLasts DEF CopiesTrue

LEMMA TrueOfArm ==
  ASSUME TypeInv, TypeInv', CopiesTrue, NEW f \in Flows, StartArm(f)
  PROVE  CopiesTrue'
<1>1. PICK o \in Ops : Moves(f, ArmedState(o)) /\ cred # NoCred /\ UNCHANGED <<local, server>>
  BY StartArmKind
<1>2. /\ ArmedState(o).pc = "arm" /\ ArmedState(o).cred.id = cred.id
      /\ ArmedState(o).cred.next = cred.next
  BY <1>1, CredIsReal, ArmedShape
<1>3. FlowTrue(ArmedState(o))
  BY <1>1, <1>2 DEF FlowTrue, CopiesTrue, WithRec
<1>4. \A g \in Flows : FlowTrue(flow'[g])
  BY <1>1, <1>3, OthersTrue
<1> QED BY <1>1, <1>4, CopiesLast, QuietLasts DEF CopiesTrue, local, server

\* A new credential: no copy of it can be wrong.
LEMMA TrueOfIssue ==
  ASSUME TypeInv, TypeInv', CopiesTrue, NEW f \in Flows, StartIssue(f)
  PROVE  CopiesTrue'
<1>1. PICK n \in 1..MaxIssued :
           /\ runOf[n] = 0 /\ runOf' = [runOf EXCEPT ![n] = run]
           /\ Moves(f, IssuedState(n))
           /\ UNCHANGED <<local, run, ledger>>
  BY StartIssueKind
<1>2. Lasts
  BY <1>1 DEF Lasts, TypeInv, RunsOK
<1>3. /\ \A k \in 1..MaxIssued : \A s : SlotsBelow(k, s) => SlotsBelowNext(k, s)
      /\ \A o \in Ops : \A k \in 1..MaxIssued : \A r \in Terminal \cup {"NONE"} :
           runOf[k] # 0 /\ ResultOf(o, k, r) => ResultOfNext(o, k, r)
  BY <1>2, TrueLasts
<1>4. SlotsBelowNext(n, 0)
  BY <1>1, ConstantsAssumption DEF SlotsBelowNext, TypeInv, RunsOK
<1>5. cred' # NoCred => SlotsBelowNext(cred'.id, cred'.next)
  <2>1. cred # NoCred => cred.id \in 1..MaxIssued
    BY CredFields DEF TypeInv, StoreOK
  <2> QED BY <1>1, <1>3, <2>1 DEF CopiesTrue, local
<1>6. ASSUME NEW o \in Ops, NEW rec, Real(rec), RecTrue(o, rec)
      PROVE  SlotsBelowNext(rec.cred, rec.slot) /\ ResultOfNext(o, rec.cred, rec.result)
  BY <1>3, <1>6, RealFields DEF RecTrue, SlotsBelow
<1>7. \A o \in Ops : ops'[o] # NoRecord =>
        /\ SlotsBelowNext(ops'[o].cred, ops'[o].slot)
        /\ ResultOfNext(o, ops'[o].cred, ops'[o].result)
  BY <1>1, <1>6 DEF TypeInv, StoreOK, CopiesTrue, local
<1> DEFINE TrueNext(s) ==
             /\ s.pc \in WithRec => /\ SlotsBelowNext(s.rec.cred, s.rec.slot)
                                    /\ ResultOfNext(s.op, s.rec.cred, s.rec.result)
             /\ s.pc = "answered" /\ s.answer \in Terminal =>
                  ResultOfNext(s.op, s.rec.cred, s.answer)
             /\ s.pc \in {"prepare", "arm", "issue"} => SlotsBelowNext(s.cred.id, s.cred.next)
<1>8. TrueNext(IssuedState(n))
  BY <1>4, IssuedShape DEF WithRec
<1>9. ASSUME NEW g \in Flows \ {f}
      PROVE  TrueNext(flow[g])
  <2>1. flow[g].pc \in WithRec => flow[g].op \in Ops /\ Real(flow[g].rec)
    BY DEF TypeInv, FlowOK, FlowShape
  <2>2. flow[g].pc \in {"prepare", "arm", "issue"} => flow[g].cred.id \in 1..MaxIssued
    BY CredFields DEF TypeInv, FlowOK, FlowShape, FlowStates
  <2>3. flow[g].pc = "answered" => flow[g].pc \in WithRec
    BY DEF WithRec
  <2>4. FlowTrue(flow[g])
    BY DEF CopiesTrue
  <2>5. flow[g].pc = "answered" /\ flow[g].answer \in Terminal =>
          ResultOfNext(flow[g].op, flow[g].rec.cred, flow[g].answer)
    BY <1>3, <2>1, <2>3, <2>4, RealFields DEF FlowTrue, RecTrue, SlotsBelow
  <2> QED BY <1>3, <1>6, <2>1, <2>2, <2>4, <2>5 DEF FlowTrue
<1> HIDE DEF TrueNext
<1>10. \A g \in Flows : TrueNext(flow'[g])
  BY <1>1, <1>8, <1>9, MovesOK DEF TypeInv
<1> QED
  BY <1>5, <1>7, <1>10
  DEF TrueNext, CopiesTrue, FlowTrue, RecTrue, SlotsBelow, Spent, ResultOf, SlotsBelowNext,
      ResultOfNext

\* The steps that end a flow without saving its record.
LEMMA TrueOfEnd ==
  ASSUME TypeInv, TypeInv', CopiesTrue, NEW f \in Flows,
         SaveIssued(f) \/ StartReset(f) \/ ClearWallet(f) \/ SaveArmed(f) \/ Release(f)
  PROVE  CopiesTrue'
<1>1. \E s : Moves(f, s) /\ s.pc \in {"idle", "clear"}
  <2>1. CASE StartReset(f)
    <3>1. PICK s \in {Idle, Cleared} : flow' = [flow EXCEPT ![f] = s]
      BY <2>1 DEF StartReset, Go, Cleared
    <3>2. Moves(f, s)
      BY <3>1, Constants, ClearedShape DEF Moves
    <3> QED BY <3>2, Constants, ClearedShape
  <2>2. CASE SaveIssued(f) \/ ClearWallet(f) \/ SaveArmed(f) \/ Release(f)
    BY <2>2, EndShape DEF SaveIssued, ClearWallet, SaveArmed, Release
  <2> QED BY <2>1, <2>2
<1>2. \A g \in Flows : FlowTrue(flow'[g])
  BY <1>1, IdleTrue, OthersTrue
<1>3. Lasts
  <2>1. CASE StartReset(f)
    BY <2>1 DEF StartReset, Lasts
  <2>2. CASE SaveIssued(f) \/ ClearWallet(f) \/ SaveArmed(f) \/ Release(f)
    BY <2>2, QuietLasts DEF SaveIssued, ClearWallet, SaveArmed, Release, server
  <2> QED BY <2>1, <2>2
<1>4. \A o \in Ops : ops'[o] # NoRecord => RecTrue(o, ops'[o])
  BY DEF SaveIssued, StartReset, ClearWallet, SaveArmed, Release, local, CopiesTrue
<1>5. cred' # NoCred => SlotsBelow(cred'.id, cred'.next)
  <2>1. CASE UNCHANGED cred \/ cred' = NoCred
    BY <2>1 DEF CopiesTrue
  <2>2. CASE flow[f].pc \in {"arm", "issue"} /\ cred' = flow[f].cred
    BY <2>2 DEF CopiesTrue, FlowTrue
  <2>3. CASE Release(f)
    BY <2>1, <2>3, ReleaseKind DEF CopiesTrue
  <2> QED
    BY <2>1, <2>2, <2>3 DEF SaveIssued, StartReset, ClearWallet, SaveArmed, local
<1> QED BY <1>2, <1>3, <1>4, <1>5, CopiesLast

LEMMA TrueInit == Init => CopiesTrue
  BY Constants DEF Init, CopiesTrue, FlowTrue, WithRec

LEMMA TrueStep == TypeInv /\ TypeInv' /\ Bound /\ CopiesTrue /\ [Next]_vars => CopiesTrue'
<1> SUFFICES ASSUME TypeInv, TypeInv', Bound, CopiesTrue, [Next]_vars PROVE CopiesTrue'
  OBVIOUS
<1>1. CASE UNCHANGED vars
  BY <1>1, CopiesLast, QuietLasts DEF vars, CopiesTrue
<1>2. ASSUME NEW f \in Flows, Start(f)
      PROVE  CopiesTrue'
  <2>1. CASE \/ StartUse(f) \/ StartRetry(f) \/ OpenPage(f) \/ StartResume(f)
             \/ \E mode \in {"use", "retry", "resume"} : StartReconciling(f, mode)
    BY <2>1, LoadKind, TrueOfLoad
  <2> QED BY <1>2, <2>1, TrueOfIssue, TrueOfEnd, TrueOfArm DEF Start
<1>3. ASSUME NEW f \in Flows, Continue(f)
      PROVE  CopiesTrue'
  <2>1. CASE Reconcile(f) \/ HandleResult(f) \/ Poll(f)
    BY <2>1, ReconcileKind, ResultKind, PollKind, TrueOfSave, TrueOfRest
  <2>2. CASE HandleLoss(f) \/ HandleRefusal(f) \/ Refresh(f) \/ RefreshFails(f)
    BY <2>2, LossKind, RefreshKind, TrueOfSave
  <2>3. CASE Send(f)
    BY <2>3, SendKind, TrueOfRest DEF Send, server
  <2>4. CASE HandleExpiry(f)
    BY <2>4, ExpiryKind, TrueOfRest
  <2> QED BY <1>3, <2>1, <2>2, <2>3, <2>4, TrueOfPrepare, TrueOfEnd DEF Continue
<1>4. ASSUME NEW f \in Flows, Close(f) \/ GiveUp(f)
      PROVE  CopiesTrue'
  BY <1>4, LeaveKind, TrueOfRest
<1>5. CASE Verifier
  <2>1. ASSUME NEW m \in wire,
               LookUp(m) \/ CheckChallenge(m) \/ Reject(m) \/ Refuse(m) \/ Drop(m)
        PROVE  CopiesTrue'
    BY <2>1, VerifierKind, TrueOfVerifies, QuietLasts DEF Verifies
  <2>2. ASSUME NEW m \in wire, Accept(m)
        PROVE  CopiesTrue'
    <3>1. Lasts
      BY <2>2, AcceptKind DEF Lasts, Verifies, Terminal, TypeInv, ServerOK
    <3> QED BY <2>2, <3>1, AcceptKind, TrueOfVerifies
  <2>3. ASSUME NEW o \in Ops, NEW status \in Terminal, Settle(o, status)
        PROVE  CopiesTrue'
    <3>1. Lasts
      BY <2>3 DEF Settle, Lasts, Terminal, TypeInv, ServerOK
    <3> QED BY <2>3, <3>1, CopiesLast DEF Settle, local, CopiesTrue
  <2>4. ASSUME NEW c \in DOMAIN challenges, Expire(c)
        PROVE  CopiesTrue'
    BY <2>4, CopiesLast, QuietLasts DEF Expire, local, CopiesTrue
  <2> QED BY <1>5, <2>1, <2>2, <2>3, <2>4 DEF Verifier
<1> QED BY <1>1, <1>2, <1>3, <1>4, <1>5 DEF Next

WalletInv == TypeInv /\ Bound /\ CopiesTrue

\* Every copy of a credential or an operation, in the stores, in a page or under way,
\* is typed, stands for one slot and says nothing that the ledger contradicts.
THEOREM WalletInvariance == Spec => []WalletInv
<1>1. Init => WalletInv
  BY TypeInit, BoundInit, TrueInit DEF WalletInv
<1>2. WalletInv /\ [Next]_vars => WalletInv'
  BY TypeStep, BoundStep, TrueStep DEF WalletInv
<1> QED BY <1>1, <1>2, PTL DEF Spec

\* The cursor has passed a slot only if its use is settled, for any number of pages
\* that work on stale copies, arm the fault, reset and clear the wallet.
THEOREM SlotsAreSpent == Spec => []PassedSlotsAreSpent
<1>1. WalletInv => PassedSlotsAreSpent
  BY DEF WalletInv, CopiesTrue, SlotsBelow, Spent, PassedSlotsAreSpent, Current
<1> QED BY <1>1, WalletInvariance, PTL

\* Of the operations that the calls of any number of pages leave unresolved side by
\* side, at most one slot is at stake: a record of a higher slot than another's was
\* made after the other's slot was spent (phase-5-safe-retry.md).
THEOREM OneSlotOpen == Spec => []OneSlotIsOpen
<1>1. WalletInv => OneSlotIsOpen
  <2> SUFFICES ASSUME WalletInv, Current, NEW o \in OpenOps, NEW p \in OpenOps,
                      ops[o].slot < ops[p].slot
               PROVE  \E q \in Ops : /\ ledger[q].cred = cred.id /\ ledger[q].slot = ops[o].slot
                                     /\ ledger[q].status \in Terminal
    BY DEF OneSlotIsOpen
  <2>1. ops[p] # NoRecord /\ ops[p].cred = cred.id
    BY Constants DEF OpenOps, Unresolved
  <2>2. SlotsBelow(cred.id, ops[p].slot) /\ runOf[cred.id] = run
    BY <2>1 DEF WalletInv, CopiesTrue, RecTrue, OpenOps, Current
  <2>3. ops[o].slot \in 0..(ops[p].slot - 1)
    BY ConstantsAssumption DEF WalletInv, TypeInv, StoreOK, OpenOps, Records
  <2> QED BY <2>2, <2>3 DEF SlotsBelow, Spent
<1> QED BY <1>1, WalletInvariance, PTL

\* A result that the wallet shows is the verifier's, whichever page saved it and
\* however late.
THEOREM ResultsMatch == Spec => []ResultsAreTrue
<1>1. WalletInv => ResultsAreTrue
  BY Constants DEF WalletInv, CopiesTrue, RecTrue, ResultOf, ResultsAreTrue, Current
<1> QED BY <1>1, WalletInvariance, PTL

-----------------------------------------------------------------------------
(* What disturbs the wallet is a page that arms the fault while another    *)
(* clears the stores: it then puts a credential back that is gone.  One    *)
(* page does not, as its reset waits for its arming and the other way      *)
(* round.                                                                  *)

Undisturbed == \A f \in Arming, g \in Resetting : Page[f] = Page[g]

Arms(s) == s.pc = "arm"
Clears(s) == s.pc = "clear"

\* A flow that arms the fault holds the active credential, and keeps its page busy.
Steady ==
  /\ \A f \in Flows : Arms(flow[f]) =>
       /\ f \in Arming /\ flow[f].mode # "resume"
       /\ cred # NoCred /\ flow[f].cred.id = cred.id
  /\ \A f \in Flows : Clears(flow[f]) => f \in Resetting /\ flow[f].mode # "resume"
  /\ \A f, g \in Flows : Arms(flow[f]) /\ Clears(flow[g]) => Page[f] # Page[g]

SameCredential == cred # NoCred => cred' # NoCred /\ cred'.id = cred.id

LEMMA SteadyMoves ==
  ASSUME TypeInv, Steady, NEW f \in Flows, NEW s, Moves(f, s), s.pc \notin {"arm", "clear"},
         SameCredential
  PROVE  Steady'
<1>1. flow'[f] = s /\ \A g \in Flows \ {f} : flow'[g] = flow[g]
  BY MovesOK DEF TypeInv
<1> QED BY <1>1 DEF Steady, SameCredential, Arms, Clears

LEMMA SteadyQuiet ==
  ASSUME Steady, UNCHANGED <<flow, cred>>
  PROVE  Steady'
  BY DEF Steady

\* A flow that saves keeps the credential, and so does one that reads or waits.
LEMMA SteadyKinds ==
  ASSUME TypeInv, Steady, NEW f \in Flows,
         \/ \E s : Load(f, s)
         \/ \E rec, s : Save(f, rec, s)
         \/ \E s : Rest(f, s)
  PROVE  Steady'
<1>1. ASSUME NEW s, Load(f, s)
      PROVE  Steady'
  BY <1>1, SteadyMoves DEF Load, local, SameCredential
<1>2. ASSUME NEW rec, NEW s, Save(f, rec, s)
      PROVE  Steady'
  <2>1. SameCredential
    <3>1. CASE cred # NoCred /\ cred' = Advanced(cred, rec)
      <4>1. Real(rec) /\ cred \in Creds /\ cred.id # 0
        BY <1>2, <3>1, CredIsReal DEF Save
      <4> QED BY <3>1, <4>1, AdvancedCred, Constants DEF SameCredential
    <3> QED BY <1>2, <3>1 DEF Save, SameCredential
  <2> QED BY <1>2, <2>1, SteadyMoves DEF Save
<1>3. ASSUME NEW s, Rest(f, s)
      PROVE  Steady'
  BY <1>3, SteadyMoves DEF Rest, local, SameCredential, WithRec
<1> QED BY <1>1, <1>2, <1>3

LEMMA SteadyOthers ==
  ASSUME Undisturbed, TypeInv, Steady, NEW f \in Flows,
         \/ Prepare(f) \/ StartIssue(f) \/ SaveIssued(f) \/ StartReset(f)
         \/ ClearWallet(f) \/ StartArm(f) \/ SaveArmed(f) \/ Release(f)
  PROVE  Steady'
<1>1. CASE Prepare(f)
  <2>1. \E s : Moves(f, s) /\ s.pc = "send"
    BY <1>1, PrepareKind
  <2> QED BY <1>1, <2>1, SteadyMoves DEF Prepare, SaveOperation, SameCredential
<1>2. CASE StartIssue(f)
  BY <1>2, StartIssueKind, IssuedShape, SteadyMoves DEF local, SameCredential
<1>3. CASE SaveIssued(f)
  BY <1>3, EndShape, SteadyMoves DEF SaveIssued, SameCredential
<1>4. CASE StartReset(f)
  <2>1. PICK s \in {Idle, Cleared} : flow' = [flow EXCEPT ![f] = s]
    BY <1>4 DEF StartReset, Go, Cleared
  <2>2. /\ ~Arms(s) /\ s.mode # "resume"
        /\ flow'[f] = s /\ \A g \in Flows \ {f} : flow'[g] = flow[g]
    BY <2>1, Constants DEF TypeInv, FlowOK, Arms, Idle, Cleared
  <2>3. \A g \in Flows \ {f} : Arms(flow[g]) => Page[g] # Page[f]
    BY <1>4 DEF StartReset, Quiet, SamePage, Steady, Arms
  <2>4. f \in Resetting /\ UNCHANGED cred
    BY <1>4 DEF StartReset, local
  <2> QED BY <2>2, <2>3, <2>4 DEF Steady
<1>5. CASE ClearWallet(f)
  <2>1. flow'[f] = Idle /\ Idle.pc = "idle" /\ \A g \in Flows \ {f} : flow'[g] = flow[g]
    BY <1>5, EndShape, MovesOK DEF ClearWallet, TypeInv
  <2>2. Clears(flow[f])
    BY <1>5 DEF ClearWallet, Clears
  <2>3. \A g \in Flows : ~Arms(flow[g])
    BY <2>2 DEF Undisturbed, Steady
  <2> QED BY <2>1, <2>2, <2>3 DEF Steady, Arms, Clears
<1>6. CASE StartArm(f)
  <2>1. PICK o \in Ops : Moves(f, ArmedState(o)) /\ cred # NoCred /\ UNCHANGED cred
    BY <1>6, StartArmKind DEF local
  <2>2. /\ ArmedState(o).pc = "arm" /\ ArmedState(o).cred.id = cred.id
        /\ ArmedState(o).mode # "resume"
        /\ flow'[f] = ArmedState(o) /\ \A g \in Flows \ {f} : flow'[g] = flow[g]
    BY <2>1, CredIsReal, ArmedShape, MovesOK DEF TypeInv, ArmedState, Idle
  <2>3. f \in Arming
    BY <1>6 DEF StartArm
  <2>4. \A g \in Flows \ {f} : Clears(flow[g]) => Page[f] # Page[g]
    BY <1>6 DEF StartArm, Quiet, SamePage, Steady, Clears
  <2> QED BY <2>1, <2>2, <2>3, <2>4 DEF Steady, Arms, Clears
<1>7. CASE SaveArmed(f)
  <2>1. SameCredential
    BY <1>7, Constants DEF SaveArmed, Steady, Arms, SameCredential, TypeInv, FlowOK, FlowShape
  <2> QED BY <1>7, <2>1, EndShape, SteadyMoves DEF SaveArmed
<1>8. CASE Release(f)
  <2>1. SameCredential
    BY <1>8, ReleaseKind, CredIsReal, Constants DEF SameCredential
  <2> QED BY <1>8, <2>1, EndShape, SteadyMoves DEF Release
<1> QED BY <1>1, <1>2, <1>3, <1>4, <1>5, <1>6, <1>7, <1>8

LEMMA SteadyInit == Init => Steady
  BY Constants DEF Init, Steady, Arms, Clears

LEMMA SteadyStep ==
  ASSUME Undisturbed, TypeInv, Steady, [Next]_vars
  PROVE  Steady'
<1>1. CASE UNCHANGED vars
  BY <1>1, SteadyQuiet DEF vars
<1>2. ASSUME NEW f \in Flows, Start(f)
      PROVE  Steady'
  <2>1. CASE \/ StartUse(f) \/ StartRetry(f) \/ OpenPage(f) \/ StartResume(f)
             \/ \E mode \in {"use", "retry", "resume"} : StartReconciling(f, mode)
    BY <2>1, LoadKind, SteadyKinds
  <2> QED BY <1>2, <2>1, SteadyOthers DEF Start
<1>3. ASSUME NEW f \in Flows, Continue(f)
      PROVE  Steady'
  <2>1. CASE Reconcile(f) \/ HandleResult(f) \/ Poll(f)
    BY <2>1, ReconcileKind, ResultKind, PollKind, SteadyKinds
  <2>2. CASE HandleLoss(f) \/ HandleRefusal(f) \/ Refresh(f) \/ RefreshFails(f)
    BY <2>2, LossKind, RefreshKind, SteadyKinds
  <2>3. CASE Send(f) \/ HandleExpiry(f)
    BY <2>3, SendKind, ExpiryKind, SteadyKinds
  <2> QED BY <1>3, <2>1, <2>2, <2>3, SteadyOthers DEF Continue
<1>4. ASSUME NEW f \in Flows, Close(f) \/ GiveUp(f)
      PROVE  Steady'
  BY <1>4, LeaveKind, SteadyKinds
<1>5. CASE Verifier
  <2>1. ASSUME Verifies
        PROVE  Steady'
    BY <2>1, SteadyQuiet, SteadyKinds DEF Verifies, local
  <2>2. ASSUME NEW m \in wire,
               \/ LookUp(m) \/ CheckChallenge(m) \/ Reject(m) \/ Refuse(m) \/ Drop(m)
               \/ Accept(m)
        PROVE  Steady'
    BY <2>1, <2>2, VerifierKind, AcceptKind
  <2>3. CASE \/ \E o \in Ops, status \in Terminal : Settle(o, status)
             \/ \E c \in DOMAIN challenges : Expire(c)
    BY <2>3, SteadyQuiet DEF Settle, Expire, local
  <2> QED BY <1>5, <2>2, <2>3 DEF Verifier
<1> QED BY <1>1, <1>2, <1>3, <1>4, <1>5 DEF Next

\* What a step does to the cursor of the active credential.
Forward == cred # NoCred /\ cred' # NoCred =>
  \/ cred'.id > cred.id
  \/ cred'.id = cred.id /\ cred'.next >= cred.next

\* Only a call that puts the fault's credential back could move it backward.
LEMMA StepsForward ==
  ASSUME TypeInv, [Next]_vars,
         \A f \in Flows : SaveArmed(f) => cred'.id = cred.id /\ cred'.next = cred.next
  PROVE  Forward
<1>0. cred \in Creds /\ cred.next \in Nat /\ cred.next >= cred.next
  <2>1. cred \in Creds /\ L \in Nat
    BY ConstantsAssumption DEF TypeInv, StoreOK
  <2> QED BY <2>1 DEF Creds
<1>1. cred'.id = cred.id /\ cred'.next = cred.next => Forward
  BY <1>0 DEF Forward
<1>2. cred = NoCred \/ cred' = NoCred => Forward
  BY DEF Forward
<1>3. ASSUME NEW f \in Flows, NEW rec, NEW s, Save(f, rec, s)
      PROVE  Forward
  <2>1. CASE cred' = Advanced(cred, rec)
    <3>1. Real(rec) /\ rec.slot \in Nat
      BY <1>3, ConstantsAssumption DEF Save, Real, Records
    <3>2. cred'.id = cred.id /\ cred'.next = IF cred.next > rec.slot THEN cred.next ELSE rec.slot + 1
      BY <1>0, <2>1, <3>1, AdvancedCred
    <3>3. cred'.next >= cred.next
      BY <1>0, <3>1, <3>2
    <3> QED BY <3>2, <3>3 DEF Forward
  <2> QED BY <1>1, <1>3, <2>1 DEF Save
<1>4. ASSUME NEW f \in Flows, Start(f)
      PROVE  Forward
  BY <1>1, <1>4 DEF Start, StartUse, StartRetry, OpenPage, StartResume, StartReconciling, StartIssue,
    StartReset, StartArm, local
<1>5. ASSUME NEW f \in Flows, Continue(f)
      PROVE  Forward
  <2>1. CASE Reconcile(f) \/ HandleResult(f) \/ Poll(f)
    BY <1>1, <1>3, <2>1, ReconcileKind, ResultKind, PollKind DEF Rest, local
  <2>2. CASE HandleLoss(f) \/ HandleRefusal(f) \/ Refresh(f) \/ RefreshFails(f)
    BY <1>3, <2>2, LossKind, RefreshKind
  <2>3. CASE Prepare(f) \/ Send(f) \/ HandleExpiry(f)
    BY <1>1, <2>3 DEF Prepare, SaveOperation, Send, HandleExpiry, local
  <2>4. CASE SaveIssued(f) \/ ClearWallet(f)
    BY <1>1, <1>2, <2>4 DEF SaveIssued, ClearWallet
  <2>5. CASE Release(f)
    BY <1>1, <2>5, ReleaseKind
  <2>6. CASE SaveArmed(f)
    BY <1>1, <2>6
  <2> QED BY <1>5, <2>1, <2>2, <2>3, <2>4, <2>5, <2>6 DEF Continue
<1>6. CASE Verifier
  BY <1>1, <1>6 DEF Verifier, LookUp, CheckChallenge, Reject, Accept, Refuse, Drop, Settle,
    Expire, local
<1>7. CASE \E f \in Flows : Close(f) \/ GiveUp(f)
  BY <1>1, <1>7 DEF Close, GiveUp, local
<1>8. CASE UNCHANGED vars
  BY <1>1, <1>8 DEF vars
<1> QED BY <1>4, <1>5, <1>6, <1>7, <1>8 DEF Next

\* The cursor never returns to a slot it has passed, in any number of pages that
\* do not arm the fault: the stale credential that arming puts back is the only
\* thing that could move it backward.
THEOREM CredentialForward == Arming = {} => (Spec => CredentialMovesForward)
<1> SUFFICES ASSUME Arming = {} PROVE Spec => CredentialMovesForward
  OBVIOUS
<1> DEFINE Inv == TypeInv /\ Steady
<1>1. Init => Inv
  BY TypeInit, SteadyInit
<1>2. Inv /\ [Next]_vars => Inv'
  BY TypeStep, SteadyStep DEF Undisturbed
<1>3. Inv /\ [Next]_vars =>
        [cred # NoCred /\ cred' # NoCred =>
           \/ cred'.id > cred.id
           \/ cred'.id = cred.id /\ cred'.next >= cred.next]_vars
  <2> SUFFICES ASSUME Inv, [Next]_vars PROVE Forward
    BY DEF Forward
  <2>1. \A f \in Flows : ~SaveArmed(f)
    BY DEF SaveArmed, Steady, Arms
  <2> QED BY <2>1, StepsForward
<1> HIDE DEF Inv
<1> QED BY <1>1, <1>2, <1>3, PTL DEF Spec, CredentialMovesForward

-----------------------------------------------------------------------------
(* The record of each use, in a wallet that is not disturbed.              *)

Issuing(f) == flow[f].pc = "issue"

\* Operation o is under way, or accepted, for credential n.
InFlight(o, n) ==
  \/ ledger[o].status # "NONE" /\ ledger[o].cred = n
  \/ \E m \in wire : m.op = o /\ m.cred = n
  \/ \E f \in Flows : flow[f].pc \in WithRec /\ flow[f].op = o /\ flow[f].rec.cred = n

\* Credential n has left the flow that issued it.
Seen(n) ==
  \/ cred # NoCred /\ cred.id = n
  \/ \E o \in Ops : ops[o] # NoRecord /\ ops[o].cred = n
  \/ \E o \in Ops : InFlight(o, n)
  \/ \E f \in Flows : flow[f].pc = "prepare" /\ flow[f].cred.id = n

IssuedOnce ==
  /\ \A f \in Flows : Issuing(f) =>
       /\ ~Seen(flow[f].cred.id)
       /\ \A g \in Flows \ {f} : Issuing(g) => flow[g].cred.id # flow[f].cred.id
  /\ \A n \in 1..MaxIssued : Seen(n) => runOf[n] # 0

\* What is under way for the wallet's credential is in its store.
Recorded == cred # NoCred => \A o \in Ops : InFlight(o, cred.id) => ops[o] # NoRecord

InFlightNext(o, n) ==
  \/ ledger'[o].status # "NONE" /\ ledger'[o].cred = n
  \/ \E m \in wire' : m.op = o /\ m.cred = n
  \/ \E f \in Flows : flow'[f].pc \in WithRec /\ flow'[f].op = o /\ flow'[f].rec.cred = n

SeenNext(n) ==
  \/ cred' # NoCred /\ cred'.id = n
  \/ \E o \in Ops : ops'[o] # NoRecord /\ ops'[o].cred = n
  \/ \E o \in Ops : InFlightNext(o, n)
  \/ \E f \in Flows : flow'[f].pc = "prepare" /\ flow'[f].cred.id = n

\* Nothing is under way after a step that was not so before, or is now recorded.
NothingLost == \A o \in Ops : \A n :
  InFlightNext(o, n) => InFlight(o, n) \/ (ops'[o] # NoRecord /\ Seen(n))

LEMMA IssuedOnceNext ==
  ASSUME \A g \in Flows : flow'[g].pc = "issue" =>
           /\ ~SeenNext(flow'[g].cred.id)
           /\ \A h \in Flows \ {g} : flow'[h].pc = "issue" => flow'[h].cred.id # flow'[g].cred.id,
         \A n \in 1..MaxIssued : SeenNext(n) => runOf'[n] # 0
  PROVE  IssuedOnce'
  BY DEF IssuedOnce, Issuing, Seen, SeenNext, InFlight, InFlightNext

LEMMA IssuedOnceKept ==
  ASSUME IssuedOnce, \A n : SeenNext(n) => Seen(n),
         \A g \in Flows : flow'[g].pc = "issue" => flow'[g] = flow[g],
         \A n \in 1..MaxIssued : runOf[n] # 0 => runOf'[n] # 0
  PROVE  IssuedOnce'
<1>1. \A g \in Flows : flow'[g].pc = "issue" =>
           /\ ~SeenNext(flow'[g].cred.id)
           /\ \A h \in Flows \ {g} : flow'[h].pc = "issue" => flow'[h].cred.id # flow'[g].cred.id
  BY DEF IssuedOnce, Issuing
<1>2. \A n \in 1..MaxIssued : SeenNext(n) => runOf'[n] # 0
  BY DEF IssuedOnce
<1> QED BY <1>1, <1>2, IssuedOnceNext

LEMMA RecordedKept ==
  ASSUME Recorded, NothingLost,
         \A o \in Ops : ops[o] # NoRecord => ops'[o] # NoRecord,
         cred' # NoCred => cred # NoCred /\ cred'.id = cred.id
  PROVE  Recorded'
<1> SUFFICES ASSUME cred' # NoCred, NEW o \in Ops, InFlightNext(o, cred'.id)
             PROVE  ops'[o] # NoRecord
  BY DEF Recorded, InFlight, InFlightNext
<1>1. cred # NoCred /\ cred'.id = cred.id
  OBVIOUS
<1>2. InFlight(o, cred.id) \/ ops'[o] # NoRecord
  BY <1>1 DEF NothingLost
<1> QED BY <1>1, <1>2 DEF Recorded

\* A flow that moves: what it and the others carry.
LEMMA OthersInFlight ==
  ASSUME TypeInv, NEW f \in Flows, NEW s, Moves(f, s), NEW o \in Ops, NEW n,
         \E g \in Flows : flow'[g].pc \in WithRec /\ flow'[g].op = o /\ flow'[g].rec.cred = n
  PROVE  InFlight(o, n) \/ (s.pc \in WithRec /\ s.op = o /\ s.rec.cred = n)
<1>1. flow'[f] = s /\ \A g \in Flows \ {f} : flow'[g] = flow[g]
  BY MovesOK DEF TypeInv
<1>2. PICK g \in Flows : flow'[g].pc \in WithRec /\ flow'[g].op = o /\ flow'[g].rec.cred = n
  OBVIOUS
<1>3. CASE g = f
  BY <1>1, <1>2, <1>3
<1>4. CASE g # f
  BY <1>1, <1>2, <1>4 DEF InFlight
<1> QED BY <1>3, <1>4

LEMMA SeenFrom ==
  ASSUME TypeInv, NEW f \in Flows, NEW s, Moves(f, s), NothingLost,
         s.pc = "prepare" => Seen(s.cred.id),
         \A o \in Ops : ops'[o] # NoRecord => Seen(ops'[o].cred),
         cred' # NoCred => Seen(cred'.id)
  PROVE  \A n : SeenNext(n) => Seen(n)
<1> SUFFICES ASSUME NEW n, SeenNext(n) PROVE Seen(n)
  OBVIOUS
<1>1. CASE \E o \in Ops : InFlightNext(o, n)
  BY <1>1 DEF NothingLost, Seen
<1>2. CASE \E g \in Flows : flow'[g].pc = "prepare" /\ flow'[g].cred.id = n
  <2>1. flow'[f] = s /\ \A g \in Flows \ {f} : flow'[g] = flow[g]
    BY MovesOK DEF TypeInv
  <2> QED BY <1>2, <2>1 DEF Seen
<1> QED BY <1>1, <1>2 DEF SeenNext

LEMMA IssueMoves ==
  ASSUME TypeInv, NEW f \in Flows, NEW s, Moves(f, s), s.pc # "issue"
  PROVE  \A g \in Flows : flow'[g].pc = "issue" => flow'[g] = flow[g]
  BY MovesOK DEF TypeInv

RecordsInv == IssuedOnce /\ Recorded

\* A flow moves and the credential stays.
LEMMA RecordsKept ==
  ASSUME TypeInv, RecordsInv, NEW f \in Flows, NEW s, Moves(f, s),
         s.pc # "issue", NothingLost,
         s.pc = "prepare" => Seen(s.cred.id),
         \A o \in Ops : ops[o] # NoRecord => ops'[o] # NoRecord,
         \A o \in Ops : ops'[o] # NoRecord => Seen(ops'[o].cred),
         cred' # NoCred => cred # NoCred /\ cred'.id = cred.id,
         UNCHANGED runOf
  PROVE  RecordsInv'
<1>1. cred' # NoCred => Seen(cred'.id)
  BY DEF Seen
<1>2. \A n : SeenNext(n) => Seen(n)
  BY <1>1, SeenFrom
<1>3. IssuedOnce'
  BY <1>2, IssueMoves, IssuedOnceKept DEF RecordsInv
<1>4. Recorded'
  BY RecordedKept DEF RecordsInv
<1> QED BY <1>3, <1>4 DEF RecordsInv

LEMMA OpsSeen == \A o \in Ops : ops[o] # NoRecord => Seen(ops[o].cred)
  BY DEF Seen

LEMMA RecordsOfLoad ==
  ASSUME TypeInv, RecordsInv, NEW f \in Flows, NEW s, Load(f, s)
  PROVE  RecordsInv'
<1>1. NothingLost
  <2> SUFFICES ASSUME NEW o \in Ops, NEW n, InFlightNext(o, n)
               PROVE  InFlight(o, n) \/ (ops'[o] # NoRecord /\ Seen(n))
    BY DEF NothingLost
  <2>1. UNCHANGED <<ops, wire, ledger>>
    BY DEF Load, local, server
  <2>2. CASE \E g \in Flows : flow'[g].pc \in WithRec /\ flow'[g].op = o /\ flow'[g].rec.cred = n
    <3>1. InFlight(o, n) \/ (s.pc \in WithRec /\ s.op = o /\ s.rec.cred = n)
      BY <2>2, OthersInFlight DEF Load
    <3>2. s.pc \in WithRec /\ s.op = o /\ s.rec.cred = n => ops'[o] # NoRecord /\ Seen(n)
      BY <2>1, OpsSeen DEF Load
    <3> QED BY <3>1, <3>2
  <2> QED BY <2>1, <2>2 DEF InFlightNext, InFlight
<1>2. s.pc = "prepare" => Seen(s.cred.id)
  BY DEF Load, Seen
<1>3. s.pc # "issue" /\ Moves(f, s) /\ UNCHANGED <<ops, cred, runOf>>
  BY DEF Load, local, server
<1> QED BY <1>1, <1>2, <1>3, OpsSeen, RecordsKept

LEMMA RecordsOfSave ==
  ASSUME TypeInv, RecordsInv, NEW f \in Flows, NEW rec, NEW s, Save(f, rec, s)
  PROVE  RecordsInv'
<1>1. /\ flow[f].op \in Ops /\ flow[f].pc \in WithRec
      /\ Real(rec) /\ rec # NoRecord /\ rec.cred = flow[f].rec.cred
  BY RecIsReal, RealIsSome DEF Save
<1>2. InFlight(flow[f].op, rec.cred) /\ Seen(rec.cred)
  BY <1>1 DEF InFlight, Seen
<1>3. NothingLost
  <2> SUFFICES ASSUME NEW o \in Ops, NEW n, InFlightNext(o, n) PROVE InFlight(o, n)
    BY DEF NothingLost
  <2>1. CASE \E g \in Flows : flow'[g].pc \in WithRec /\ flow'[g].op = o /\ flow'[g].rec.cred = n
    <3>1. InFlight(o, n) \/ (s.pc \in WithRec /\ s.op = o /\ s.rec.cred = n)
      BY <2>1, OthersInFlight DEF Save
    <3> QED BY <1>1, <1>2, <3>1 DEF Save
  <2>2. UNCHANGED <<wire, ledger>>
    BY DEF Save
  <2> QED BY <2>1, <2>2 DEF InFlightNext, InFlight
<1>4. cred' # NoCred => cred # NoCred /\ cred'.id = cred.id
  <2>1. CASE cred # NoCred /\ cred' = Advanced(cred, rec)
    BY <1>1, <2>1, CredIsReal, AdvancedCred
  <2> QED BY <2>1 DEF Save
<1>5. s.pc = "prepare" => Seen(s.cred.id)
  BY <1>4 DEF Save, Seen
<1>6. \A o \in Ops : /\ ops[o] # NoRecord => ops'[o] # NoRecord
                     /\ ops'[o] # NoRecord => Seen(ops'[o].cred)
  BY <1>1, <1>2, OpsSeen DEF Save, TypeInv, StoreOK
<1>7. s.pc # "issue" /\ Moves(f, s) /\ UNCHANGED runOf
  BY DEF Save
<1> QED BY <1>3, <1>4, <1>5, <1>6, <1>7, RecordsKept

\* What goes on about an operation was under way.
LEMMA RestInFlight ==
  ASSUME TypeInv, WireFrom,
         UNCHANGED flow \/ \E f \in Flows : \E s : Rest(f, s),
         \A o \in Ops : \/ ledger'[o] = ledger[o]
                        \/ \E m \in wire : m.op = o /\ ledger'[o].cred = m.cred
  PROVE  NothingLost
<1> SUFFICES ASSUME NEW o \in Ops, NEW n, InFlightNext(o, n) PROVE InFlight(o, n)
  BY DEF NothingLost
<1>1. CASE \E g \in Flows : flow'[g].pc \in WithRec /\ flow'[g].op = o /\ flow'[g].rec.cred = n
  <2>1. CASE UNCHANGED flow
    BY <1>1, <2>1 DEF InFlight
  <2>2. ASSUME NEW f \in Flows, NEW s, Rest(f, s)
        PROVE  InFlight(o, n)
    <3>1. InFlight(o, n) \/ (s.pc \in WithRec /\ s.op = o /\ s.rec.cred = n)
      BY <1>1, <2>2, OthersInFlight DEF Rest
    <3> QED BY <2>2, <3>1 DEF Rest, InFlight
  <2> QED BY <2>1, <2>2
<1>2. CASE \E m \in wire' : m.op = o /\ m.cred = n
  BY <1>2 DEF WireFrom, InFlight
<1>3. CASE ledger'[o].status # "NONE" /\ ledger'[o].cred = n
  BY <1>3 DEF InFlight
<1> QED BY <1>1, <1>2, <1>3 DEF InFlightNext

LEMMA RecordsOfRest ==
  ASSUME TypeInv, RecordsInv, NEW f \in Flows, NEW s, Rest(f, s), WireFrom, UNCHANGED ledger
  PROVE  RecordsInv'
<1>1. NothingLost
  BY RestInFlight
<1>2. s.pc \notin {"issue", "prepare"} /\ Moves(f, s) /\ UNCHANGED <<ops, cred, runOf>>
  BY DEF Rest, WithRec, local
<1> QED BY <1>1, <1>2, OpsSeen, RecordsKept

\* The verifier's part.
LEMMA RecordsOfVerifies ==
  ASSUME TypeInv, RecordsInv, Verifies,
         \A o \in Ops : \/ ledger'[o] = ledger[o]
                        \/ \E m \in wire : m.op = o /\ ledger'[o].cred = m.cred
  PROVE  RecordsInv'
<1>1. NothingLost
  BY RestInFlight DEF Verifies
<1>2. UNCHANGED <<ops, cred, runOf>>
  BY DEF Verifies, local
<1>3. CASE \E f \in Flows : \E s : Rest(f, s)
  <2>0. PICK f \in Flows : \E s : Rest(f, s)
    BY <1>3
  <2>1. PICK s : Rest(f, s)
    BY <2>0
  <2>2. s.pc \notin {"issue", "prepare"} /\ Moves(f, s)
    BY <2>1 DEF Rest, WithRec
  <2> QED BY <1>1, <1>2, <2>2, OpsSeen, RecordsKept
<1>4. CASE UNCHANGED flow
  <2>1. \A n : SeenNext(n) => Seen(n)
    BY <1>1, <1>2, <1>4, OpsSeen DEF SeenNext, NothingLost, Seen
  <2>2. IssuedOnce'
    BY <1>2, <1>4, <2>1, IssuedOnceKept DEF RecordsInv, IssuedOnce
  <2>3. Recorded'
    BY <1>1, <1>2, RecordedKept DEF RecordsInv
  <2> QED BY <2>2, <2>3 DEF RecordsInv
<1> QED BY <1>3, <1>4 DEF Verifies

LEMMA RecordsOfSettle ==
  ASSUME TypeInv, RecordsInv, NEW o \in Ops, NEW status \in Terminal, Settle(o, status)
  PROVE  RecordsInv'
<1>1. ledger' = [ledger EXCEPT ![o] = WithStatus(ledger[o], status)]
  BY DEF Settle, WithStatus
<1>2. \A p \in Ops : ledger'[p].status # "NONE" =>
        ledger[p].status # "NONE" /\ ledger'[p].cred = ledger[p].cred
  BY <1>1, WithStatusShape DEF Settle, TypeInv, ServerOK
<1>3. UNCHANGED <<ops, cred, wire, flow, runOf>>
  BY DEF Settle, local
<1>4. \A p \in Ops : \A n : InFlightNext(p, n) => InFlight(p, n)
  BY <1>2, <1>3 DEF InFlightNext, InFlight
<1>5. \A n : SeenNext(n) => Seen(n)
  BY <1>3, <1>4 DEF SeenNext, Seen
<1>6. IssuedOnce'
  BY <1>3, <1>5, IssuedOnceKept DEF RecordsInv, IssuedOnce
<1>7. Recorded'
  BY <1>3, <1>4, RecordedKept DEF RecordsInv, NothingLost
<1> QED BY <1>6, <1>7 DEF RecordsInv

LEMMA RecordsOfPrepare ==
  ASSUME TypeInv, RecordsInv, NEW f \in Flows, Prepare(f)
  PROVE  RecordsInv'
<1> DEFINE state(o) == [flow[f] EXCEPT !.pc = "send", !.op = o, !.rec = Prepared(f)]
<1>1. PICK o \in Ops :
        /\ Real(Prepared(f)) /\ Prepared(f).cred = flow[f].cred.id
        /\ SaveOperation(o, Prepared(f))
        /\ Moves(f, state(o)) /\ state(o).pc = "send" /\ state(o).op = o
        /\ state(o).rec = Prepared(f)
  BY PrepareKind
<1> HIDE DEF state
<1>2. flow[f].pc = "prepare" /\ UNCHANGED <<wire, ledger, runOf, cred>>
  BY <1>1 DEF Prepare, SaveOperation
<1>3. Seen(flow[f].cred.id) /\ Prepared(f) # NoRecord
  BY <1>1, <1>2, RealIsSome DEF Seen
<1>4. NothingLost
  <2> SUFFICES ASSUME NEW p \in Ops, NEW n, InFlightNext(p, n)
               PROVE  InFlight(p, n) \/ (ops'[p] # NoRecord /\ Seen(n))
    BY DEF NothingLost
  <2>1. CASE \E g \in Flows : flow'[g].pc \in WithRec /\ flow'[g].op = p /\ flow'[g].rec.cred = n
    <3>1. InFlight(p, n) \/ (state(o).pc \in WithRec /\ state(o).op = p /\ state(o).rec.cred = n)
      BY <1>1, <2>1, OthersInFlight
    <3>2. ops'[o] = Prepared(f)
      BY <1>1 DEF SaveOperation, TypeInv, StoreOK
    <3> QED BY <1>1, <1>3, <3>1, <3>2
  <2> QED BY <1>2, <2>1 DEF InFlightNext, InFlight
<1>5. \A p \in Ops : /\ ops[p] # NoRecord => ops'[p] # NoRecord
                     /\ ops'[p] # NoRecord => Seen(ops'[p].cred)
  BY <1>1, <1>3, OpsSeen DEF SaveOperation, TypeInv, StoreOK
<1> QED BY <1>1, <1>2, <1>4, <1>5, RecordsKept

LEMMA RecordsOfIssue ==
  ASSUME TypeInv, CopiesTrue, RecordsInv, NEW f \in Flows, StartIssue(f) \/ SaveIssued(f)
  PROVE  RecordsInv'
<1>1. CASE StartIssue(f)
  <2>1. PICK n \in 1..MaxIssued :
           /\ runOf[n] = 0 /\ runOf' = [runOf EXCEPT ![n] = run]
           /\ Moves(f, IssuedState(n))
           /\ UNCHANGED <<local, wire, ledger>>
    BY <1>1, StartIssueKind
  <2>2. flow'[f] = IssuedState(n) /\ \A g \in Flows \ {f} : flow'[g] = flow[g]
    BY <2>1, MovesOK DEF TypeInv
  <2>3. /\ IssuedState(n).pc = "issue" /\ IssuedState(n).cred.id = n
        /\ IssuedState(n).pc \notin WithRec
    BY IssuedShape DEF WithRec
  <2>4. \A o \in Ops : \A k : InFlightNext(o, k) => InFlight(o, k)
    BY <2>1, <2>2, <2>3 DEF InFlightNext, InFlight
  <2>5. \A k : SeenNext(k) => Seen(k)
    BY <2>1, <2>2, <2>3, <2>4 DEF SeenNext, Seen, local
  <2>6. ~Seen(n)
    BY <2>1 DEF RecordsInv, IssuedOnce
  <2>7. \A g \in Flows \ {f} : Issuing(g) => flow[g].cred.id # n
    BY <2>1 DEF Issuing, CopiesTrue, FlowTrue, SlotsBelow
  <2>8. \A g \in Flows : flow'[g].pc = "issue" =>
          /\ ~SeenNext(flow'[g].cred.id)
          /\ \A h \in Flows \ {g} : flow'[h].pc = "issue" => flow'[h].cred.id # flow'[g].cred.id
    BY <2>2, <2>3, <2>5, <2>6, <2>7 DEF RecordsInv, IssuedOnce, Issuing
  <2>9. \A k \in 1..MaxIssued : SeenNext(k) => runOf'[k] # 0
    BY <2>1, <2>5 DEF RecordsInv, IssuedOnce, TypeInv, RunsOK
  <2>10. IssuedOnce'
    BY <2>8, <2>9, IssuedOnceNext
  <2>11. Recorded'
    BY <2>1, <2>4, RecordedKept DEF RecordsInv, NothingLost, local
  <2> QED BY <2>10, <2>11 DEF RecordsInv
<1>2. CASE SaveIssued(f)
  <2> DEFINE n == flow[f].cred.id
  <2>1. /\ Moves(f, Idle) /\ Issuing(f) /\ UNCHANGED <<ops, wire, runOf, ledger>>
        /\ Idle.pc = "idle" /\ Idle.pc \notin WithRec
    BY <1>2, EndShape DEF SaveIssued, server, Issuing
  <2>2. flow'[f] = Idle /\ \A g \in Flows \ {f} : flow'[g] = flow[g]
    BY <2>1, MovesOK DEF TypeInv
  <2>3. \A o \in Ops : \A k : InFlightNext(o, k) => InFlight(o, k)
    BY <2>1, <2>2 DEF InFlightNext, InFlight
  <2>4. cred' = cred \/ cred' = flow[f].cred
    BY <1>2 DEF SaveIssued
  <2>5. \A k : SeenNext(k) => Seen(k) \/ k = n
    BY <2>1, <2>2, <2>3, <2>4 DEF SeenNext, Seen
  <2>6. n \in 1..MaxIssued /\ runOf[n] # 0
    BY <2>1, CredFields DEF TypeInv, FlowOK, FlowShape, FlowStates, Issuing, CopiesTrue,
      FlowTrue, SlotsBelow
  <2>7. \A g \in Flows : flow'[g].pc = "issue" =>
          /\ ~SeenNext(flow'[g].cred.id)
          /\ \A h \in Flows \ {g} : flow'[h].pc = "issue" => flow'[h].cred.id # flow'[g].cred.id
    BY <2>1, <2>2, <2>5 DEF RecordsInv, IssuedOnce, Issuing
  <2>8. \A k \in 1..MaxIssued : SeenNext(k) => runOf'[k] # 0
    BY <2>1, <2>5, <2>6 DEF RecordsInv, IssuedOnce
  <2>9. IssuedOnce'
    BY <2>7, <2>8, IssuedOnceNext
  <2>10. Recorded'
    <3>1. CASE cred' = cred
      BY <2>1, <2>3, <3>1, RecordedKept DEF RecordsInv, NothingLost
    <3>2. CASE cred' = flow[f].cred
      <4>1. \A o \in Ops : ~InFlight(o, n)
        BY <2>1 DEF RecordsInv, IssuedOnce, Seen
      <4>2. \A o \in Ops : ~InFlightNext(o, cred'.id)
        BY <2>3, <3>2, <4>1
      <4> QED BY <4>2 DEF Recorded, InFlight, InFlightNext
    <3> QED BY <2>4, <3>1, <3>2
  <2> QED BY <2>9, <2>10 DEF RecordsInv
<1> QED BY <1>1, <1>2

LEMMA RecordsOfEnd ==
  ASSUME TypeInv, RecordsInv, NEW f \in Flows,
         StartReset(f) \/ ClearWallet(f) \/ Release(f)
  PROVE  RecordsInv'
<1>1. PICK s : Moves(f, s) /\ s.pc \in {"idle", "clear"}
  <2>1. CASE StartReset(f)
    <3>1. PICK s \in {Idle, Cleared} : flow' = [flow EXCEPT ![f] = s]
      BY <2>1 DEF StartReset, Go, Cleared
    <3>2. Moves(f, s)
      BY <3>1, Constants, ClearedShape DEF Moves
    <3> QED BY <3>2, Constants, ClearedShape
  <2>2. CASE ClearWallet(f) \/ Release(f)
    BY <2>2, EndShape DEF ClearWallet, Release
  <2> QED BY <2>1, <2>2
<1>2. UNCHANGED <<wire, runOf>> /\ \A o \in Ops : ledger'[o].status # "NONE" => ledger'[o] = ledger[o]
  BY Constants DEF StartReset, ClearWallet, Release, server
<1>3. \A o \in Ops : \A n : InFlightNext(o, n) => InFlight(o, n)
  <2>1. s.pc \notin WithRec
    BY <1>1 DEF WithRec
  <2> QED BY <1>1, <1>2, <2>1, OthersInFlight DEF InFlightNext, InFlight
<1>4. /\ \A o \in Ops : ops'[o] # NoRecord => ops'[o] = ops[o]
      /\ cred' # NoCred => /\ cred # NoCred /\ cred'.id = cred.id
                           /\ UNCHANGED ops
  <2>1. CASE StartReset(f)
    BY <2>1 DEF StartReset, local
  <2>2. CASE ClearWallet(f)
    BY <2>2 DEF ClearWallet
  <2>3. CASE Release(f)
    BY <2>3, ReleaseKind
  <2> QED BY <2>1, <2>2, <2>3
<1>5. \A n : SeenNext(n) => Seen(n)
  <2>1. cred' # NoCred => Seen(cred'.id)
    BY <1>4 DEF Seen
  <2>2. \A o \in Ops : ops'[o] # NoRecord => Seen(ops'[o].cred)
    BY <1>4, OpsSeen
  <2> QED BY <1>1, <1>3, <2>1, <2>2, SeenFrom DEF NothingLost
<1>6. IssuedOnce'
  BY <1>1, <1>2, <1>5, IssueMoves, IssuedOnceKept DEF RecordsInv
<1>7. Recorded'
  <2>1. CASE cred' = NoCred
    BY <2>1 DEF Recorded
  <2>2. CASE cred' # NoCred
    BY <1>3, <1>4, <2>2, RecordedKept DEF RecordsInv, NothingLost
  <2> QED BY <2>1, <2>2
<1> QED BY <1>6, <1>7 DEF RecordsInv

\* The credential that a flow puts back with the fault's operation is the active one.
LEMMA RecordsOfArm ==
  ASSUME TypeInv, Steady, RecordsInv, NEW f \in Flows, StartArm(f) \/ SaveArmed(f)
  PROVE  RecordsInv'
<1>1. PICK s : Moves(f, s) /\ s.pc \in {"arm", "idle"}
  <2>1. CASE StartArm(f)
    BY <2>1, StartArmKind, CredIsReal, ArmedShape
  <2>2. CASE SaveArmed(f)
    BY <2>2, EndShape DEF SaveArmed
  <2> QED BY <2>1, <2>2
<1>2. /\ UNCHANGED <<ops, wire, ledger, runOf>>
      /\ cred' # NoCred => cred # NoCred /\ cred'.id = cred.id
  BY DEF StartArm, SaveArmed, Steady, Arms, local, server
<1>3. \A o \in Ops : \A n : InFlightNext(o, n) => InFlight(o, n)
  <2>1. s.pc \notin WithRec
    BY <1>1 DEF WithRec
  <2> QED BY <1>1, <1>2, <2>1, OthersInFlight DEF InFlightNext, InFlight
<1> QED BY <1>1, <1>2, <1>3, OpsSeen, RecordsKept DEF NothingLost

LEMMA RecordsInit == Init => RecordsInv
  BY Constants DEF Init, RecordsInv, IssuedOnce, Recorded, Issuing, Seen, InFlight, WithRec, Idle

LEMMA RecordsStep ==
  ASSUME WalletInv, Steady, RecordsInv, [Next]_vars
  PROVE  RecordsInv'
<1> USE DEF WalletInv
<1>1. CASE UNCHANGED vars
  <2>1. \A o \in Ops : \A n : InFlightNext(o, n) => InFlight(o, n)
    BY <1>1 DEF vars, InFlightNext, InFlight
  <2>2. \A n : SeenNext(n) => Seen(n)
    BY <1>1, <2>1 DEF vars, SeenNext, Seen
  <2>3. IssuedOnce'
    BY <1>1, <2>2, IssuedOnceKept DEF vars, RecordsInv, IssuedOnce
  <2>4. Recorded'
    BY <1>1, <2>1, RecordedKept DEF vars, RecordsInv, NothingLost
  <2> QED BY <2>3, <2>4 DEF RecordsInv
<1>2. ASSUME NEW f \in Flows, Start(f)
      PROVE  RecordsInv'
  <2>1. CASE \/ StartUse(f) \/ StartRetry(f) \/ OpenPage(f) \/ StartResume(f)
             \/ \E mode \in {"use", "retry", "resume"} : StartReconciling(f, mode)
    BY <2>1, LoadKind, RecordsOfLoad
  <2> QED BY <1>2, <2>1, RecordsOfIssue, RecordsOfArm, RecordsOfEnd DEF Start
<1>3. ASSUME NEW f \in Flows, Continue(f)
      PROVE  RecordsInv'
  <2>1. ASSUME Rest(f, Idle), UNCHANGED <<wire, ledger>>
        PROVE  RecordsInv'
    BY <2>1, RecordsOfRest DEF WireFrom
  <2>2. CASE Reconcile(f) \/ HandleResult(f) \/ Poll(f)
    BY <2>1, <2>2, ReconcileKind, ResultKind, PollKind, RecordsOfSave
  <2>3. CASE HandleLoss(f) \/ HandleRefusal(f) \/ Refresh(f) \/ RefreshFails(f)
    BY <2>3, LossKind, RefreshKind, RecordsOfSave
  <2>4. CASE Send(f)
    BY <2>4, SendKind, RecordsOfRest DEF Send, server
  <2>5. CASE HandleExpiry(f)
    BY <2>5, ExpiryKind, RecordsOfRest DEF WireFrom
  <2> QED
    BY <1>3, <2>2, <2>3, <2>4, <2>5, RecordsOfPrepare, RecordsOfIssue, RecordsOfArm,
      RecordsOfEnd
    DEF Continue
<1>4. ASSUME NEW f \in Flows, Close(f) \/ GiveUp(f)
      PROVE  RecordsInv'
  BY <1>4, LeaveKind, RecordsOfRest
<1>5. CASE Verifier
  <2>1. ASSUME NEW m \in wire,
               LookUp(m) \/ CheckChallenge(m) \/ Reject(m) \/ Refuse(m) \/ Drop(m)
        PROVE  RecordsInv'
    BY <2>1, VerifierKind, RecordsOfVerifies
  <2>2. ASSUME NEW m \in wire, Accept(m)
        PROVE  RecordsInv'
    <3>1. /\ m.op \in Ops /\ ledger' = [ledger EXCEPT ![m.op] = UseOf(m)]
          /\ ledger \in [Ops -> Uses] /\ UseOf(m).cred = m.cred
      BY <2>2, AcceptKind DEF TypeInv, ServerOK, UseOf
    <3>2. \A o \in Ops : \/ ledger'[o] = ledger[o]
                         \/ \E j \in wire : j.op = o /\ ledger'[o].cred = j.cred
      BY <3>1
    <3> QED BY <2>2, <3>2, AcceptKind, RecordsOfVerifies
  <2>3. ASSUME NEW c \in DOMAIN challenges, Expire(c)
        PROVE  RecordsInv'
    <3>1. UNCHANGED <<ops, cred, wire, flow, runOf, ledger>>
      BY <2>3 DEF Expire, local
    <3>2. \A o \in Ops : \A n : InFlightNext(o, n) => InFlight(o, n)
      BY <3>1 DEF InFlightNext, InFlight
    <3>3. \A n : SeenNext(n) => Seen(n)
      BY <3>1, <3>2 DEF SeenNext, Seen
    <3>4. IssuedOnce'
      BY <3>1, <3>3, IssuedOnceKept DEF RecordsInv, IssuedOnce
    <3>5. Recorded'
      BY <3>1, <3>2, RecordedKept DEF RecordsInv, NothingLost
    <3> QED BY <3>4, <3>5 DEF RecordsInv
  <2> QED BY <1>5, <2>1, <2>2, <2>3, RecordsOfSettle DEF Verifier
<1> QED BY <1>1, <1>2, <1>3, <1>4, <1>5 DEF Next

\* Every use that the verifier holds of the wallet's credential has its record in
\* the store, whatever the pages overwrite and whenever a reset clears the wallet:
\* unless one page clears it while another is arming the fault.
THEOREM UsesAreKept == Undisturbed => (Spec => []UsesAreRecorded)
<1> SUFFICES ASSUME Undisturbed PROVE Spec => []UsesAreRecorded
  OBVIOUS
<1>1. Init => Steady /\ RecordsInv
  BY SteadyInit, RecordsInit
<1>2. WalletInv /\ Steady /\ RecordsInv /\ [Next]_vars => Steady' /\ RecordsInv'
  BY SteadyStep, RecordsStep DEF WalletInv
<1>3. WalletInv /\ RecordsInv => UsesAreRecorded
  <2> SUFFICES ASSUME WalletInv, RecordsInv, Current, NEW o \in Ops,
                      ledger[o].status # "NONE", ledger[o].cred = cred.id
               PROVE  ops[o].cred = cred.id /\ ops[o].slot = ledger[o].slot
    BY DEF UsesAreRecorded
  <2>1. ops[o] # NoRecord
    BY DEF RecordsInv, Recorded, InFlight, Current
  <2>2. /\ Holds(o, ops[o].cred, ops[o].slot)
        /\ Holds(o, ledger[o].cred, ledger[o].slot)
    BY <2>1 DEF Holds, IsOf
  <2> QED BY <2>2 DEF WalletInv, Bound
<1> QED BY <1>1, <1>2, <1>3, WalletInvariance, PTL DEF Spec

-----------------------------------------------------------------------------
(* The verifier the wallet meets is the ledger of BoundedUse.              *)

LEMMA RowFields ==
  ASSUME NEW o \in Ops
  PROVE  /\ Row(o).id = o /\ Row(o).op = o /\ Row(o).intent = "ACTION"
         /\ Row(o).cred = ledger[o].cred /\ Row(o).slot = ledger[o].slot
         /\ Row(o).status = ledger[o].status
  BY DEF Row

LEMMA AcceptRefines ==
  ASSUME TypeInv, NEW m \in wire, Accept(m)
  PROVE  Abstract!Accept
<1> DEFINE u == [id |-> m.op, cred |-> m.cred, slot |-> m.slot, op |-> m.op,
                 intent |-> "ACTION", status |-> "ACCEPTED_PENDING_ACTION"]
<1>1. m.op \in Ops /\ m.cred \in 1..MaxIssued /\ m.slot \in 0..(L - 1)
  BY DEF TypeInv, WireOK, Messages
<1>2. u \in Abstract!Use /\ u.status = "ACCEPTED_PENDING_ACTION"
  BY <1>1 DEF Abstract!Use
<1>3. \A o \in Ops : ledger[o].status # "NONE" =>
        o # m.op /\ ~(ledger[o].cred = m.cred /\ ledger[o].slot = m.slot)
  BY DEF Accept, Clashing
<1>4. \A v \in Rows : ~Abstract!Clash(u, v)
  BY <1>3, RowFields DEF Rows, Abstract!Clash
<1>5. ledger \in [Ops -> Uses]
  BY DEF TypeInv, ServerOK
<1>6. /\ ledger'[m.op] = [status |-> "ACCEPTED_PENDING_ACTION", cred |-> m.cred,
                          slot |-> m.slot, ch |-> m.ch]
      /\ \A o \in Ops \ {m.op} : ledger'[o] = ledger[o]
  BY <1>1, <1>5 DEF Accept
<1>7. Row(m.op)' = u /\ ledger'[m.op].status # "NONE"
  BY <1>6 DEF Row
<1>8. \A o \in Ops \ {m.op} : Row(o)' = Row(o)
  BY <1>6 DEF Row
<1>9. ledger[m.op].status = "NONE"
  BY <1>1, <1>3
<1>10. Rows' = Rows \cup {u}
  BY <1>1, <1>6, <1>7, <1>8, <1>9 DEF Rows
<1> QED BY <1>2, <1>4, <1>10 DEF Abstract!Accept

LEMMA SettleRefines ==
  ASSUME TypeInv, NEW o \in Ops, NEW status \in Terminal, Settle(o, status)
  PROVE  Abstract!Settle
<1> DEFINE u == Row(o)
<1>1. ledger \in [Ops -> Uses] /\ ledger[o].status = "ACCEPTED_PENDING_ACTION"
  BY DEF TypeInv, ServerOK, Settle
<1>2. u \in Rows /\ u.status = "ACCEPTED_PENDING_ACTION"
  BY <1>1, RowFields DEF Rows
<1>3. /\ ledger'[o].status = status /\ ledger'[o].cred = ledger[o].cred
      /\ ledger'[o].slot = ledger[o].slot
      /\ \A p \in Ops \ {o} : ledger'[p] = ledger[p]
  BY <1>1 DEF Settle, Uses
<1>4. Row(o)' = [u EXCEPT !.status = status] /\ status # "NONE"
  BY <1>3 DEF Row, Terminal
<1>5. \A p \in Ops \ {o} : Row(p)' = Row(p) /\ Row(p) # u
  BY <1>3 DEF Row
<1>6. Rows' = (Rows \ {u}) \cup {[u EXCEPT !.status = status]}
  BY <1>1, <1>3, <1>4, <1>5 DEF Rows
<1> QED BY <1>2, <1>6 DEF Abstract!Settle, Terminal

LEMMA ResetRefines ==
  ASSUME NEW f \in Flows, StartReset(f)
  PROVE  Abstract!Reset
<1>1. \A o \in Ops : ledger'[o].status = "NONE"
  BY Constants DEF StartReset
<1> QED BY <1>1 DEF Rows, Abstract!Reset

LEMMA NextRefines == TypeInv /\ [Next]_vars => [Abstract!Next]_Rows
<1> SUFFICES ASSUME TypeInv, [Next]_vars PROVE Abstract!Next \/ UNCHANGED Rows
  OBVIOUS
<1>1. CASE UNCHANGED ledger
  BY <1>1 DEF Rows, Row
<1>2. ASSUME NEW f \in Flows, Start(f)
      PROVE  UNCHANGED ledger \/ StartReset(f)
  BY <1>2 DEF Start, StartUse, StartRetry, OpenPage, StartResume, StartReconciling, StartIssue,
              StartArm, server
<1>3. ASSUME NEW f \in Flows, Continue(f) \/ Close(f) \/ GiveUp(f)
      PROVE  UNCHANGED ledger
  BY <1>3 DEF Continue, Close, GiveUp, Reconcile, Prepare, Send, HandleResult, HandleLoss,
              HandleRefusal, HandleExpiry, Release, Refresh, RefreshFails, Poll, SaveIssued,
              ClearWallet, SaveArmed, server
<1>4. CASE Verifier
  <2>1. ASSUME NEW m \in wire,
               LookUp(m) \/ CheckChallenge(m) \/ Reject(m) \/ Refuse(m) \/ Drop(m)
        PROVE  UNCHANGED ledger
    BY <2>1 DEF LookUp, CheckChallenge, Reject, Refuse, Drop, server
  <2>2. ASSUME NEW c, Expire(c) PROVE UNCHANGED ledger
    BY <2>2 DEF Expire
  <2> QED
    BY <1>1, <1>4, <2>1, <2>2, AcceptRefines, SettleRefines DEF Verifier, Abstract!Next
<1> QED
  BY <1>1, <1>2, <1>3, <1>4, ResetRefines DEF Next, vars, Abstract!Next

\* However many pages share the wallet, retry, and send again what a reset has
\* forgotten: what the verifier accepts from them is the ledger of BoundedUse.
THEOREM Implementation == Spec => ImplementsBoundedUse
<1>1. Init => Abstract!Init
  BY Constants DEF Init, Rows, Abstract!Init
<1>2. Spec => []TypeInv
  BY WalletInvariance, PTL DEF WalletInv
<1> QED
  BY <1>1, <1>2, NextRefines, PTL DEF Spec, ImplementsBoundedUse, Abstract!Spec
=============================================================================
