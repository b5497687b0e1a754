---------------------------- MODULE EngineProofs ----------------------------
(***************************************************************************)
(* Theorems about Engine, for every DAG, every number of concurrent        *)
(* transactions and every bound.                                           *)
(*                                                                         *)
(* The argument.  Every query is guarded by the status it expects, so it   *)
(* keeps what is final and what is leased (Keeps).  A pass may work on a   *)
(* stale view, but a step that was COMPLETED when it was read still is,    *)
(* and a dispatch only asks for COMPLETED dependencies.  The one update    *)
(* with no guard of its own at commit, CompleteTaskAttempt, is safe        *)
(* because its row lock holds off the reaper and a second report.          *)
(***************************************************************************)
EXTENDS Engine, ReconcileProofs

\* Before CreateRun commits there are no rows, and nobody works on them.
Fresh == db.run = "NONE" => db = NoRun /\ \A t \in Txs : tx[t] = Idle

\* The inductive invariant.  DependenciesCompleted needs ViewsSound for the passes
\* of the recovery sweep; TerminalIsFinal needs ReportHoldsLease for CommitResult,
\* which overwrites its attempt unconditionally; both need Fresh for CreateRun.
IInv == TypeOK /\ DependenciesCompleted /\ ViewsSound /\ ReportHoldsLease /\ Fresh

\* The fields a request has, by its operation.
LEMMA RequestFields ==
  ASSUME NEW q \in Request
  PROVE  /\ q.op \in {"claim", "claimed", "reaped", "result", "expired", "timer"} => q.s \in Steps
         /\ q.op \in {"claim", "claimed", "reaped", "result", "expired"} => q.n \in Nat
         /\ q.op \in {"result", "expired", "timer"} => q.run \in RunStatus /\ q.count \in Nat
         /\ q.op = "result" => q.success \in BOOLEAN
         /\ q.op = "timer" => q.due \in BOOLEAN
         /\ q.op = "signal" => q.name \in SignalNames /\ q.run \in RunStatus
         /\ q.op = "cancel" => q.step \in [Steps -> StepStatus]
         /\ q.op = "reconcile" => /\ q.run \in RunStatus /\ q.count \in [Steps -> Nat]
                                  /\ q.step \in [Steps -> StepStatus]
  BY DEF Request

\* handleAttemptOutcome: the step is moved by its guard and the pass reads it afterwards.
LEMMA OutcomeLemma ==
  ASSUME NEW d \in Database, NEW s \in Steps, NEW success \in BOOLEAN, NEW r, NEW made \in Nat,
         DepsDone(d), NEW o \in handleAttemptOutcome(d, s, success, r, made)
  PROVE  o.db \in Database /\ DepsDone(o.db) /\ Keeps(d, o.db)
<1>. DEFINE e == settled(d, s, success, made < MaxAttempts[s], InFlight)
<1>1. InFlight \in SUBSET (Started \ StepTerminal) /\ {"COMPLETED", "RETRY_BACKOFF", "FAILED"} \in SUBSET StepStatus
  BY DEF InFlight, Started, StepStatus, Undispatched, StepTerminal
<1>2. e \in Database /\ DepsDone(e) /\ Keeps(d, e)
  <2>1. CASE success
    BY <2>1, <1>1, MoveStarted DEF settled
  <2>2. CASE ~success /\ made < MaxAttempts[s]
    <3>1. InsertTimer(d, s) \in Database /\ DepsDone(InsertTimer(d, s)) /\ Keeps(d, InsertTimer(d, s))
      BY InsertTimerType DEF DepsDone
    <3>2. LET f == UpdateStepStatus(InsertTimer(d, s), {s}, AnyOf(InFlight), "RETRY_BACKOFF")
          IN  f \in Database /\ DepsDone(f) /\ Keeps(InsertTimer(d, s), f)
      BY <3>1, <1>1, MoveStarted
    <3>. QED  BY <2>2, <3>1, <3>2, KeepsTransitive DEF settled
  <2>3. CASE ~success /\ ~(made < MaxAttempts[s])
    BY <2>3, <1>1, MoveStarted DEF settled
  <2>. QED  BY <2>1, <2>2, <2>3
<1>3. o \in reconcileTx(e, r, e.step, e.count)
  BY DEF handleAttemptOutcome
<1>. HIDE DEF e
<1>4. e.step \in [Steps -> StepStatus] /\ e.count \in [Steps -> Nat] /\ SeesCompleted(e, e.step)
  BY <1>2 DEF Database, SeesCompleted
<1>5. o.db \in Database /\ DepsDone(o.db) /\ Keeps(e, o.db)
  BY <1>2, <1>3, <1>4, ReconcileTxLemma
<1>. QED  BY <1>2, <1>5, KeepsTransitive

\* The attempt is leased in d.
Leased(d, s, n) == n \in DOMAIN d.att[s] /\ d.att[s][n] = "LEASED"

\* The leases that reports other than t hold are still there in e.
OthersLeased(e, t) ==
  \A u \in Txs \ {t} : tx[u].op = "result" => Leased(e, tx[u].s, tx[u].n)

\* How every step but CreateRun preserves IInv: from facts about the new database
\* and the one slot that changed.
LEMMA Preserve ==
  ASSUME IInv, NEW t \in Txs, NEW q \in Request, tx' = [tx EXCEPT ![t] = q], faults' \in Nat,
         db' \in Database, db'.run # "NONE", DepsDone(db'), Final(db, db'), OthersLeased(db', t),
         q.op = "reconcile" => SeesCompleted(db', q.step),
         q.op = "result" => /\ Leased(db', q.s, q.n)
                            /\ \A u \in Txs \ {t} : tx[u].op = "result" =>
                                 <<tx[u].s, tx[u].n>> # <<q.s, q.n>>
  PROVE  IInv'
<1>1. tx \in [Txs -> Request]
  BY DEF IInv, TypeOK
<1>2. /\ tx'[t] = q
      /\ \A u \in Txs \ {t} : tx'[u] = tx[u]
  BY <1>1
<1>3. TypeOK'
  BY <1>1 DEF TypeOK
<1>4. DependenciesCompleted'
  BY DEF DependenciesCompleted, DepsDone
<1>5. ViewsSound'
  <2>1. SUFFICES ASSUME NEW u \in Txs, tx'[u].op = "reconcile", NEW s \in Steps,
                        tx'[u].step[s] = "COMPLETED"
                 PROVE  db'.step[s] = "COMPLETED"
    BY DEF ViewsSound
  <2>2. CASE u = t
    BY <2>1, <2>2, <1>2 DEF SeesCompleted
  <2>3. CASE u # t
    <3>1. db.step[s] = "COMPLETED"
      BY <2>1, <2>3, <1>2 DEF IInv, ViewsSound
    <3>. QED  BY <3>1 DEF Final, StepTerminal
  <2>. QED  BY <2>2, <2>3
<1>6. ReportHoldsLease'
  <2>1. SUFFICES ASSUME NEW u \in Txs, tx'[u].op = "result"
                 PROVE  /\ Leased(db', tx'[u].s, tx'[u].n)
                        /\ \A w \in Txs \ {u} : tx'[w].op = "result" =>
                             <<tx'[w].s, tx'[w].n>> # <<tx'[u].s, tx'[u].n>>
    BY DEF ReportHoldsLease, Attempt, Leased
  <2>2. CASE u = t
    BY <2>1, <2>2, <1>2
  <2>3. CASE u # t
    <3>1. Leased(db', tx'[u].s, tx'[u].n)
      BY <2>1, <2>3, <1>2 DEF OthersLeased
    <3>2. ASSUME NEW w \in Txs \ {u}, tx'[w].op = "result"
          PROVE  <<tx'[w].s, tx'[w].n>> # <<tx'[u].s, tx'[u].n>>
      <4>1. CASE w = t
        BY <2>1, <2>3, <3>2, <4>1, <1>2
      <4>2. CASE w # t
        BY <2>1, <2>3, <3>2, <4>2, <1>2 DEF IInv, ReportHoldsLease
      <4>. QED  BY <4>1, <4>2
    <3>. QED  BY <3>1, <3>2
  <2>. QED  BY <2>2, <2>3
<1>. QED  BY <1>3, <1>4, <1>5, <1>6 DEF IInv, Fresh

\* Keeping everything keeps the leases that reports hold.
LEMMA KeepsLeases ==
  ASSUME IInv, NEW t \in Txs, NEW e, Keeps(db, e)
  PROVE  OthersLeased(e, t)
<1>1. \A u \in Txs : tx[u].op = "result" => tx[u].s \in Steps /\ Leased(db, tx[u].s, tx[u].n)
  BY RequestFields DEF IInv, TypeOK, ReportHoldsLease, Attempt, Leased
<1>. QED  BY <1>1 DEF OthersLeased, Leased, Keeps

\* An idle slot holds a request of its own kind.
LEMMA IdleRequest == Idle \in Request /\ Idle.op = "idle"
  BY DEF Idle, Request

\* A transaction that ends, committed or rolled back, from facts about its outcome.
LEMMA CommitStep ==
  ASSUME IInv, NEW t \in Txs, NEW o, Commit(t, o), db.run # "NONE", o.db.run # "NONE",
         o.db \in Database, DepsDone(o.db), Final(db, o.db), OthersLeased(o.db, t)
  PROVE  IInv' /\ Final(db, db')
<1>1. faults' \in Nat /\ db \in Database /\ DepsDone(db)
  BY DEF IInv, TypeOK, Commit, DependenciesCompleted, DepsDone
<1>2. tx' = [tx EXCEPT ![t] = Idle] /\ (db' = o.db \/ db' = db)
  BY DEF Commit
<1>3. Final(db, db) /\ OthersLeased(db, t)
  BY KeepsReflexive, KeepsFinal, KeepsLeases
<1>4. db' \in Database /\ db'.run # "NONE" /\ DepsDone(db') /\ Final(db, db') /\ OthersLeased(db', t)
  BY <1>1, <1>2, <1>3
<1>. QED  BY <1>1, <1>2, <1>4, IdleRequest, Preserve

\* The consequences of IInv that the steps use.
LEMMA InvFacts ==
  ASSUME IInv
  PROVE  /\ db \in Database /\ DepsDone(db) /\ tx \in [Txs -> Request] /\ faults \in Nat
         /\ db.step \in [Steps -> StepStatus] /\ db.count \in [Steps -> Nat]
         /\ db.run \in RunStatus /\ SeesCompleted(db, db.step)
         /\ \A s \in Steps : db.att[s] \in Seq(AttemptStatus) /\ DOMAIN db.att[s] \in SUBSET Nat
  BY DEF IInv, TypeOK, DependenciesCompleted, DepsDone, Database, SeesCompleted
----------------------------------------------------------------------------
\* A request begins or moves on without touching the database.
LEMMA ReadStep ==
  ASSUME IInv, NEW t \in Txs, NEW q \in Request, tx' = [tx EXCEPT ![t] = q],
         db.run # "NONE", UNCHANGED db, UNCHANGED faults, q.op # "result",
         q.op = "reconcile" => q.step = db.step
  PROVE  IInv' /\ Final(db, db')
<1>1. Final(db, db) /\ OthersLeased(db, t)
  BY KeepsReflexive, KeepsFinal, KeepsLeases
<1>2. /\ db' \in Database /\ db'.run # "NONE" /\ DepsDone(db') /\ Final(db, db')
      /\ OthersLeased(db', t) /\ faults' \in Nat
  BY <1>1, InvFacts
<1>3. q.op = "reconcile" => SeesCompleted(db', q.step)
  BY InvFacts
<1>. QED  BY <1>2, <1>3, Preserve

\* CreateRun preserves IInv: a pass over fresh rows, with a view equal to them.
LEMMA CreateRunStep ==
  ASSUME IInv, CreateRun
  PROVE  IInv' /\ Final(db, db')
<1>1. PICK o \in reconcileTx(NewRun, NewRun.run, NewRun.step, NewRun.count) : db' = o.db
  BY DEF CreateRun
<1>2. NewRun \in Database
  BY DEF NewRun, Database, RunStatus, RunLive, StepStatus, Undispatched
<1>3. DepsDone(NewRun) /\ SeesCompleted(NewRun, NewRun.step)
  BY DEF NewRun, DepsDone, SeesCompleted, Started, Undispatched
<1>4. NewRun.step \in [Steps -> StepStatus] /\ NewRun.count \in [Steps -> Nat]
  BY <1>2 DEF Database
<1>5. db' \in Database /\ DepsDone(db') /\ Keeps(NewRun, db')
  BY <1>1, <1>2, <1>3, <1>4, ReconcileTxLemma
<1>6. db = NoRun /\ \A t \in Txs : tx[t] = Idle
  BY DEF CreateRun, IInv, Fresh
<1>7. Final(db, db')
  BY <1>6 DEF Final, NoRun, NewRun, RunTerminal, StepTerminal
<1>8. \A t \in Txs : tx'[t].op = "idle"
  BY <1>6 DEF CreateRun, Idle
<1>9. TypeOK' /\ DependenciesCompleted'
  BY <1>5, InvFacts DEF CreateRun, TypeOK, DependenciesCompleted, DepsDone
<1>10. db'.run # "NONE"
  <2>1. NewRun.run # "NONE"
    BY DEF NewRun
  <2>. QED  BY <1>5, <2>1 DEF Keeps
<1>. QED  BY <1>7, <1>8, <1>9, <1>10 DEF IInv, ViewsSound, ReportHoldsLease, Fresh

\* Some attempt exists, or some request is in progress: the run was created.
LEMMA Created ==
  ASSUME IInv
  PROVE  /\ \A t \in Txs : tx[t].op # "idle" => db.run # "NONE"
         /\ \A s \in Steps : \A n \in DOMAIN db.att[s] : db.run # "NONE"
         /\ \A s \in Steps, t \in Txs : TimerFree(t, s) => db.run # "NONE"
<1>1. \A t \in Txs : tx[t].op # "idle" => db.run # "NONE"
  BY DEF IInv, Fresh, Idle
<1>2. \A s \in Steps : \A n \in DOMAIN db.att[s] : db.run # "NONE"
  BY DEF IInv, Fresh, NoRun, NewRun
<1>3. ASSUME NEW s \in Steps, NEW t \in Txs, db.run = "NONE"
      PROVE  ~TimerFree(t, s)
  <2>1. db.timer[s] = 0
    BY <1>3 DEF IInv, Fresh, NoRun, NewRun
  <2>. QED  BY <2>1 DEF TimerFree
<1>. QED  BY <1>1, <1>2, <1>3

\* ClaimTask preserves IInv: the row it leases was QUEUED, so no report holds it.
LEMMA ClaimTaskStep ==
  ASSUME IInv, NEW t \in Txs, NEW s \in Steps, ClaimTask(t, s)
  PROVE  IInv' /\ Final(db, db')
<1>1. PICK n \in DOMAIN db.att[s] :
        /\ Attempt(s, n, "QUEUED") /\ db' = ClaimTaskAttempt(db, s, n)
        /\ Begin(t, [op |-> "claim", s |-> s, n |-> n])
  BY DEF ClaimTask
<1>2. db' = SetAttempt(db, s, n, "LEASED")
  BY <1>1, InvFacts DEF ClaimTaskAttempt, SetAttempt, Database
<1>3. /\ db' \in Database /\ db'.run = db.run /\ db'.step = db.step
      /\ \A q \in Steps : /\ DOMAIN db'.att[q] = DOMAIN db.att[q]
                          /\ \A m \in DOMAIN db.att[q] : db'.att[q][m]
                               = IF q = s /\ m = n THEN "LEASED" ELSE db.att[q][m]
  BY <1>2, InvFacts, SetAttemptType DEF AttemptStatus
<1>4. Keeps(db, db')
  BY <1>1, <1>3 DEF Keeps, Settled, Attempt
<1>5. DepsDone(db') /\ db'.run # "NONE" /\ Final(db, db') /\ OthersLeased(db', t)
  BY <1>3, <1>4, InvFacts, Created, KeepsFinal, KeepsLeases DEF DepsDone
<1>6. [op |-> "claim", s |-> s, n |-> n] \in Request /\ n \in Nat
  BY InvFacts DEF Request
<1>7. tx' = [tx EXCEPT ![t] = [op |-> "claim", s |-> s, n |-> n]] /\ faults' \in Nat
  BY <1>1, InvFacts DEF Begin
<1>. QED  BY <1>3, <1>5, <1>6, <1>7, Preserve

\* ClaimCheck preserves IInv: it only reads.
LEMMA ClaimCheckStep ==
  ASSUME IInv, NEW t \in Txs, ClaimCheck(t)
  PROVE  IInv' /\ Final(db, db')
<1>. DEFINE q == IF db.run = "CANCELLED" THEN Idle
                 ELSE [op |-> "claimed", s |-> tx[t].s, n |-> tx[t].n]
<1>1. tx[t] \in Request /\ tx[t].op = "claim" /\ tx[t].s \in Steps /\ tx[t].n \in Nat
  BY InvFacts, RequestFields DEF ClaimCheck
<1>2. q \in Request /\ q.op \in {"idle", "claimed"}
  BY <1>1 DEF Request, Idle
<1>3. tx' = [tx EXCEPT ![t] = q] /\ UNCHANGED db /\ UNCHANGED faults
  BY DEF ClaimCheck
<1>. HIDE DEF q
<1>. QED  BY <1>1, <1>2, <1>3, Created, ReadStep

\* ClaimReply preserves IInv: it moves a QUEUED step, which is started.
LEMMA ClaimReplyStep ==
  ASSUME IInv, NEW t \in Txs, ClaimReply(t)
  PROVE  IInv' /\ Final(db, db')
<1>1. tx[t] \in Request /\ tx[t].op = "claimed" /\ tx[t].s \in Steps
  BY InvFacts, RequestFields DEF ClaimReply
<1>2. {"QUEUED"} \in SUBSET (Started \ StepTerminal) /\ "RUNNING" \in StepStatus
  BY DEF Started, StepStatus, InFlight, Undispatched, StepTerminal
<1>3. db' \in Database /\ DepsDone(db') /\ Keeps(db, db')
  BY <1>1, <1>2, InvFacts, MoveStarted DEF ClaimReply
<1>4. db'.run # "NONE" /\ Final(db, db') /\ OthersLeased(db', t)
  BY <1>1, <1>3, Created, KeepsFinal, KeepsLeases DEF Keeps
<1>5. tx' = [tx EXCEPT ![t] = Idle] /\ faults' \in Nat
  BY InvFacts DEF ClaimReply
<1>. QED  BY <1>3, <1>4, <1>5, IdleRequest, Preserve

\* ReportResult preserves IInv: the row it locks is LEASED and nobody else's.
LEMMA ReportResultStep ==
  ASSUME IInv, NEW t \in Txs, NEW s \in Steps, NEW success \in BOOLEAN, ReportResult(t, s, success)
  PROVE  IInv' /\ Final(db, db')
<1>1. PICK n \in DOMAIN db.att[s] :
        /\ Attempt(s, n, "LEASED") /\ ~Reporting(s, n)
        /\ Begin(t, [op |-> "result", s |-> s, n |-> n, success |-> success,
                     run |-> db.run, count |-> db.count[s]])
  BY DEF ReportResult
<1>. DEFINE q == [op |-> "result", s |-> s, n |-> n, success |-> success,
                  run |-> db.run, count |-> db.count[s]]
<1>2. q \in Request /\ q.op = "result" /\ q.s = s /\ q.n = n
  BY InvFacts DEF Request
<1>3. tx' = [tx EXCEPT ![t] = q] /\ db' = db /\ faults' \in Nat
  BY <1>1, InvFacts DEF Begin, ReportResult
<1>. HIDE DEF q
<1>4. Leased(db, s, n) /\ \A u \in Txs \ {t} : tx[u].op = "result" => <<tx[u].s, tx[u].n>> # <<s, n>>
  BY <1>1 DEF Leased, Attempt, Reporting
<1>5. Final(db, db) /\ OthersLeased(db, t) /\ db.run # "NONE"
  BY KeepsReflexive, KeepsFinal, KeepsLeases, Created
<1>6. /\ db' \in Database /\ db'.run # "NONE" /\ DepsDone(db') /\ Final(db, db')
      /\ OthersLeased(db', t) /\ Leased(db', q.s, q.n)
  BY <1>2, <1>3, <1>4, <1>5, InvFacts
<1>. QED  BY <1>2, <1>3, <1>4, <1>6, Preserve

\* ReapExpired preserves IInv: SKIP LOCKED keeps it off the rows being reported.
LEMMA ReapExpiredStep ==
  ASSUME IInv, NEW t \in Txs, NEW s \in Steps, ReapExpired(t, s)
  PROVE  IInv' /\ Final(db, db')
<1>1. PICK n \in DOMAIN db.att[s] :
        /\ Attempt(s, n, "LEASED") /\ ~Reporting(s, n) /\ db' = ReapExpiredAttempt(db, s, n)
        /\ Begin(t, [op |-> "reaped", s |-> s, n |-> n])
  BY DEF ReapExpired
<1>2. db' = SetAttempt(db, s, n, "EXPIRED")
  BY <1>1, InvFacts DEF ReapExpiredAttempt, SetAttempt, Database
<1>3. /\ db' \in Database /\ db'.run = db.run /\ db'.step = db.step
      /\ \A q \in Steps : /\ DOMAIN db'.att[q] = DOMAIN db.att[q]
                          /\ \A m \in DOMAIN db.att[q] : db'.att[q][m]
                               = IF q = s /\ m = n THEN "EXPIRED" ELSE db.att[q][m]
  BY <1>2, InvFacts, SetAttemptType DEF AttemptStatus
<1>4. Final(db, db')
  BY <1>1, <1>3 DEF Final, Settled, Attempt
<1>5. OthersLeased(db', t)
  <2>1. SUFFICES ASSUME NEW u \in Txs, tx[u].op = "result" PROVE Leased(db', tx[u].s, tx[u].n)
    BY DEF OthersLeased
  <2>2. tx[u].s \in Steps /\ Leased(db, tx[u].s, tx[u].n)
    BY <2>1, InvFacts, RequestFields DEF IInv, ReportHoldsLease, Attempt, Leased
  <2>3. ~(tx[u].s = s /\ tx[u].n = n)
    BY <1>1, <2>1 DEF Reporting
  <2>. QED  BY <1>3, <2>2, <2>3 DEF Leased
<1>6. DepsDone(db') /\ db'.run # "NONE"
  BY <1>3, InvFacts, Created DEF DepsDone
<1>7. [op |-> "reaped", s |-> s, n |-> n] \in Request
  BY InvFacts DEF Request
<1>8. tx' = [tx EXCEPT ![t] = [op |-> "reaped", s |-> s, n |-> n]] /\ faults' \in Nat
  BY <1>1, InvFacts DEF Begin
<1>. QED  BY <1>3, <1>4, <1>5, <1>6, <1>7, <1>8, Preserve

\* ReadExpired preserves IInv: it only reads.
LEMMA ReadExpiredStep ==
  ASSUME IInv, NEW t \in Txs, ReadExpired(t)
  PROVE  IInv' /\ Final(db, db')
<1>. DEFINE q == [op |-> "expired", s |-> tx[t].s, n |-> tx[t].n,
                  run |-> db.run, count |-> db.count[tx[t].s]]
<1>1. tx[t] \in Request /\ tx[t].op = "reaped" /\ tx[t].s \in Steps /\ tx[t].n \in Nat
  BY InvFacts, RequestFields DEF ReadExpired
<1>2. q \in Request /\ q.op = "expired"
  BY <1>1, InvFacts DEF Request
<1>3. tx' = [tx EXCEPT ![t] = q] /\ UNCHANGED db /\ UNCHANGED faults
  BY DEF ReadExpired
<1>. HIDE DEF q
<1>. QED  BY <1>1, <1>2, <1>3, Created, ReadStep

\* FireTimer preserves IInv: what it writes is not committed yet.
LEMMA FireTimerStep ==
  ASSUME IInv, NEW t \in Txs, NEW s \in Steps, FireTimer(t, s)
  PROVE  IInv' /\ Final(db, db')
<1>. DEFINE q == [op |-> "timer", s |-> s,
                  due |-> db.step[s] = "RETRY_BACKOFF" /\ db.run \notin RunTerminal,
                  run |-> db.run, count |-> db.count[s]]
<1>1. q \in Request /\ q.op = "timer"
  BY InvFacts DEF Request
<1>2. tx' = [tx EXCEPT ![t] = q] /\ UNCHANGED db /\ UNCHANGED faults /\ db.run # "NONE"
  BY Created DEF FireTimer, Begin
<1>. HIDE DEF q
<1>. QED  BY <1>1, <1>2, ReadStep

\* ApplySignal preserves IInv: what it writes is not committed yet.
LEMMA ApplySignalStep ==
  ASSUME IInv, NEW t \in Txs, NEW n \in SignalNames, ApplySignal(t, n)
  PROVE  IInv' /\ Final(db, db')
<1>. DEFINE q == [op |-> "signal", name |-> n, run |-> db.run]
<1>1. q \in Request /\ q.op = "signal"
  BY InvFacts DEF Request
<1>2. tx' = [tx EXCEPT ![t] = q] /\ UNCHANGED db /\ UNCHANGED faults /\ db.run # "NONE"
  BY DEF ApplySignal, Begin
<1>. HIDE DEF q
<1>. QED  BY <1>1, <1>2, ReadStep

\* CancelRun preserves IInv: it has only read.
LEMMA CancelRunStep ==
  ASSUME IInv, NEW t \in Txs, CancelRun(t)
  PROVE  IInv' /\ Final(db, db')
<1>. DEFINE q == [op |-> "cancel", step |-> db.step]
<1>1. q \in Request /\ q.op = "cancel"
  BY InvFacts DEF Request
<1>2. tx' = [tx EXCEPT ![t] = q] /\ UNCHANGED db /\ UNCHANGED faults /\ db.run # "NONE"
  BY DEF CancelRun, Begin, RunLive
<1>. HIDE DEF q
<1>. QED  BY <1>1, <1>2, ReadStep

\* RecoverShards preserves IInv: a view is sound when it is read.
LEMMA RecoverShardsStep ==
  ASSUME IInv, NEW t \in Txs, RecoverShards(t)
  PROVE  IInv' /\ Final(db, db')
<1>. DEFINE q == [op |-> "reconcile", run |-> db.run, step |-> db.step, count |-> db.count]
<1>1. q \in Request /\ q.op = "reconcile" /\ q.step = db.step
  BY InvFacts DEF Request
<1>2. tx' = [tx EXCEPT ![t] = q] /\ UNCHANGED db /\ UNCHANGED faults /\ db.run # "NONE"
  BY DEF RecoverShards, ListedForShards, Begin, RunLive
<1>. HIDE DEF q
<1>. QED  BY <1>1, <1>2, ReadStep

\* A fault preserves IInv: the rows stay as they were committed.
LEMMA FaultStep ==
  ASSUME IInv, NEW t \in Txs, Fault(t)
  PROVE  IInv' /\ Final(db, db')
<1>1. tx' = [tx EXCEPT ![t] = Idle] /\ db' = db /\ faults' \in Nat
  BY InvFacts DEF Fault
<1>2. db.run # "NONE"
  BY DEF Fault, IInv, Fresh
<1>3. Final(db, db) /\ OthersLeased(db, t)
  BY KeepsReflexive, KeepsFinal, KeepsLeases
<1>4. db' \in Database /\ db'.run # "NONE" /\ DepsDone(db') /\ Final(db, db') /\ OthersLeased(db', t)
  BY <1>1, <1>2, <1>3, InvFacts
<1>. QED  BY <1>1, <1>4, IdleRequest, Preserve

\* A transaction whose outcome keeps everything the database held.
LEMMA KeepingCommit ==
  ASSUME IInv, NEW t \in Txs, tx[t].op # "idle", NEW o, Commit(t, o),
         o.db \in Database, DepsDone(o.db), Keeps(db, o.db)
  PROVE  IInv' /\ Final(db, db')
<1>1. db.run # "NONE"
  BY Created
<1>2. o.db.run # "NONE" /\ Final(db, o.db) /\ OthersLeased(o.db, t)
  BY <1>1, KeepsFinal, KeepsLeases DEF Keeps
<1>. QED  BY <1>1, <1>2, CommitStep

\* CommitResult preserves IInv: its attempt is LEASED, so nothing final is overwritten.
LEMMA CommitResultStep ==
  ASSUME IInv, NEW t \in Txs, CommitResult(t)
  PROVE  IInv' /\ Final(db, db')
<1>. DEFINE s == tx[t].s
            n == tx[t].n
            k == IF tx[t].success THEN "SUCCEEDED" ELSE "FAILED"
            d == CompleteTaskAttempt(db, s, n, tx[t].success)
<1>1. /\ tx[t] \in Request /\ tx[t].op = "result" /\ s \in Steps /\ n \in Nat
      /\ tx[t].success \in BOOLEAN /\ tx[t].count \in Nat
  BY InvFacts, RequestFields DEF CommitResult
<1>2. PICK o \in handleAttemptOutcome(d, s, tx[t].success, tx[t].run, tx[t].count) : Commit(t, o)
  BY DEF CommitResult
<1>3. /\ Leased(db, s, n)
      /\ \A u \in Txs \ {t} : tx[u].op = "result" =>
           /\ Leased(db, tx[u].s, tx[u].n) /\ tx[u].s \in Steps
           /\ <<tx[u].s, tx[u].n>> # <<s, n>>
  BY <1>1, InvFacts, RequestFields DEF IInv, ReportHoldsLease, Leased, Attempt
<1>4. d = SetAttempt(db, s, n, k)
  BY <1>1, InvFacts DEF CompleteTaskAttempt, SetAttempt, Database
<1>5. k \in AttemptStatus /\ n \in DOMAIN db.att[s]
  BY <1>3 DEF AttemptStatus, Leased
<1>. HIDE DEF k
<1>. HIDE DEF d, s, n
<1>6. /\ d \in Database /\ d.run = db.run /\ d.step = db.step
      /\ \A q \in Steps : /\ DOMAIN d.att[q] = DOMAIN db.att[q]
                          /\ \A m \in DOMAIN db.att[q] : d.att[q][m]
                               = IF q = s /\ m = n THEN k ELSE db.att[q][m]
  <2>1. db \in Database /\ s \in Steps
    BY <1>1, InvFacts
  <2>. QED  BY <2>1, <1>4, <1>5, SetAttemptType
<1>7. DepsDone(d)
  BY <1>6, InvFacts DEF DepsDone
<1>8. o.db \in Database /\ DepsDone(o.db) /\ Keeps(d, o.db)
  BY <1>1, <1>2, <1>6, <1>7, OutcomeLemma
<1>9. Final(db, o.db)
  BY <1>3, <1>6, <1>8 DEF Final, Keeps, Leased, Settled
<1>10. OthersLeased(o.db, t)
  <2>1. SUFFICES ASSUME NEW u \in Txs \ {t}, tx[u].op = "result"
                 PROVE  Leased(o.db, tx[u].s, tx[u].n)
    BY DEF OthersLeased
  <2>2. Leased(d, tx[u].s, tx[u].n) /\ tx[u].s \in Steps
    BY <2>1, <1>3, <1>6 DEF Leased
  <2>. QED  BY <2>2, <1>8 DEF Leased, Keeps
<1>11. db.run # "NONE" /\ o.db.run # "NONE"
  BY <1>1, <1>6, <1>8, Created DEF Keeps
<1>. QED  BY <1>2, <1>8, <1>9, <1>10, <1>11, CommitStep

\* CommitExpired preserves IInv.
LEMMA CommitExpiredStep ==
  ASSUME IInv, NEW t \in Txs, CommitExpired(t)
  PROVE  IInv' /\ Final(db, db')
<1>1. tx[t] \in Request /\ tx[t].op = "expired" /\ tx[t].s \in Steps /\ tx[t].count \in Nat
  BY InvFacts, RequestFields DEF CommitExpired
<1>2. PICK o \in handleAttemptOutcome(db, tx[t].s, FALSE, tx[t].run, tx[t].count) : Commit(t, o)
  BY DEF CommitExpired
<1>3. o.db \in Database /\ DepsDone(o.db) /\ Keeps(db, o.db)
  BY <1>1, <1>2, InvFacts, OutcomeLemma
<1>. QED  BY <1>1, <1>2, <1>3, KeepingCommit

\* handleRetryTimerFired: the step it dispatches is backing off, hence started.
LEMMA RetryLemma ==
  ASSUME NEW d \in Database, NEW s \in Steps, NEW r, NEW made \in Nat, DepsDone(d),
         NEW o \in handleRetryTimerFired(d, s, r, made)
  PROVE  o.db \in Database /\ DepsDone(o.db) /\ Keeps(d, o.db)
<1>. DEFINE c == [d.count EXCEPT ![s] = made]
            K == AnyOf({"RETRY_BACKOFF"})
            e == dispatchStep(d, {s}, K, c)
<1>1. c \in [Steps -> Nat] /\ K \in [Steps -> SUBSET StepStatus]
  BY ViewTypes DEF Database, StepStatus
<1>2. e \in Database
  BY <1>1, DispatchStepType
<1>3. \A q \in Steps : e.step[q] = IF q \in {s} /\ d.step[q] \in K[q] THEN "QUEUED" ELSE d.step[q]
  BY <1>1, DispatchStepSteps
<1>4. Keeps(d, e)
  <2>1. \A q \in {s} : K[q] \cap StepTerminal = {}
    BY DEF AnyOf, StepTerminal
  <2>. QED  BY <1>1, <2>1, DispatchStepKeeps
<1>5. \A q \in Steps : e.step[q] \in Started => d.step[q] \in Started
  BY <1>3 DEF AnyOf, Started, StepStatus, Undispatched
<1>. HIDE DEF e, K, c
<1>6. DepsDone(e)
  BY <1>4, <1>5, DependsOnAssumption DEF DepsDone, Keeps, StepTerminal
<1>7. o \in reconcileTx(e, r, e.step, e.count) \/ o = [ok |-> FALSE, db |-> d]
  BY DEF handleRetryTimerFired, e, K, c
<1>8. CASE o \in reconcileTx(e, r, e.step, e.count)
  <2>1. e.step \in [Steps -> StepStatus] /\ e.count \in [Steps -> Nat] /\ SeesCompleted(e, e.step)
    BY <1>2 DEF Database, SeesCompleted
  <2>2. o.db \in Database /\ DepsDone(o.db) /\ Keeps(e, o.db)
    BY <1>2, <1>6, <1>8, <2>1, ReconcileTxLemma
  <2>. QED  BY <1>4, <2>2, KeepsTransitive
<1>9. CASE o = [ok |-> FALSE, db |-> d]
  BY <1>9, KeepsReflexive
<1>. QED  BY <1>7, <1>8, <1>9

\* CommitTimer preserves IInv, whether the timer was due or superseded.
LEMMA CommitTimerStep ==
  ASSUME IInv, NEW t \in Txs, CommitTimer(t)
  PROVE  IInv' /\ Final(db, db')
<1>. DEFINE d == FireTimerCAS(db, tx[t].s)
<1>1. tx[t] \in Request /\ tx[t].op = "timer" /\ tx[t].s \in Steps /\ tx[t].count \in Nat
  BY InvFacts, RequestFields DEF CommitTimer
<1>2. PICK o : /\ \/ o \in handleRetryTimerFired(d, tx[t].s, tx[t].run, tx[t].count)
                  \/ o = [ok |-> TRUE, db |-> d]
               /\ Commit(t, o)
  BY DEF CommitTimer
<1>3. d \in Database /\ d.step = db.step /\ Keeps(db, d)
  BY <1>1, InvFacts, FireTimerType
<1>. HIDE DEF d
<1>4. DepsDone(d)
  BY <1>3, InvFacts DEF DepsDone
<1>5. o.db \in Database /\ DepsDone(o.db) /\ Keeps(d, o.db)
  <2>1. CASE o \in handleRetryTimerFired(d, tx[t].s, tx[t].run, tx[t].count)
    BY <2>1, <1>1, <1>3, <1>4, RetryLemma
  <2>2. CASE o = [ok |-> TRUE, db |-> d]
    BY <2>2, <1>3, <1>4, KeepsReflexive
  <2>. QED  BY <1>2, <2>1, <2>2
<1>6. Keeps(db, o.db)
  BY <1>3, <1>5, KeepsTransitive
<1>. QED  BY <1>1, <1>2, <1>5, <1>6, KeepingCommit

\* CommitSignal preserves IInv.
LEMMA CommitSignalStep ==
  ASSUME IInv, NEW t \in Txs, CommitSignal(t)
  PROVE  IInv' /\ Final(db, db')
<1>. DEFINE d == InsertSignal(db, tx[t].name)
<1>1. tx[t] \in Request /\ tx[t].op = "signal" /\ tx[t].name \in SignalNames
  BY InvFacts, RequestFields DEF CommitSignal
<1>2. PICK o \in reconcileTx(d, tx[t].run, d.step, d.count) : Commit(t, o)
  BY DEF CommitSignal
<1>3. d \in Database /\ d.step = db.step /\ Keeps(db, d)
  BY <1>1, InvFacts, InsertSignalType
<1>. HIDE DEF d
<1>4. /\ DepsDone(d) /\ SeesCompleted(d, d.step)
      /\ d.step \in [Steps -> StepStatus] /\ d.count \in [Steps -> Nat]
  BY <1>3, InvFacts DEF DepsDone, SeesCompleted, Database
<1>5. o.db \in Database /\ DepsDone(o.db) /\ Keeps(d, o.db)
  BY <1>2, <1>3, <1>4, ReconcileTxLemma
<1>6. Keeps(db, o.db)
  BY <1>3, <1>5, KeepsTransitive
<1>. QED  BY <1>1, <1>2, <1>5, <1>6, KeepingCommit

\* CancelRun cancels only steps that are open in the database, whatever it read.
LEMMA CancelledLemma ==
  ASSUME NEW d \in Database, NEW v \in [Steps -> StepStatus], DepsDone(d)
  PROVE  LET e == cancelled(d, v)
         IN  e \in Database /\ DepsDone(e) /\ Keeps(d, e)
<1>. DEFINE open == {s \in Steps : v[s] \notin StepTerminal}
            d1 == UpdateStepStatus(d, open, Exactly(v), "CANCELLED")
            d2 == CancelTimersForRun(d1)
            d3 == UpdateWorkflowRunStatus(d2, RunLive, "CANCELLED")
            e == AppendHistory(d3, "CANCELLED")
<1>1. Exactly(v) \in [Steps -> SUBSET StepStatus] /\ "CANCELLED" \in StepStatus
  BY ViewTypes DEF StepStatus, StepTerminal
<1>2. d1 \in Database
  BY <1>1, UpdateStepStatusType
<1>3. \A s \in Steps : d1.step[s] = IF s \in open /\ d.step[s] \in Exactly(v)[s]
                                    THEN "CANCELLED" ELSE d.step[s]
  BY UpdateStepStatusSteps
<1>4. Keeps(d, d1)
  <2>1. \A s \in open : Exactly(v)[s] \cap StepTerminal = {}
    BY DEF Exactly
  <2>. QED  BY <1>1, <2>1, UpdateStepStatusKeeps
<1>5. \A s \in Steps : d1.step[s] \in Started => d.step[s] \in Started
  BY <1>3 DEF Started
<1>. HIDE DEF d1, open
<1>6. DepsDone(d1)
  BY <1>4, <1>5, DependsOnAssumption DEF DepsDone, Keeps, StepTerminal
<1>7. d2 \in Database /\ d2.step = d1.step /\ Keeps(d1, d2)
  BY <1>2, CancelTimersType
<1>. HIDE DEF d2
<1>8. d3 \in Database /\ d3.step = d2.step /\ Keeps(d2, d3)
  <2>1. RunLive \in SUBSET RunStatus /\ RunLive \cap RunTerminal = {} /\ "CANCELLED" \in RunStatus \ {"NONE"}
    BY DEF RunStatus, RunLive, RunTerminal
  <2>. QED  BY <1>7, <2>1, RunStatusType
<1>. HIDE DEF d3
<1>9. e \in Database /\ e.step = d3.step /\ Keeps(d3, e)
  <2>1. Append(d3.ended, "CANCELLED") \in Seq(RunTerminal)
    BY <1>8 DEF Database, RunTerminal
  <2>. QED  BY <1>8, <2>1 DEF AppendHistory, Database, Keeps
<1>10. cancelled(d, v) = e
  BY DEF cancelled, open, d1, d2, d3
<1>. HIDE DEF e
<1>11. Keeps(d, e)
  <2>1. Keeps(d, d2)
    BY <1>4, <1>7, KeepsTransitive
  <2>2. Keeps(d, d3)
    BY <1>8, <2>1, KeepsTransitive
  <2>. QED  BY <1>9, <2>2, KeepsTransitive
<1>12. DepsDone(e)
  BY <1>6, <1>7, <1>8, <1>9 DEF DepsDone
<1>. QED  BY <1>9, <1>10, <1>11, <1>12

\* CommitCancel preserves IInv.
LEMMA CommitCancelStep ==
  ASSUME IInv, NEW t \in Txs, CommitCancel(t)
  PROVE  IInv' /\ Final(db, db')
<1>. DEFINE o == [ok |-> TRUE, db |-> cancelled(db, tx[t].step)]
<1>1. tx[t] \in Request /\ tx[t].op = "cancel" /\ tx[t].step \in [Steps -> StepStatus]
  BY InvFacts, RequestFields DEF CommitCancel
<1>2. o.db \in Database /\ DepsDone(o.db) /\ Keeps(db, o.db)
  BY <1>1, InvFacts, CancelledLemma
<1>3. Commit(t, o)
  BY DEF CommitCancel
<1>. HIDE DEF o
<1>. QED  BY <1>1, <1>2, <1>3, KeepingCommit

\* CommitReconcile preserves IInv: its view is stale but sound.
LEMMA CommitReconcileStep ==
  ASSUME IInv, NEW t \in Txs, CommitReconcile(t)
  PROVE  IInv' /\ Final(db, db')
<1>1. /\ tx[t] \in Request /\ tx[t].op = "reconcile"
      /\ tx[t].step \in [Steps -> StepStatus] /\ tx[t].count \in [Steps -> Nat]
  BY InvFacts, RequestFields DEF CommitReconcile
<1>2. PICK o \in reconcileTx(db, tx[t].run, tx[t].step, tx[t].count) : Commit(t, o)
  BY DEF CommitReconcile
<1>3. SeesCompleted(db, tx[t].step)
  BY <1>1 DEF IInv, ViewsSound, SeesCompleted
<1>4. o.db \in Database /\ DepsDone(o.db) /\ Keeps(db, o.db)
  BY <1>1, <1>2, <1>3, InvFacts, ReconcileTxLemma
<1>. QED  BY <1>1, <1>2, <1>4, KeepingCommit
----------------------------------------------------------------------------
\* The invariant holds before the run exists,
LEMMA InitIInv == Init => IInv
<1>1. SUFFICES ASSUME Init PROVE IInv
  OBVIOUS
<1>2. db = NoRun /\ \A t \in Txs : tx[t] = Idle
  BY <1>1 DEF Init
<1>3. TypeOK
  <2>1. NewRun \in Database
    BY DEF NewRun, Database, RunStatus, RunLive, StepStatus, Undispatched
  <2>2. NoRun \in Database
    BY <2>1 DEF NoRun, Database, RunStatus
  <2>. QED  BY <1>1, <2>2, IdleRequest DEF Init, TypeOK
<1>4. DependenciesCompleted
  BY <1>2 DEF DependenciesCompleted, NoRun, NewRun, Started, Undispatched
<1>5. ViewsSound /\ ReportHoldsLease
  BY <1>2 DEF ViewsSound, ReportHoldsLease, Idle
<1>. QED  BY <1>2, <1>3, <1>4, <1>5 DEF IInv, Fresh

\* and every step preserves it and rewrites nothing final.
LEMMA NextIInv == IInv /\ [Next]_vars => IInv' /\ Final(db, db')
<1>1. SUFFICES ASSUME IInv, [Next]_vars PROVE IInv' /\ Final(db, db')
  OBVIOUS
<1>2. CASE CreateRun
  BY <1>1, <1>2, CreateRunStep
<1>3. ASSUME NEW t \in Txs, NEW s \in Steps, ClaimTask(t, s) PROVE IInv' /\ Final(db, db')
  BY <1>1, <1>3, ClaimTaskStep
<1>4. ASSUME NEW t \in Txs, NEW s \in Steps, NEW success \in BOOLEAN, ReportResult(t, s, success)
      PROVE  IInv' /\ Final(db, db')
  BY <1>1, <1>4, ReportResultStep
<1>5. ASSUME NEW t \in Txs, NEW s \in Steps, ReapExpired(t, s) PROVE IInv' /\ Final(db, db')
  BY <1>1, <1>5, ReapExpiredStep
<1>6. ASSUME NEW t \in Txs, NEW s \in Steps, FireTimer(t, s) PROVE IInv' /\ Final(db, db')
  BY <1>1, <1>6, FireTimerStep
<1>7. ASSUME NEW t \in Txs, NEW n \in SignalNames, ApplySignal(t, n) PROVE IInv' /\ Final(db, db')
  BY <1>1, <1>7, ApplySignalStep
<1>8. ASSUME NEW t \in Txs, CancelRun(t) \/ RecoverShards(t) PROVE IInv' /\ Final(db, db')
  BY <1>1, <1>8, CancelRunStep, RecoverShardsStep
<1>9. ASSUME NEW t \in Txs, ClaimCheck(t) \/ ClaimReply(t) \/ ReadExpired(t) PROVE IInv' /\ Final(db, db')
  BY <1>1, <1>9, ClaimCheckStep, ClaimReplyStep, ReadExpiredStep
<1>10. ASSUME NEW t \in Txs, CommitResult(t) \/ CommitExpired(t) \/ CommitTimer(t)
       PROVE  IInv' /\ Final(db, db')
  BY <1>1, <1>10, CommitResultStep, CommitExpiredStep, CommitTimerStep
<1>11. ASSUME NEW t \in Txs, CommitSignal(t) \/ CommitCancel(t) \/ CommitReconcile(t)
       PROVE  IInv' /\ Final(db, db')
  BY <1>1, <1>11, CommitSignalStep, CommitCancelStep, CommitReconcileStep
<1>12. ASSUME NEW t \in Txs, Fault(t) PROVE IInv' /\ Final(db, db')
  BY <1>1, <1>12, FaultStep
<1>13. CASE UNCHANGED vars
  <2>1. Final(db, db')
    BY <1>13, KeepsReflexive, KeepsFinal DEF vars
  <2>. QED  BY <1>1, <1>13, <2>1 DEF vars, IInv, TypeOK, DependenciesCompleted, ViewsSound,
                                    ReportHoldsLease, Attempt, Fresh
<1>. QED  BY <1>1, <1>2, <1>3, <1>4, <1>5, <1>6, <1>7, <1>8, <1>9, <1>10, <1>11, <1>12, <1>13 DEF Next

\* The inductive invariant holds in every reachable state.
THEOREM Invariance == Spec => []IInv
  BY InitIInv, NextIInv, PTL DEF Spec

\* The committed rows and the requests in progress always have their types: no
\* query of the engine writes a status its table does not know.
THEOREM TypeCorrect == Spec => []TypeOK
  BY Invariance, PTL DEF IInv

\* No interleaving of results, expiries, timers, signals, cancels, recovery passes
\* and crashes dispatches a step before every one of its depends_on is COMPLETED,
\* for every DAG, every number of concurrent transactions and every fault budget.
THEOREM DispatchAfterDependencies == Spec => []DependenciesCompleted
  BY Invariance, PTL DEF IInv

\* A recovery pass that works on statuses read before other transactions committed
\* never takes a step for COMPLETED that is not.
THEOREM StaleViewsSound == Spec => []ViewsSound
  BY Invariance, PTL DEF IInv

\* While a worker's report is in progress its lease cannot be reaped and no second
\* report of the attempt is accepted.
THEOREM LeasesExclusive == Spec => []ReportHoldsLease
  BY Invariance, PTL DEF IInv

\* Whatever was read before, no transaction reopens or rewrites the terminal status
\* of a run, a step or an attempt.
THEOREM ResultsFinal == Spec => TerminalIsFinal
<1>1. IInv /\ [Next]_vars =>
        [/\ db.run \in RunTerminal => db'.run = db.run
         /\ \A s \in Steps :
              /\ db.step[s] \in StepTerminal => db'.step[s] = db.step[s]
              /\ \A n \in DOMAIN db.att[s] :
                   db.att[s][n] \in {"SUCCEEDED", "FAILED", "EXPIRED"} => db'.att[s][n] = db.att[s][n]]_db
  BY NextIInv DEF Final, Settled
<1>. QED  BY <1>1, Invariance, PTL DEF Spec, TerminalIsFinal
=============================================================================
