------------------------------- MODULE Engine -------------------------------
(***************************************************************************)
(* The engine of internal/engine: its entry points as transactions on the  *)
(* rows of one run, interleaved the way Postgres READ COMMITTED allows.    *)
(*                                                                         *)
(* A transaction takes two steps.  The first makes the reads that precede  *)
(* its first lock on the run and keeps what it read in tx[t].  The second  *)
(* makes its remaining statements and commits.  The split is where the     *)
(* code stands: AppendHistory updates the workflow_runs row, so from the   *)
(* first event a transaction records until it commits no other             *)
(* transaction of the run can record one, and the GetSteps that follows    *)
(* sees every committed step.  What was read earlier may be stale by then, *)
(* and only the compare-and-set guards protect it.                         *)
(*                                                                         *)
(* Workers appear as what reaches the server from them: a claim, a report, *)
(* or silence until the lease has expired.                                 *)
(***************************************************************************)
EXTENDS Reconcile

CONSTANTS
  Txs,          \* slots for requests in progress (bound on concurrency)
  MaxSignals,   \* bound on the signals sent with one name
  MaxFaults,    \* bound on server crashes and failed transactions
  MayCancel,    \* whether clients cancel the run
  Sharding,     \* ENABLE_SHARDING: the recovery sweep passes a shard list
  ReaperFaults  \* whether a fault can hit the reaper between its transactions

ASSUME BoundsAssumption == MaxSignals \in Nat /\ MaxFaults \in Nat
ASSUME SwitchAssumption == {MayCancel, Sharding, ReaperFaults} \subseteq BOOLEAN

VARIABLES
  db,      \* the committed database
  tx,      \* the request each slot is working on, with what it has read
  faults   \* number of crashes and failed transactions so far

vars == <<db, tx, faults>>

Idle == [op |-> "idle"]

Request ==
  [op : {"idle"}]
    \cup [op : {"claim", "claimed", "reaped"}, s : Steps, n : Nat]
    \cup [op : {"result"}, s : Steps, n : Nat, success : BOOLEAN, run : RunStatus, count : Nat]
    \cup [op : {"expired"}, s : Steps, n : Nat, run : RunStatus, count : Nat]
    \cup [op : {"timer"}, s : Steps, due : BOOLEAN, run : RunStatus, count : Nat]
    \cup [op : {"signal"}, name : SignalNames, run : RunStatus]
    \cup [op : {"cancel"}, step : [Steps -> StepStatus]]
    \cup [op : {"reconcile"}, run : RunStatus, step : [Steps -> StepStatus],
          count : [Steps -> Nat]]

\* Type invariant.
TypeOK ==
  /\ db \in Database
  /\ tx \in [Txs -> Request]
  /\ faults \in Nat

Init ==
  /\ db = NoRun
  /\ tx = [t \in Txs |-> Idle]
  /\ faults = 0
----------------------------------------------------------------------------
Begin(t, request) ==
  /\ tx[t] = Idle
  /\ tx' = [tx EXCEPT ![t] = request]
  /\ UNCHANGED faults

\* Timer rows that transactions other than t have fired but not committed.
TimersLocked(t, s) ==
  Cardinality({u \in Txs \ {t} : tx[u].op = "timer" /\ tx[u].s = s})

\* Some timer row of s is free for t to lock.
TimerFree(t, s) == TimersLocked(t, s) \in 0 .. db.timer[s] - 1

\* The second half of transaction t: commit outcome o, or roll back.  An UPDATE
\* of a timer row waits for the transaction that holds it.
Commit(t, o) ==
  /\ tx' = [tx EXCEPT ![t] = Idle]
  /\ IF o.ok THEN /\ \A s \in Steps : o.db.timer[s] >= TimersLocked(t, s)
                  /\ db' = o.db
             ELSE UNCHANGED db
  /\ UNCHANGED faults

Attempt(s, n, status) == n \in DOMAIN db.att[s] /\ db.att[s][n] = status

\* The attempt row is being completed by a transaction in progress.
Reporting(s, n) ==
  \E t \in Txs : tx[t].op = "result" /\ tx[t].s = s /\ tx[t].n = n

\* The ClaimTask call that leased the attempt has not returned yet.
Claiming(s, n) ==
  \E t \in Txs : tx[t].op \in {"claim", "claimed"} /\ tx[t].s = s /\ tx[t].n = n
----------------------------------------------------------------------------
\* CreateRun: the run, its steps and the first pass in one transaction, whose
\* rows nobody else can see before it commits.
CreateRun ==
  /\ db.run = "NONE"
  /\ \E o \in reconcileTx(NewRun, NewRun.run, NewRun.step, NewRun.count) : db' = o.db
  /\ UNCHANGED <<tx, faults>>

\* ClaimTask of internal/grpcapi: the claim commits on its own ...
ClaimTask(t, s) ==
  \E n \in DOMAIN db.att[s] :
    /\ Attempt(s, n, "QUEUED")
    /\ db' = ClaimTaskAttempt(db, s, n)
    /\ Begin(t, [op |-> "claim", s |-> s, n |-> n])

\* ... the run is read next, and a cancelled one ends the call ...
ClaimCheck(t) ==
  /\ tx[t].op = "claim"
  /\ tx' = [tx EXCEPT ![t] = IF db.run = "CANCELLED" THEN Idle
                             ELSE [op |-> "claimed", s |-> tx[t].s, n |-> tx[t].n]]
  /\ UNCHANGED <<db, faults>>

\* Mutant: the step is moved to RUNNING from any status.
ClaimReplyUnguarded(t) ==
  /\ tx[t].op = "claimed"
  /\ db' = UpdateStepStatus(db, {tx[t].s}, AnyOf(StepStatus), "RUNNING")
  /\ tx' = [tx EXCEPT ![t] = Idle]
  /\ UNCHANGED faults

\* ... and the step is moved to RUNNING, whichever attempt it is QUEUED for.
ClaimReply(t) ==
  /\ tx[t].op = "claimed"
  /\ db' = UpdateStepStatus(db, {tx[t].s}, AnyOf({"QUEUED"}), "RUNNING")
  /\ tx' = [tx EXCEPT ![t] = Idle]
  /\ UNCHANGED faults

\* Mutant: a report is accepted after the lease has expired.
ReportResultLate(t, s, success) ==
  \E n \in DOMAIN db.att[s] :
    /\ db.att[s][n] \in {"LEASED", "EXPIRED"} /\ ~Reporting(s, n) /\ ~Claiming(s, n)
    /\ Begin(t, [op |-> "result", s |-> s, n |-> n, success |-> success,
                 run |-> db.run, count |-> db.count[s]])
    /\ UNCHANGED db

\* HandleTaskResult up to the reads of handleAttemptOutcome.
ReportResult(t, s, success) ==
  \E n \in DOMAIN db.att[s] :
    /\ Attempt(s, n, "LEASED") /\ ~Reporting(s, n) /\ ~Claiming(s, n)
    /\ Begin(t, [op |-> "result", s |-> s, n |-> n, success |-> success,
                 run |-> db.run, count |-> db.count[s]])
    /\ UNCHANGED db

\* ReapExpiredAttempts commits on its own; the expired rows are then only in
\* the reaper's memory.  FOR UPDATE SKIP LOCKED passes over a row being reported.
ReapExpired(t, s) ==
  \E n \in DOMAIN db.att[s] :
    /\ Attempt(s, n, "LEASED") /\ ~Reporting(s, n)
    /\ db' = ReapExpiredAttempt(db, s, n)
    /\ Begin(t, [op |-> "reaped", s |-> s, n |-> n])

\* The reads of handleAttemptOutcome in the transaction of one expired attempt.
ReadExpired(t) ==
  /\ tx[t].op = "reaped"
  /\ tx' = [tx EXCEPT ![t] = [op |-> "expired", s |-> tx[t].s, n |-> tx[t].n,
                              run |-> db.run, count |-> db.count[tx[t].s]]]
  /\ UNCHANGED <<db, faults>>


\* HandleFiredTimer up to the check of handleRetryTimerFired.
FireTimer(t, s) ==
  /\ TimerFree(t, s)
  /\ Begin(t, [op |-> "timer", s |-> s,
               due |-> db.step[s] = "RETRY_BACKOFF" /\ db.run \notin RunTerminal,
               run |-> db.run, count |-> db.count[s]])
  /\ UNCHANGED db

\* ApplySignal up to AppendHistory.
ApplySignal(t, n) ==
  /\ db.run # "NONE"
  /\ db.sig[n] + db.used[n]
       + Cardinality({u \in Txs : tx[u].op = "signal" /\ tx[u].name = n}) < MaxSignals
  /\ Begin(t, [op |-> "signal", name |-> n, run |-> db.run])
  /\ UNCHANGED db

\* CancelRun up to its first update.
CancelRun(t) ==
  /\ MayCancel
  /\ db.run \in RunLive
  /\ Begin(t, [op |-> "cancel", step |-> db.step])
  /\ UNCHANGED db

\* Mutant: the sweep only lists runs that have not started.
RecoverShardsPending(t) ==
  /\ Sharding
  /\ db.run = "PENDING"
  /\ Begin(t, [op |-> "reconcile", run |-> db.run, step |-> db.step, count |-> db.count])
  /\ UNCHANGED db

\* RecoverShards and the reads of Reconcile for a run it lists.
RecoverShards(t) ==
  /\ ListedForShards(db, Sharding)
  /\ Begin(t, [op |-> "reconcile", run |-> db.run, step |-> db.step, count |-> db.count])
  /\ UNCHANGED db
----------------------------------------------------------------------------
\* What an outcome does to its step; `more' says whether attempts are left.  The
\* timer is inserted whether or not the step still accepts the outcome.
settled(d, s, success, more, from) ==
  IF success   THEN UpdateStepStatus(d, {s}, AnyOf(from), "COMPLETED")
  ELSE IF more THEN UpdateStepStatus(InsertTimer(d, s), {s}, AnyOf(from), "RETRY_BACKOFF")
  ELSE              UpdateStepStatus(d, {s}, AnyOf(from), "FAILED")

\* Mutant: the pass works on the steps as they were before the outcome.
handleAttemptOutcomeStale(d, s, success, r, made) ==
  reconcileTx(settled(d, s, success, made < MaxAttempts[s], InFlight), r, d.step, d.count)

\* Mutant: one attempt too many.
handleAttemptOutcomeExtra(d, s, success, r, made) ==
  LET d1 == settled(d, s, success, made <= MaxAttempts[s], InFlight)
  IN  reconcileTx(d1, r, d1.step, d1.count)

\* Mutant: one attempt too few.
handleAttemptOutcomeEarly(d, s, success, r, made) ==
  LET d1 == settled(d, s, success, made + 1 < MaxAttempts[s], InFlight)
  IN  reconcileTx(d1, r, d1.step, d1.count)

\* Mutant: only a RUNNING step accepts an outcome.
handleAttemptOutcomeRunning(d, s, success, r, made) ==
  LET d1 == settled(d, s, success, made < MaxAttempts[s], {"RUNNING"})
  IN  reconcileTx(d1, r, d1.step, d1.count)

\* handleAttemptOutcome, with the steps read after its own update.
handleAttemptOutcome(d, s, success, r, made) ==
  LET d1 == settled(d, s, success, made < MaxAttempts[s], InFlight)
  IN  reconcileTx(d1, r, d1.step, d1.count)

CommitResult(t) ==
  /\ tx[t].op = "result"
  /\ \E o \in handleAttemptOutcome(CompleteTaskAttempt(db, tx[t].s, tx[t].n, tx[t].success),
                                   tx[t].s, tx[t].success, tx[t].run, tx[t].count) :
       Commit(t, o)

CommitExpired(t) ==
  /\ tx[t].op = "expired"
  /\ \E o \in handleAttemptOutcome(db, tx[t].s, FALSE, tx[t].run, tx[t].count) : Commit(t, o)

\* The rest of handleRetryTimerFired: dispatch the next attempt, then a pass.
handleRetryTimerFired(d, s, r, made) ==
  LET c  == [d.count EXCEPT ![s] = made]
      d1 == dispatchStep(d, {s}, AnyOf({"RETRY_BACKOFF"}), c)
  IN  IF CanDispatch(d, {s}, AnyOf({"RETRY_BACKOFF"}), c)
      THEN reconcileTx(d1, r, d1.step, d1.count)
      ELSE {[ok |-> FALSE, db |-> d]}

CommitTimer(t) ==
  /\ tx[t].op = "timer"
  /\ LET d == FireTimerCAS(db, tx[t].s)
     IN  \E o \in IF tx[t].due THEN handleRetryTimerFired(d, tx[t].s, tx[t].run, tx[t].count)
                  ELSE {[ok |-> TRUE, db |-> d]} :
           Commit(t, o)

CommitSignal(t) ==
  /\ tx[t].op = "signal"
  /\ LET d == InsertSignal(db, tx[t].name)
     IN  \E o \in reconcileTx(d, tx[t].run, d.step, d.count) : Commit(t, o)

\* The rest of CancelRun; the result of every guarded update is ignored.
cancelled(d, v) ==
  LET open == {s \in Steps : v[s] \notin StepTerminal}
      d1   == CancelTimersForRun(UpdateStepStatus(d, open, Exactly(v), "CANCELLED"))
  IN  AppendHistory(UpdateWorkflowRunStatus(d1, RunLive, "CANCELLED"), "CANCELLED")

CommitCancel(t) ==
  /\ tx[t].op = "cancel"
  /\ Commit(t, [ok |-> TRUE, db |-> cancelled(db, tx[t].step)])

CommitReconcile(t) ==
  /\ tx[t].op = "reconcile"
  /\ \E o \in reconcileTx(db, tx[t].run, tx[t].step, tx[t].count) : Commit(t, o)

\* The server dies, the connection fails, or Postgres picks the transaction as a
\* deadlock victim: what it has not committed is gone, and nobody resumes it.
Fault(t) ==
  /\ tx[t] # Idle
  /\ faults < MaxFaults
  /\ tx[t].op \in {"reaped", "expired"} => ReaperFaults
  /\ tx' = [tx EXCEPT ![t] = Idle]
  /\ faults' = faults + 1
  /\ UNCHANGED db
----------------------------------------------------------------------------
Next ==
  \/ CreateRun
  \/ \E t \in Txs :
       \/ \E s \in Steps : \/ ClaimTask(t, s)
                           \/ \E success \in BOOLEAN : ReportResult(t, s, success)
                           \/ ReapExpired(t, s)
                           \/ FireTimer(t, s)
       \/ \E n \in SignalNames : ApplySignal(t, n)
       \/ CancelRun(t) \/ RecoverShards(t)
       \/ ClaimCheck(t) \/ ClaimReply(t) \/ ReadExpired(t)
       \/ CommitResult(t) \/ CommitExpired(t) \/ CommitTimer(t)
       \/ CommitSignal(t) \/ CommitCancel(t) \/ CommitReconcile(t)
       \/ Fault(t)

Spec == Init /\ [][Next]_vars

(***************************************************************************)
(* Fairness.  A request in progress goes on; commits only wait for timer   *)
(* rows that other requests hold and release.  Published attempts are      *)
(* claimed, every lease is reported or expires, and the poller and the     *)
(* sweep tick forever.  The starts are strongly fair because slots are a   *)
(* bound of the model: a goroutine of the server never waits for one.      *)
(* Clients owe nothing: CancelRun, ApplySignal and CreateRun are not fair. *)
(***************************************************************************)
Proceed(t) ==
  \/ ClaimCheck(t) \/ ClaimReply(t) \/ ReadExpired(t)
  \/ CommitResult(t) \/ CommitExpired(t) \/ CommitTimer(t)
  \/ CommitSignal(t) \/ CommitCancel(t) \/ CommitReconcile(t)

FairSpec ==
  /\ Spec
  /\ \A t \in Txs : WF_vars(Proceed(t))
  /\ \A s \in Steps \ SignalSteps : /\ SF_vars(\E t \in Txs : ClaimTask(t, s))
                                    /\ SF_vars(\E t \in Txs : ReapExpired(t, s))
                                    /\ SF_vars(\E t \in Txs : FireTimer(t, s))
  /\ SF_vars(\E t \in Txs : RecoverShards(t))
----------------------------------------------------------------------------
\* A step that has been dispatched, is waiting or has a result has all its
\* dependencies COMPLETED, whatever stale view the dispatching pass worked on.
DependenciesCompleted ==
  \A s \in Steps : db.step[s] \in Started =>
    \A p \in DependsOn[s] : db.step[p] = "COMPLETED"

\* A recovery pass may work on statuses that have changed since it read them, but
\* it never takes a step for COMPLETED that is not.
ViewsSound ==
  \A t \in Txs : tx[t].op = "reconcile" =>
    \A s \in Steps : tx[t].step[s] = "COMPLETED" => db.step[s] = "COMPLETED"

\* A report in progress holds a lease that has not expired, and no two reports
\* hold the same one: the reaper and a duplicate report keep off its row.
ReportHoldsLease ==
  \A t \in Txs : tx[t].op = "result" =>
    /\ Attempt(tx[t].s, tx[t].n, "LEASED")
    /\ \A u \in Txs \ {t} : tx[u].op = "result" =>
         <<tx[u].s, tx[u].n>> # <<tx[t].s, tx[t].n>>

\* In a live run no step sits undispatched with all its dependencies COMPLETED:
\* of concurrent reports for the branches of a fan-in, one dispatches the join.
ReadyIsDispatched ==
  db.run \in RunLive =>
    \A s \in Steps : db.step[s] \in Undispatched =>
      \E p \in DependsOn[s] : db.step[p] # "COMPLETED"

\* In a live run no step sits undispatched behind a failed or skipped dependency.
BlockedIsSkipped ==
  db.run \in RunLive =>
    \A s \in Steps : db.step[s] \in Undispatched =>
      \A p \in DependsOn[s] : db.step[p] \notin Dead

\* A step never has two attempts open, nor more than max_attempts: attempt n + 1
\* exists only after attempt n failed or expired, and attempt_count counts them.
AttemptsInSequence ==
  \A s \in Steps :
    /\ Len(db.att[s]) = db.count[s] /\ db.count[s] <= MaxAttempts[s]
    /\ \A n \in DOMAIN db.att[s] : n < Len(db.att[s]) => db.att[s][n] \in {"FAILED", "EXPIRED"}

Last(s) == db.att[s][Len(db.att[s])]

\* The outcome of an attempt reaches its step: in a live run a step is in flight
\* only while its last attempt has no reported outcome, a task step is COMPLETED
\* only if that attempt SUCCEEDED, and FAILED only if all attempts were used up.
OutcomeReachesStep ==
  \A s \in Steps \ SignalSteps :
    /\ db.run \in RunLive /\ db.step[s] \in InFlight => Last(s) \in {"QUEUED", "LEASED", "EXPIRED"}
    /\ db.run \in RunLive /\ db.count[s] > 0 /\ Last(s) \in {"QUEUED", "LEASED"} => db.step[s] \in InFlight
    /\ db.step[s] = "COMPLETED" => Last(s) = "SUCCEEDED"
    /\ db.step[s] = "FAILED" => db.count[s] = MaxAttempts[s] /\ Last(s) \in {"FAILED", "EXPIRED"}

\* In a live run a step backs off exactly while one PENDING timer will wake it:
\* no retry is lost and none is scheduled twice.
RetryHasTimer ==
  db.run \in RunLive =>
    \A s \in Steps : db.timer[s] = IF db.step[s] = "RETRY_BACKOFF" THEN 1 ELSE 0

\* A run is closed by the transaction that resolves its last step, with the
\* verdict its steps call for: no run stays live with nothing left to do, and a
\* COMPLETED run has no step that was skipped, cancelled or left behind.
RunVerdict ==
  /\ db.run \in RunLive => \E s \in Steps : db.step[s] \notin StepTerminal
  /\ db.run = "COMPLETED" => \A s \in Steps : db.step[s] = "COMPLETED"
  /\ db.run = "FAILED" => /\ \A s \in Steps : db.step[s] \in StepTerminal
                          /\ \E s \in Steps : db.step[s] = "FAILED"

\* Terminal statuses are final: no stale transaction reopens or rewrites the
\* result of a step, an attempt or a run.
TerminalIsFinal ==
  [][/\ db.run \in RunTerminal => db'.run = db.run
     /\ \A s \in Steps :
          /\ db.step[s] \in StepTerminal => db'.step[s] = db.step[s]
          /\ \A n \in DOMAIN db.att[s] :
               db.att[s][n] \in {"SUCCEEDED", "FAILED", "EXPIRED"} => db'.att[s][n] = db.att[s][n]]_db


\* Every signal that was marked processed completed a step that waited for it.
SignalsComplete ==
  \A n \in SignalNames :
    db.used[n] = Cardinality({s \in Named(SignalSteps, n) : db.step[s] = "COMPLETED"})


\* CancelRun leaves no step of the run open.
CancelReachesEveryStep ==
  db.run = "CANCELLED" => \A s \in Steps : db.step[s] \in StepTerminal

\* A live run keeps moving: it ends, or it waits for a signal from outside.
RunEnds ==
  db.run \in RunLive ~> (db.run \in RunTerminal \/ \E s \in Steps : db.step[s] = "WAITING")
=============================================================================
