------------------------------- MODULE Store -------------------------------
(***************************************************************************)
(* The rows of one workflow run as Postgres keeps them, and the guarded    *)
(* queries of internal/store/postgres/queries.go that the engine issues.   *)
(* A database value `d' is a record with one field per table or column:    *)
(*   run     workflow_runs.status ("NONE" before CreateRun commits)        *)
(*   step    steps.status                 count   steps.attempt_count      *)
(*   att     task_attempts.status, the n-th entry being attempt_number n   *)
(*   outbox  the <<step, attempt_number>> pairs that have an outbox row    *)
(*   timer   number of PENDING retry_backoff rows of a step                *)
(*   sig     number of unprocessed signals rows of a name                  *)
(*   used    number of processed signals rows of a name                    *)
(*   ended   the run-level closing events of workflow_run_history          *)
(* Runs share no rows, so one run stands for all of them.  A query is a    *)
(* function from database values to database values; which statements      *)
(* share a transaction is decided by the modules that use it.              *)
(***************************************************************************)
EXTENDS Naturals, Sequences, FiniteSets

CONSTANTS
  Steps,         \* names of the steps of the definition
  DependsOn,     \* depends_on of each step
  SignalSteps,   \* steps whose task type is signal_wait
  SignalNames,   \* names a signal can carry
  SignalName,    \* the signal a signal_wait step waits for
  MaxAttempts    \* max_attempts of each step

\* What Definition.Validate and the column types establish before a run is
\* created: known dependencies, no cycle, and at least one attempt per step.
ASSUME StepsAssumption == IsFiniteSet(Steps) /\ Steps # {}
ASSUME DependsOnAssumption == DependsOn \in [Steps -> SUBSET Steps]
ASSUME SignalAssumption == /\ SignalSteps \subseteq Steps
                           /\ SignalName \in [SignalSteps -> SignalNames]
ASSUME MaxAttemptsAssumption == MaxAttempts \in [Steps -> Nat \ {0}]
ASSUME AcyclicAssumption ==
  \A S \in SUBSET Steps : S # {} => \E s \in S : DependsOn[s] \cap S = {}
----------------------------------------------------------------------------
RunTerminal == {"COMPLETED", "FAILED", "CANCELLED"}
RunLive == {"PENDING", "RUNNING"}
RunStatus == {"NONE"} \cup RunLive \cup RunTerminal

StepTerminal == {"COMPLETED", "FAILED", "SKIPPED", "CANCELLED"}
Undispatched == {"PENDING", "READY"}
InFlight == {"QUEUED", "RUNNING"}
StepStatus == Undispatched \cup InFlight \cup {"RETRY_BACKOFF", "WAITING"}
                \cup StepTerminal
\* Dispatched or waiting, now or before.
Started == StepStatus \ (Undispatched \cup {"SKIPPED", "CANCELLED"})

\* ABANDONED is declared in types.go and never written.
AttemptStatus == {"QUEUED", "LEASED", "SUCCEEDED", "FAILED", "EXPIRED"}

Database ==
  [run    : RunStatus,
   step   : [Steps -> StepStatus],
   count  : [Steps -> Nat],
   att    : [Steps -> Seq(AttemptStatus)],
   outbox : SUBSET (Steps \X Nat),
   timer  : [Steps -> Nat],
   sig    : [SignalNames -> Nat],
   used   : [SignalNames -> Nat],
   ended  : Seq(RunTerminal)]

\* CreateWorkflowRun and CreateSteps: the rows of a run that was just inserted.
NewRun ==
  [run    |-> "PENDING",
   step   |-> [s \in Steps |-> "PENDING"],
   count  |-> [s \in Steps |-> 0],
   att    |-> [s \in Steps |-> <<>>],
   outbox |-> {},
   timer  |-> [s \in Steps |-> 0],
   sig    |-> [n \in SignalNames |-> 0],
   used   |-> [n \in SignalNames |-> 0],
   ended  |-> <<>>]

NoRun == [NewRun EXCEPT !.run = "NONE"]
----------------------------------------------------------------------------
(***************************************************************************)
(* Compare-and-set updates.  `from' gives each step the statuses the       *)
(* UPDATE accepts; a row in any other status is left alone.                *)
(***************************************************************************)
Exactly(v) == [s \in Steps |-> {v[s]}]

AnyOf(statuses) == [s \in Steps |-> statuses]

Updatable(d, S, from) == {s \in S : d.step[s] \in from[s]}

Marked(f, S, next) == [s \in Steps |-> IF s \in S THEN next ELSE f[s]]

UpdateStepStatus(d, S, from, next) ==
  [d EXCEPT !.step = Marked(@, Updatable(d, S, from), next)]

UpdateWorkflowRunStatus(d, from, next) ==
  IF d.run \in from THEN [d EXCEPT !.run = next] ELSE d

\* ListRunningRunsForShards returns the run: it is live, and its shard_id is ANY of
\* the list.  A caller without shards passes nil, which matches no row.
ListedForShards(d, sharded) == sharded /\ d.run \in RunLive

\* Mutant: the claim writes the status of the step machine into the attempt.
ClaimTaskAttemptRunning(d, s, n) == [d EXCEPT !.att[s][n] = "RUNNING"]

\* ClaimTaskAttempt: QUEUED -> LEASED, at most once per attempt.
ClaimTaskAttempt(d, s, n) == [d EXCEPT !.att[s][n] = "LEASED"]

\* CompleteTaskAttempt: LEASED -> SUCCEEDED or FAILED, by the lease's owner.
CompleteTaskAttempt(d, s, n, success) ==
  [d EXCEPT !.att[s][n] = IF success THEN "SUCCEEDED" ELSE "FAILED"]

\* ReapExpiredAttempts, for one of the rows it selects: LEASED -> EXPIRED.
ReapExpiredAttempt(d, s, n) == [d EXCEPT !.att[s][n] = "EXPIRED"]

\* CreateTaskAttempt hits UNIQUE (step_id, attempt_number) when attempt n exists.
AttemptExists(d, s, n) == n \in DOMAIN d.att[s]

InsertTimer(d, s) == [d EXCEPT !.timer[s] = @ + 1]

\* FireTimerCAS: one PENDING row of the step, if there is one, becomes FIRED.
FireTimerCAS(d, s) == [d EXCEPT !.timer[s] = IF @ > 0 THEN @ - 1 ELSE @]

CancelTimersForRun(d) == [d EXCEPT !.timer = [s \in Steps |-> 0]]

InsertSignal(d, n) == [d EXCEPT !.sig[n] = @ + 1]

\* MarkSignalProcessed for taken[n] unprocessed signals of each name n.
MarkSignalsProcessed(d, taken) ==
  [d EXCEPT !.sig  = [n \in SignalNames |-> @[n] - taken[n]],
            !.used = [n \in SignalNames |-> @[n] + taken[n]]]

\* AppendHistory, for the events that close a run.
AppendHistory(d, event) == [d EXCEPT !.ended = Append(@, event)]
=============================================================================
