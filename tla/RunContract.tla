---------------------------- MODULE RunContract ----------------------------
(***************************************************************************)
(* What the engine promises about one run, with no transactions, attempts, *)
(* timers or signals: the statuses a client polls, and the moves they may  *)
(* make from one committed state to the next.  Engine implements it with   *)
(* run <- db.run and step <- db.step.                                      *)
(***************************************************************************)
EXTENDS Store

VARIABLES run, step

visible == <<run, step>>

\* The statuses a step may have in the next committed state.  COMPLETED from
\* PENDING or WAITING is a signal's doing, hence for signal_wait steps only.
Moves(s) ==
  [PENDING       |-> {"SKIPPED", "CANCELLED"}
                       \cup IF s \in SignalSteps THEN {"WAITING", "COMPLETED"} ELSE {"QUEUED"},
   WAITING       |-> {"COMPLETED", "CANCELLED"},
   QUEUED        |-> {"RUNNING", "COMPLETED", "RETRY_BACKOFF", "FAILED", "CANCELLED"},
   RUNNING       |-> {"COMPLETED", "RETRY_BACKOFF", "FAILED", "CANCELLED"},
   RETRY_BACKOFF |-> {"QUEUED", "CANCELLED"}]

Moved(s) == step'[s] # step[s]

\* Each step keeps its status or makes one move; it is started only with every
\* dependency COMPLETED and skipped only behind one that is not going to be.
Lawful ==
  /\ step' \in [Steps -> StepStatus]
  /\ \A s \in Steps : Moved(s) =>
       /\ step[s] \in DOMAIN Moves(s)
       /\ step'[s] \in Moves(s)[step[s]]
       /\ step[s] = "PENDING" /\ step'[s] \in {"QUEUED", "WAITING", "COMPLETED"} =>
            \A p \in DependsOn[s] : step'[p] = "COMPLETED"
       /\ step'[s] = "SKIPPED" =>
            \E p \in DependsOn[s] : step'[p] \in {"FAILED", "SKIPPED", "CANCELLED"}

Closed(f) == \A s \in Steps : f[s] \in StepTerminal

Init ==
  /\ run = "NONE"
  /\ step = [s \in Steps |-> "PENDING"]

\* The run appears with every root already dispatched or waiting.
Create ==
  /\ run = "NONE" /\ run' = "RUNNING"
  /\ Lawful
  /\ \A s \in Steps : DependsOn[s] = {} <=> Moved(s)

\* The steps of a running run move on.  Nothing is cancelled, at most one task
\* has an outcome, and the run ends in the same state as its last step.
Advance ==
  /\ run = "RUNNING"
  /\ Lawful
  /\ \A s \in Steps : Moved(s) => step'[s] # "CANCELLED"
  /\ Cardinality({s \in Steps : step[s] \in InFlight /\ step'[s] \notin InFlight}) <= 1
  /\ run' = IF ~Closed(step') THEN "RUNNING"
            ELSE IF \E s \in Steps : step'[s] = "FAILED" THEN "FAILED" ELSE "COMPLETED"

\* Everything that has not been started is cancelled with the run.  Other open
\* steps may slip through when they move while CancelRun is at work.
Cancel ==
  /\ run = "RUNNING" /\ run' = "CANCELLED"
  /\ Lawful
  /\ \A s \in Steps : Moved(s) => step'[s] = "CANCELLED"
  /\ \A s \in Steps : step'[s] # "PENDING"

\* What slipped through runs on in a run that stays CANCELLED, until an attempt
\* that was out reports or expires or a second CancelRun comes; nothing is retried.
Straggle ==
  /\ run = "CANCELLED" /\ UNCHANGED run
  /\ Lawful
  /\ \A s \in Steps : Moved(s) => step'[s] # "QUEUED"

Next == Create \/ Advance \/ Cancel \/ Straggle

Spec == Init /\ [][Next]_visible
=============================================================================
