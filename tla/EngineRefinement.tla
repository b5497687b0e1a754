-------------------------- MODULE EngineRefinement --------------------------
(***************************************************************************)
(* Engine implements RunContract: forget the attempts, the timers, the     *)
(* signals and the transactions, and keep the statuses a client can poll.  *)
(* For each step it implements Attempts: keep the task_attempts rows only. *)
(***************************************************************************)
EXTENDS Engine

Contract == INSTANCE RunContract WITH run <- db.run, step <- db.step


Lifecycle(s) == INSTANCE Attempts WITH att <- db.att[s], Limit <- MaxAttempts[s]

\* Transactions keep to the life of an attempt that Delivery relies on: queued one at
\* a time, leased once, settled once, although reports, reaper and retries race.
AttemptsLawful ==
  /\ \A s \in Steps : Lifecycle(s)!Init
  /\ [][\A s \in Steps : [Lifecycle(s)!Next]_(db.att[s])]_db
=============================================================================
