----------------------------- MODULE Reconcile -----------------------------
(***************************************************************************)
(* One DAG-evaluation pass, reconcileTx of internal/engine/reconcile.go.   *)
(* A pass works on the database d and on a runState: the step statuses v   *)
(* and attempt counts c that were read before the pass started.  Every     *)
(* update is guarded by the status in v, so a row that has moved since it  *)
(* was read is left alone.  The loops range over a Go map, whose order is  *)
(* random: a pass therefore has a set of possible results, each a record   *)
(* [ok, db, v]; ok is FALSE when dispatchStep reported a concurrent change *)
(* and the caller's transaction rolls back.                                *)
(***************************************************************************)
EXTENDS Store

Dead == {"FAILED", "SKIPPED", "CANCELLED"}

\* Mutant: one round of the loop instead of a fixpoint.
SkippedOnce(d, v) ==
  {s \in Steps : /\ v[s] \in Undispatched /\ d.step[s] = v[s]
                 /\ \E p \in DependsOn[s] : v[p] \in Dead}

\* propagateSkips runs to a fixpoint: what it skips is the least set of
\* undispatched, unmoved steps that contains every one with a dead or skipped
\* dependency.
Skipped(d, v) ==
  LET open == {s \in Steps : v[s] \in Undispatched /\ d.step[s] = v[s]}
      Closed(K) == \A s \in open :
                     (\E p \in DependsOn[s] : v[p] \in Dead \/ p \in K) => s \in K
  IN  {s \in open : \A K \in SUBSET open : Closed(K) => s \in K}

propagateSkips(d, v) ==
  [db |-> UpdateStepStatus(d, Skipped(d, v), Exactly(v), "SKIPPED"),
   v  |-> Marked(v, Skipped(d, v), "SKIPPED")]
----------------------------------------------------------------------------
Named(S, n) == {s \in S : SignalName[s] = n}

\* The sets of steps of W that find a signal when each of them, in some order,
\* looks for an unprocessed signal of its name.
Served(d, W) ==
  {R \in SUBSET W : \A n \in SignalNames :
     /\ Cardinality(Named(R, n)) \in 0 .. d.sig[n]
     /\ Named(R, n) = Named(W, n) \/ Cardinality(Named(R, n)) = d.sig[n]}

\* tryResolveSignalWait, for the steps R that found a signal.  The signal is
\* marked processed first; the step completes only if it has not moved.
tryResolveSignalWait(d, v, R) ==
  UpdateStepStatus(MarkSignalsProcessed(d, [n \in SignalNames |-> Cardinality(Named(R, n))]),
                   R, Exactly(v), "COMPLETED")

\* dispatchStep for the steps S: attempt row, outbox row, step QUEUED.
dispatchStep(d, S, from, c) ==
  [UpdateStepStatus(d, S, from, "QUEUED") EXCEPT
     !.count  = [s \in Steps |-> IF s \in S THEN @[s] + 1 ELSE @[s]],
     !.att    = [s \in Steps |-> IF s \in S THEN Append(@[s], "QUEUED") ELSE @[s]],
     !.outbox = @ \cup {<<s, c[s] + 1>> : s \in S}]

\* dispatchStep fails when the attempt row exists or the step has moved.
CanDispatch(d, S, from, c) ==
  \A s \in S : ~AttemptExists(d, s, c[s] + 1) /\ d.step[s] \in from[s]

\* One possible second loop of dispatchReady: V are the steps found ready when
\* the loop reached them, R those of V that were signal_wait steps and found a
\* signal.
visitReady(d, v, c, V, R) ==
  LET tasks  == V \ SignalSteps
      parked == Updatable(d, (V \cap SignalSteps) \ R, Exactly(v))
      solved == Updatable(d, R, Exactly(v))
      woken  == UpdateStepStatus(tryResolveSignalWait(d, v, R), parked, Exactly(v), "WAITING")
  IN  [ok |-> CanDispatch(d, tasks, Exactly(v), c),
       db |-> dispatchStep(woken, tasks, Exactly(v), c),
       v  |-> Marked(Marked(Marked(v, solved, "COMPLETED"), parked, "WAITING"), tasks, "QUEUED")]

\* Mutant: a dependency counts as soon as it has been dispatched.
readyVisitsDispatched(d, v) ==
  LET open == {s \in Steps : v[s] \in Undispatched}
      V    == {s \in open : \A p \in DependsOn[s] : v[p] \notin Undispatched}
  IN  {<<V, R>> : R \in Served(d, V \cap SignalSteps)}

\* A step that is ready before the second loop is always found ready.  One whose
\* last dependency is completed by a signal during the loop is found ready only
\* if the loop reaches it later, which depends on the map order.
readyVisits(d, v) ==
  LET open == {s \in Steps : v[s] \in Undispatched}
      done == {s \in Steps : v[s] = "COMPLETED"}
  IN  {VR \in (SUBSET open) \X (SUBSET (open \cap SignalSteps)) :
         /\ {s \in open : DependsOn[s] \subseteq done} \subseteq VR[1]
         /\ \A s \in VR[1] : DependsOn[s] \subseteq done \cup Updatable(d, VR[2], Exactly(v))
         /\ VR[2] \in Served(d, VR[1] \cap SignalSteps)}

\* The first loop resolves steps that are already WAITING, the second visits the
\* undispatched ones.
dispatchReady(d, v, c) ==
  UNION {LET d1 == tryResolveSignalWait(d, v, R)
             v1 == Marked(v, Updatable(d, R, Exactly(v)), "COMPLETED")
         IN  {visitReady(d1, v1, c, VR[1], VR[2]) : VR \in readyVisits(d1, v1)} :
         R \in Served(d, {s \in SignalSteps : v[s] = "WAITING"})}
----------------------------------------------------------------------------
Verdict(v) ==
  IF \E s \in Steps : v[s] = "FAILED" THEN "FAILED"
  ELSE IF \E s \in Steps : v[s] = "CANCELLED" THEN "CANCELLED" ELSE "COMPLETED"

anyDispatchedOrRunning(v) ==
  \E s \in Steps : v[s] \in InFlight \cup {"RETRY_BACKOFF", "WAITING", "COMPLETED"}

\* Mutant: a run is over when nothing is in flight.
allTerminalIdle(v) == \A s \in Steps : v[s] \notin InFlight

allTerminal(v) == \A s \in Steps : v[s] \in StepTerminal


\* r is the run status read before the pass.
checkRunCompletion(d, r, v) ==
  LET started == IF r = "PENDING" /\ anyDispatchedOrRunning(v)
                 THEN UpdateWorkflowRunStatus(d, {"PENDING"}, "RUNNING") ELSE d
      closed  == IF started.run \in RunLive
                 THEN AppendHistory([started EXCEPT !.run = Verdict(v)], Verdict(v))
                 ELSE started
  IN  IF allTerminal(v) THEN CancelTimersForRun(closed) ELSE started

reconcileTx(d, r, v, c) ==
  IF r \in RunTerminal
  THEN {[ok |-> TRUE, db |-> d]}
  ELSE LET p == propagateSkips(d, v)
       IN  {[ok |-> q.ok, db |-> checkRunCompletion(q.db, r, q.v)] :
              q \in dispatchReady(p.db, p.v, c)}
=============================================================================
