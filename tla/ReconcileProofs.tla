-------------------------- MODULE ReconcileProofs --------------------------
(***************************************************************************)
(* Lemmas about the queries and the DAG-evaluation pass, as functions of a *)
(* database and a view of it.  Every query is guarded by the status it     *)
(* expects, so it keeps what is final and what is leased (Keeps).  A pass  *)
(* may work on a stale view, but a step that was COMPLETED when it was     *)
(* read still is, and a dispatch only asks for COMPLETED dependencies.     *)
(***************************************************************************)
EXTENDS Reconcile, TLAPS

\* DependenciesCompleted, of any database value.
DepsDone(d) ==
  \A s \in Steps : d.step[s] \in Started =>
    \A p \in DependsOn[s] : d.step[p] = "COMPLETED"

\* What a pass needs to know of its view: the steps it takes for COMPLETED are.
SeesCompleted(d, v) ==
  \A s \in Steps : v[s] = "COMPLETED" => d.step[s] = "COMPLETED"

\* Attempts that are over.
Settled == {"SUCCEEDED", "FAILED", "EXPIRED"}

\* From d to e nothing final is rewritten and no lease is touched.  All queries but
\* the three updates of task_attempts have this property, and it composes.
Keeps(d, e) ==
  /\ d.run # "NONE" => e.run # "NONE"
  /\ d.run \in RunTerminal => e.run = d.run
  /\ \A s \in Steps :
       /\ d.step[s] \in StepTerminal => e.step[s] = d.step[s]
       /\ \A n \in DOMAIN d.att[s] :
            /\ n \in DOMAIN e.att[s]
            /\ d.att[s][n] \in Settled \cup {"LEASED"} => e.att[s][n] = d.att[s][n]

\* Doing nothing keeps everything.
LEMMA KeepsReflexive == ASSUME NEW d PROVE Keeps(d, d)
  BY DEF Keeps

\* Statements in sequence keep what each of them keeps.
LEMMA KeepsTransitive ==
  ASSUME NEW d, NEW e, NEW f, Keeps(d, e), Keeps(e, f) PROVE Keeps(d, f)
  BY DEF Keeps

\* The guarded update of steps yields well-typed rows,
LEMMA UpdateStepStatusType ==
  ASSUME NEW d \in Database, NEW S \in SUBSET Steps,
         NEW from \in [Steps -> SUBSET StepStatus], NEW next \in StepStatus
  PROVE  UpdateStepStatus(d, S, from, next) \in Database
  BY DEF UpdateStepStatus, Database, Marked, Updatable

\* touches no other table,
LEMMA UpdateStepStatusFrame ==
  ASSUME NEW d \in Database, NEW S, NEW from, NEW next
  PROVE  /\ UpdateStepStatus(d, S, from, next).run = d.run
         /\ UpdateStepStatus(d, S, from, next).att = d.att
         /\ UpdateStepStatus(d, S, from, next).sig = d.sig
         /\ UpdateStepStatus(d, S, from, next).count = d.count
  BY DEF UpdateStepStatus, Database

\* writes exactly the rows its guard accepts,
LEMMA UpdateStepStatusSteps ==
  ASSUME NEW d \in Database, NEW S \in SUBSET Steps, NEW from, NEW next
  PROVE  \A s \in Steps : UpdateStepStatus(d, S, from, next).step[s]
           = IF s \in S /\ d.step[s] \in from[s] THEN next ELSE d.step[s]
  BY DEF UpdateStepStatus, Database, Marked, Updatable

\* and keeps every result when no guard accepts a terminal status.
LEMMA UpdateStepStatusKeeps ==
  ASSUME NEW d \in Database, NEW S \in SUBSET Steps,
         NEW from \in [Steps -> SUBSET StepStatus], NEW next \in StepStatus,
         \A s \in S : from[s] \cap StepTerminal = {}
  PROVE  Keeps(d, UpdateStepStatus(d, S, from, next))
<1>. DEFINE e == UpdateStepStatus(d, S, from, next)
<1>1. e.run = d.run /\ e.att = d.att
  BY UpdateStepStatusFrame
<1>2. \A s \in Steps : e.step[s] = IF s \in S /\ d.step[s] \in from[s] THEN next ELSE d.step[s]
  BY UpdateStepStatusSteps
<1>. QED  BY <1>1, <1>2 DEF Keeps

\* The guarded update of workflow_runs never reopens a run and touches no step.
LEMMA RunStatusType ==
  ASSUME NEW d \in Database, NEW from \in SUBSET RunStatus, NEW next \in RunStatus \ {"NONE"},
         from \cap RunTerminal = {}
  PROVE  LET e == UpdateWorkflowRunStatus(d, from, next)
         IN  e \in Database /\ e.step = d.step /\ Keeps(d, e)
  BY DEF UpdateWorkflowRunStatus, Database, Keeps

\* Guards and views built from views are guards and views.
LEMMA ViewTypes ==
  /\ \A v \in [Steps -> StepStatus] : Exactly(v) \in [Steps -> SUBSET StepStatus]
  /\ \A K \in SUBSET StepStatus : AnyOf(K) \in [Steps -> SUBSET StepStatus]
  /\ \A v \in [Steps -> StepStatus], S \in SUBSET Steps, k \in StepStatus :
       Marked(v, S, k) \in [Steps -> StepStatus]
  BY DEF Exactly, AnyOf, Marked

\* Marking no more signals than there are leaves well-typed rows.
LEMMA MarkSignalsType ==
  ASSUME NEW d \in Database, NEW taken \in [SignalNames -> Nat],
         \A n \in SignalNames : taken[n] <= d.sig[n]
  PROVE  LET e == MarkSignalsProcessed(d, taken)
         IN  e \in Database /\ e.step = d.step /\ e.att = d.att /\ e.run = d.run /\ e.count = d.count
<1>1. \A n \in SignalNames : d.sig[n] - taken[n] \in Nat /\ d.used[n] + taken[n] \in Nat
  BY DEF Database
<1>. QED  BY <1>1 DEF MarkSignalsProcessed, Database

\* The steps served are among those that asked, and no more than the signals there.
LEMMA ServedWithin ==
  ASSUME NEW d \in Database, NEW W \in SUBSET SignalSteps, NEW R \in Served(d, W)
  PROVE  /\ R \in SUBSET W
         /\ \A n \in SignalNames : Cardinality(Named(R, n)) \in 0 .. d.sig[n]
  BY DEF Served

\* tryResolveSignalWait completes the served steps that have not moved, and only those.
LEMMA ResolveType ==
  ASSUME NEW d \in Database, NEW v \in [Steps -> StepStatus],
         NEW W \in SUBSET SignalSteps, NEW R \in Served(d, W),
         \A s \in W : v[s] \notin StepTerminal
  PROVE  LET e == tryResolveSignalWait(d, v, R)
         IN  /\ e \in Database
             /\ \A s \in Steps : e.step[s] = IF s \in R /\ d.step[s] = v[s]
                                             THEN "COMPLETED" ELSE d.step[s]
             /\ Keeps(d, e)
<1>. DEFINE taken == [n \in SignalNames |-> Cardinality(Named(R, n))]
            f == MarkSignalsProcessed(d, taken)
<1>1. R \in SUBSET Steps
  BY ServedWithin, SignalAssumption
<1>2. taken \in [SignalNames -> Nat] /\ \A n \in SignalNames : taken[n] <= d.sig[n]
  <2>1. \A n \in SignalNames : Cardinality(Named(R, n)) \in 0 .. d.sig[n] /\ d.sig[n] \in Nat
    BY ServedWithin DEF Database
  <2>. QED  BY <2>1
<1>3. f \in Database /\ f.step = d.step /\ f.att = d.att /\ f.run = d.run
  BY <1>2, MarkSignalsType
<1>4. Exactly(v) \in [Steps -> SUBSET StepStatus] /\ "COMPLETED" \in StepStatus
  BY ViewTypes DEF StepStatus, StepTerminal
<1>5. tryResolveSignalWait(d, v, R) = UpdateStepStatus(f, R, Exactly(v), "COMPLETED")
  BY DEF tryResolveSignalWait
<1>. HIDE DEF f, taken
<1>6. tryResolveSignalWait(d, v, R) \in Database
  BY <1>1, <1>3, <1>4, <1>5, UpdateStepStatusType
<1>7. \A s \in Steps : tryResolveSignalWait(d, v, R).step[s]
                         = IF s \in R /\ d.step[s] = v[s] THEN "COMPLETED" ELSE d.step[s]
  <2>1. \A s \in Steps : UpdateStepStatus(f, R, Exactly(v), "COMPLETED").step[s]
                           = IF s \in R /\ f.step[s] \in Exactly(v)[s] THEN "COMPLETED" ELSE f.step[s]
    BY <1>1, <1>3, UpdateStepStatusSteps
  <2>. QED  BY <1>3, <1>5, <2>1 DEF Exactly
<1>8. Keeps(d, tryResolveSignalWait(d, v, R))
  <2>1. \A s \in R : Exactly(v)[s] \cap StepTerminal = {}
    BY <1>1, ServedWithin DEF Exactly
  <2>2. Keeps(f, UpdateStepStatus(f, R, Exactly(v), "COMPLETED"))
    BY <1>1, <1>3, <1>4, <2>1, UpdateStepStatusKeeps
  <2>. QED  BY <1>3, <1>5, <2>2 DEF Keeps
<1>. QED  BY <1>6, <1>7, <1>8

\* dispatchStep yields well-typed rows,
LEMMA DispatchStepType ==
  ASSUME NEW d \in Database, NEW S \in SUBSET Steps,
         NEW from \in [Steps -> SUBSET StepStatus], NEW c \in [Steps -> Nat]
  PROVE  dispatchStep(d, S, from, c) \in Database
<1>. DEFINE u == UpdateStepStatus(d, S, from, "QUEUED")
<1>1. u \in Database
  BY UpdateStepStatusType DEF StepStatus, InFlight
<1>2. [s \in Steps |-> IF s \in S THEN u.count[s] + 1 ELSE u.count[s]] \in [Steps -> Nat]
  BY <1>1 DEF Database
<1>3. [s \in Steps |-> IF s \in S THEN Append(u.att[s], "QUEUED") ELSE u.att[s]]
        \in [Steps -> Seq(AttemptStatus)]
  BY <1>1 DEF Database, AttemptStatus
<1>4. u.outbox \cup {<<s, c[s] + 1>> : s \in S} \in SUBSET (Steps \X Nat)
  BY <1>1 DEF Database
<1>. QED
  <2>. HIDE DEF u
  <2>1. dispatchStep(d, S, from, c)
          = [u EXCEPT !.count = [s \in Steps |-> IF s \in S THEN u.count[s] + 1 ELSE u.count[s]],
                      !.att = [s \in Steps |-> IF s \in S THEN Append(u.att[s], "QUEUED") ELSE u.att[s]],
                      !.outbox = u.outbox \cup {<<s, c[s] + 1>> : s \in S}]
    BY <1>1 DEF dispatchStep, u, Database
  <2>. QED  BY <1>1, <1>2, <1>3, <1>4, <2>1 DEF Database

\* appends one QUEUED attempt per step and leaves the run alone,
LEMMA DispatchStepFields ==
  ASSUME NEW d \in Database, NEW S \in SUBSET Steps,
         NEW from \in [Steps -> SUBSET StepStatus], NEW c \in [Steps -> Nat]
  PROVE  /\ dispatchStep(d, S, from, c).run = d.run
         /\ dispatchStep(d, S, from, c).att
              = [s \in Steps |-> IF s \in S THEN Append(d.att[s], "QUEUED") ELSE d.att[s]]
<1>. DEFINE u == UpdateStepStatus(d, S, from, "QUEUED")
<1>1. u \in Database
  BY UpdateStepStatusType DEF StepStatus, InFlight
<1>2. u.run = d.run /\ u.att = d.att
  BY UpdateStepStatusFrame
<1>. QED  BY <1>1, <1>2 DEF dispatchStep, Database

\* queues the steps its guard accepts,
LEMMA DispatchStepSteps ==
  ASSUME NEW d \in Database, NEW S \in SUBSET Steps,
         NEW from \in [Steps -> SUBSET StepStatus], NEW c \in [Steps -> Nat]
  PROVE  \A s \in Steps : dispatchStep(d, S, from, c).step[s]
           = IF s \in S /\ d.step[s] \in from[s] THEN "QUEUED" ELSE d.step[s]
<1>. DEFINE u == UpdateStepStatus(d, S, from, "QUEUED")
<1>1. u \in Database
  BY UpdateStepStatusType DEF StepStatus, InFlight
<1>2. dispatchStep(d, S, from, c).step = u.step
  BY <1>1 DEF dispatchStep, Database
<1>. QED  BY <1>2, UpdateStepStatusSteps

\* and keeps every result and every lease: new attempts go behind the old ones.
LEMMA DispatchStepKeeps ==
  ASSUME NEW d \in Database, NEW S \in SUBSET Steps,
         NEW from \in [Steps -> SUBSET StepStatus], NEW c \in [Steps -> Nat],
         \A s \in S : from[s] \cap StepTerminal = {}
  PROVE  Keeps(d, dispatchStep(d, S, from, c))
<1>. DEFINE e == dispatchStep(d, S, from, c)
<1>0. /\ e.run = d.run
      /\ e.att = [s \in Steps |-> IF s \in S THEN Append(d.att[s], "QUEUED") ELSE d.att[s]]
  BY DispatchStepFields
<1>1. \A s \in Steps : e.step[s] = IF s \in S /\ d.step[s] \in from[s] THEN "QUEUED" ELSE d.step[s]
  BY DispatchStepSteps
<1>. HIDE DEF e
<1>2. \A s \in Steps : \A n \in DOMAIN d.att[s] :
        n \in DOMAIN e.att[s] /\ e.att[s][n] = d.att[s][n]
  <2>1. SUFFICES ASSUME NEW s \in Steps, NEW n \in DOMAIN d.att[s]
                 PROVE  n \in DOMAIN e.att[s] /\ e.att[s][n] = d.att[s][n]
    OBVIOUS
  <2>2. d.att[s] \in Seq(AttemptStatus) /\ "QUEUED" \in AttemptStatus
    BY DEF Database, AttemptStatus
  <2>3. e.att[s] = d.att[s] \/ e.att[s] = Append(d.att[s], "QUEUED")
    BY <1>0
  <2>. QED  BY <2>2, <2>3
<1>. QED
  <2>1. Keeps(d, e)
    BY <1>0, <1>1, <1>2 DEF Keeps
  <2>. QED  BY <2>1 DEF e

\* The second loop of dispatchReady starts only steps whose dependencies are
\* COMPLETED in the database: the view is sound, and what a signal completed during
\* the loop was completed in the database too.
LEMMA VisitReadyLemma ==
  ASSUME NEW d \in Database, NEW v \in [Steps -> StepStatus], NEW c \in [Steps -> Nat],
         NEW VR \in readyVisits(d, v), SeesCompleted(d, v), DepsDone(d)
  PROVE  LET e == visitReady(d, v, c, VR[1], VR[2]).db
         IN  e \in Database /\ DepsDone(e) /\ Keeps(d, e)
<1>. DEFINE V == VR[1]
            R == VR[2]
            open == {s \in Steps : v[s] \in Undispatched}
            done == {s \in Steps : v[s] = "COMPLETED"}
            tasks == V \ SignalSteps
            parked == Updatable(d, (V \cap SignalSteps) \ R, Exactly(v))
            d1 == tryResolveSignalWait(d, v, R)
            d2 == UpdateStepStatus(d1, parked, Exactly(v), "WAITING")
            e == dispatchStep(d2, tasks, Exactly(v), c)
<1>1. /\ V \in SUBSET open
      /\ R \in Served(d, V \cap SignalSteps)
      /\ \A s \in V : DependsOn[s] \subseteq done \cup Updatable(d, R, Exactly(v))
  BY DEF readyVisits
<1>2. R \in SUBSET (V \cap SignalSteps)
  BY <1>1 DEF Served
<1>3. \A s \in V : s \in Steps /\ v[s] \in Undispatched /\ v[s] \notin StepTerminal /\ v[s] \notin Started
  BY <1>1 DEF Undispatched, StepTerminal, Started
<1>4. visitReady(d, v, c, V, R).db = e
  BY DEF visitReady
<1>5. parked \in SUBSET (V \ R) /\ parked \in SUBSET Steps /\ tasks \in SUBSET Steps
  BY <1>3 DEF Updatable
<1>6. /\ d1 \in Database
      /\ \A s \in Steps : d1.step[s] = IF s \in R /\ d.step[s] = v[s] THEN "COMPLETED" ELSE d.step[s]
      /\ Keeps(d, d1)
  <2>1. V \cap SignalSteps \in SUBSET SignalSteps /\ \A s \in V \cap SignalSteps : v[s] \notin StepTerminal
    BY <1>3
  <2>. QED  BY <1>1, <2>1, ResolveType
<1>7. Exactly(v) \in [Steps -> SUBSET StepStatus] /\ \A s \in V : Exactly(v)[s] \cap StepTerminal = {}
  BY <1>3, ViewTypes DEF Exactly
<1>. HIDE DEF V, R, d1, tasks, parked
<1>8. /\ d2 \in Database
      /\ \A s \in Steps : d2.step[s] = IF s \in parked /\ d1.step[s] \in Exactly(v)[s]
                                       THEN "WAITING" ELSE d1.step[s]
  BY <1>5, <1>6, <1>7, UpdateStepStatusType, UpdateStepStatusSteps DEF StepStatus
<1>9. Keeps(d1, d2)
  <2>1. \A s \in parked : Exactly(v)[s] \cap StepTerminal = {}
    BY <1>5, <1>7
  <2>. QED  BY <1>5, <1>6, <1>7, <2>1, UpdateStepStatusKeeps DEF StepStatus
<1>. HIDE DEF d2
<1>10. e \in Database
  BY <1>5, <1>7, <1>8, DispatchStepType
<1>11. \A s \in Steps : e.step[s] = IF s \in tasks /\ d2.step[s] \in Exactly(v)[s]
                                    THEN "QUEUED" ELSE d2.step[s]
  BY <1>5, <1>7, <1>8, DispatchStepSteps
<1>12. Keeps(d2, e)
  <2>1. \A s \in tasks : Exactly(v)[s] \cap StepTerminal = {}
    BY <1>7 DEF tasks
  <2>. QED  BY <1>5, <1>7, <1>8, <2>1, DispatchStepKeeps
<1>. HIDE DEF e
<1>13. Keeps(d, e)
  BY <1>6, <1>9, <1>12, KeepsTransitive
<1>14. \A s \in Steps : e.step[s] = d.step[s] \/ s \in V
  BY <1>2, <1>5, <1>6, <1>8, <1>11 DEF tasks
<1>15. \A s \in Updatable(d, R, Exactly(v)) : e.step[s] = "COMPLETED"
  <2>1. SUFFICES ASSUME NEW s \in Updatable(d, R, Exactly(v)) PROVE e.step[s] = "COMPLETED"
    OBVIOUS
  <2>2. s \in R /\ s \in Steps /\ d.step[s] = v[s] /\ s \notin parked /\ s \notin tasks
    BY <1>2, <1>3, <1>5 DEF Updatable, Exactly, tasks
  <2>. QED  BY <2>2, <1>6, <1>8, <1>11
<1>16. \A s \in done : e.step[s] = "COMPLETED"
  BY <1>13 DEF SeesCompleted, Keeps, StepTerminal
<1>17. DepsDone(e)
  <2>1. SUFFICES ASSUME NEW s \in Steps, e.step[s] \in Started, NEW p \in DependsOn[s]
                 PROVE  e.step[p] = "COMPLETED"
    BY DEF DepsDone
  <2>2. p \in Steps
    BY DependsOnAssumption
  <2>3. CASE s \in V
    BY <2>3, <1>1, <1>15, <1>16
  <2>4. CASE s \notin V
    <3>1. d.step[p] = "COMPLETED"
      BY <2>1, <2>4, <1>14 DEF DepsDone
    <3>. QED  BY <3>1, <2>2, <1>13 DEF Keeps, StepTerminal
  <2>. QED  BY <2>3, <2>4
<1>. QED  BY <1>4, <1>10, <1>13, <1>17 DEF V, R

\* propagateSkips starts nothing, skips only open steps, and its view stays sound.
LEMMA PropagateSkipsLemma ==
  ASSUME NEW d \in Database, NEW v \in [Steps -> StepStatus],
         SeesCompleted(d, v), DepsDone(d)
  PROVE  LET p == propagateSkips(d, v)
         IN  /\ p.db \in Database /\ p.v \in [Steps -> StepStatus]
             /\ SeesCompleted(p.db, p.v) /\ DepsDone(p.db) /\ Keeps(d, p.db)
<1>. DEFINE K == Skipped(d, v)
            e == UpdateStepStatus(d, K, Exactly(v), "SKIPPED")
            w == Marked(v, K, "SKIPPED")
<1>1. propagateSkips(d, v).db = e /\ propagateSkips(d, v).v = w
  BY DEF propagateSkips
<1>2. K \in SUBSET Steps /\ \A s \in K : v[s] \in Undispatched
  BY DEF Skipped
<1>. HIDE DEF K
<1>3. Exactly(v) \in [Steps -> SUBSET StepStatus] /\ w \in [Steps -> StepStatus]
      /\ "SKIPPED" \in StepStatus
  BY <1>2, ViewTypes DEF StepStatus, StepTerminal
<1>4. e \in Database
  BY <1>2, <1>3, UpdateStepStatusType
<1>5. \A s \in Steps : e.step[s] = IF s \in K /\ d.step[s] \in Exactly(v)[s]
                                   THEN "SKIPPED" ELSE d.step[s]
  BY <1>2, UpdateStepStatusSteps
<1>6. Keeps(d, e)
  <2>1. \A s \in K : Exactly(v)[s] \cap StepTerminal = {}
    BY <1>2 DEF Exactly, Undispatched, StepTerminal
  <2>. QED  BY <1>2, <1>3, <2>1, UpdateStepStatusKeeps
<1>7. \A s \in Steps : w[s] = IF s \in K THEN "SKIPPED" ELSE v[s]
  BY DEF Marked
<1>. HIDE DEF e, w
<1>8. SeesCompleted(e, w)
  BY <1>6, <1>7 DEF SeesCompleted, Keeps, StepTerminal
<1>9. DepsDone(e)
  BY <1>5, <1>6, DependsOnAssumption DEF DepsDone, Keeps, Started, StepTerminal
<1>. QED  BY <1>1, <1>3, <1>4, <1>6, <1>8, <1>9

\* Both loops of dispatchReady, for every map order.
LEMMA DispatchReadyLemma ==
  ASSUME NEW d \in Database, NEW v \in [Steps -> StepStatus], NEW c \in [Steps -> Nat],
         SeesCompleted(d, v), DepsDone(d), NEW q \in dispatchReady(d, v, c)
  PROVE  q.db \in Database /\ DepsDone(q.db) /\ Keeps(d, q.db)
<1>. DEFINE W == {s \in SignalSteps : v[s] = "WAITING"}
            e(R) == tryResolveSignalWait(d, v, R)
            w(R) == Marked(v, Updatable(d, R, Exactly(v)), "COMPLETED")
<1>0. PICK R \in Served(d, W) : q \in {visitReady(e(R), w(R), c, VR[1], VR[2]) : VR \in readyVisits(e(R), w(R))}
  BY DEF dispatchReady
<1>1. PICK VR \in readyVisits(e(R), w(R)) : q = visitReady(e(R), w(R), c, VR[1], VR[2])
  BY <1>0
<1>2. R \in SUBSET W /\ R \in SUBSET Steps /\ W \in SUBSET SignalSteps
  BY SignalAssumption DEF Served
<1>3. \A s \in W : v[s] \notin StepTerminal
  BY DEF StepTerminal
<1>4. /\ e(R) \in Database
      /\ \A s \in Steps : e(R).step[s] = IF s \in R /\ d.step[s] = v[s] THEN "COMPLETED" ELSE d.step[s]
      /\ Keeps(d, e(R))
  BY <1>2, <1>3, ResolveType
<1>5. w(R) \in [Steps -> StepStatus]
  BY <1>2, ViewTypes DEF Updatable, StepStatus, StepTerminal
<1>6. \A s \in Steps : w(R)[s] = IF s \in R /\ d.step[s] = v[s] THEN "COMPLETED" ELSE v[s]
  BY <1>2 DEF Marked, Updatable, Exactly
<1>. HIDE DEF W, e, w
<1>7. SeesCompleted(e(R), w(R))
  BY <1>4, <1>6 DEF SeesCompleted
<1>8. DepsDone(e(R))
  <2>1. SUFFICES ASSUME NEW s \in Steps, e(R).step[s] \in Started, NEW p \in DependsOn[s]
                 PROVE  e(R).step[p] = "COMPLETED"
    BY DEF DepsDone
  <2>2. p \in Steps
    BY DependsOnAssumption
  <2>3. d.step[s] \in Started
    BY <2>1, <1>2, <1>4 DEF Started, StepStatus, Undispatched, W
  <2>. QED  BY <2>2, <2>3, <1>4 DEF DepsDone
<1>9. /\ q.db \in Database /\ DepsDone(q.db) /\ Keeps(e(R), q.db)
  BY <1>1, <1>4, <1>5, <1>7, <1>8, VisitReadyLemma
<1>. QED  BY <1>4, <1>9, KeepsTransitive

\* Cancelling the timers of a run changes nothing else.
LEMMA CancelTimersType ==
  ASSUME NEW d \in Database
  PROVE  /\ CancelTimersForRun(d) \in Database
         /\ CancelTimersForRun(d).step = d.step
         /\ Keeps(d, CancelTimersForRun(d))
  BY DEF CancelTimersForRun, Database, Keeps

\* checkRunCompletion moves the run forward only, whatever it read.
LEMMA CheckRunCompletionLemma ==
  ASSUME NEW d \in Database, NEW r, NEW v
  PROVE  LET e == checkRunCompletion(d, r, v)
         IN  e \in Database /\ e.step = d.step /\ Keeps(d, e)
<1>1. Verdict(v) \in RunTerminal
  BY DEF Verdict, RunTerminal
<1>. DEFINE started == IF r = "PENDING" /\ anyDispatchedOrRunning(v)
                       THEN UpdateWorkflowRunStatus(d, {"PENDING"}, "RUNNING") ELSE d
            shut == [started EXCEPT !.run = Verdict(v)]
            closed == IF started.run \in RunLive THEN AppendHistory(shut, Verdict(v)) ELSE started
<1>2. started \in Database /\ started.step = d.step /\ Keeps(d, started)
  <2>1. {"PENDING"} \in SUBSET RunStatus /\ "RUNNING" \in RunStatus \ {"NONE"} /\ {"PENDING"} \cap RunTerminal = {}
    BY DEF RunStatus, RunLive, RunTerminal
  <2>. QED  BY <2>1, RunStatusType, KeepsReflexive
<1>. HIDE DEF started
<1>3. started.run \in RunLive => shut \in Database /\ shut.step = started.step /\ Keeps(started, shut)
  BY <1>1, <1>2 DEF Database, Keeps, RunStatus, RunLive, RunTerminal
<1>. HIDE DEF shut
<1>4. closed \in Database /\ closed.step = started.step /\ Keeps(started, closed)
  <2>1. CASE started.run \in RunLive
    <3>1. Append(shut.ended, Verdict(v)) \in Seq(RunTerminal)
      BY <1>1, <1>3, <2>1 DEF Database
    <3>. QED  BY <1>3, <2>1, <3>1 DEF AppendHistory, Database, Keeps
  <2>2. CASE started.run \notin RunLive
    BY <1>2, <2>2, KeepsReflexive
  <2>. QED  BY <2>1, <2>2
<1>. HIDE DEF closed
<1>5. CancelTimersForRun(closed) \in Database /\ CancelTimersForRun(closed).step = closed.step
      /\ Keeps(closed, CancelTimersForRun(closed))
  BY <1>4, CancelTimersType
<1>6. checkRunCompletion(d, r, v) = IF allTerminal(v) THEN CancelTimersForRun(closed) ELSE started
  BY DEF checkRunCompletion, closed, shut, started
<1>. QED
  <2>1. CASE allTerminal(v)
    BY <2>1, <1>2, <1>4, <1>5, <1>6, KeepsTransitive
  <2>2. CASE ~allTerminal(v)
    BY <2>2, <1>2, <1>6
  <2>. QED  BY <2>1, <2>2

\* A whole pass, from any view that is sound about COMPLETED steps, however stale
\* otherwise: well-typed, no step started early, nothing final rewritten.
LEMMA ReconcileTxLemma ==
  ASSUME NEW d \in Database, NEW r, NEW v \in [Steps -> StepStatus], NEW c \in [Steps -> Nat],
         SeesCompleted(d, v), DepsDone(d), NEW o \in reconcileTx(d, r, v, c)
  PROVE  o.db \in Database /\ DepsDone(o.db) /\ Keeps(d, o.db)
<1>1. CASE r \in RunTerminal
  BY <1>1, KeepsReflexive DEF reconcileTx
<1>2. CASE r \notin RunTerminal
  <2>. DEFINE p == propagateSkips(d, v)
  <2>1. PICK q \in dispatchReady(p.db, p.v, c) : o.db = checkRunCompletion(q.db, r, q.v)
    BY <1>2 DEF reconcileTx
  <2>2. /\ p.db \in Database /\ p.v \in [Steps -> StepStatus]
        /\ SeesCompleted(p.db, p.v) /\ DepsDone(p.db) /\ Keeps(d, p.db)
    BY PropagateSkipsLemma
  <2>. HIDE DEF p
  <2>3. q.db \in Database /\ DepsDone(q.db) /\ Keeps(p.db, q.db)
    BY <2>2, DispatchReadyLemma
  <2>4. o.db \in Database /\ o.db.step = q.db.step /\ Keeps(q.db, o.db)
    BY <2>1, <2>3, CheckRunCompletionLemma
  <2>5. DepsDone(o.db)
    BY <2>3, <2>4 DEF DepsDone
  <2>. QED  BY <2>2, <2>3, <2>4, <2>5, KeepsTransitive
<1>. QED  BY <1>1, <1>2
----------------------------------------------------------------------------
\* TerminalIsFinal, of a pair of database values.
Final(d, e) ==
  /\ d.run \in RunTerminal => e.run = d.run
  /\ \A s \in Steps :
       /\ d.step[s] \in StepTerminal => e.step[s] = d.step[s]
       /\ \A n \in DOMAIN d.att[s] : d.att[s][n] \in Settled => e.att[s][n] = d.att[s][n]

\* Keeping everything rewrites nothing final.
LEMMA KeepsFinal ==
  ASSUME NEW d, NEW e, Keeps(d, e) PROVE Final(d, e)
  BY DEF Keeps, Final

\* Moving a step on from a started, open status starts nothing early.
LEMMA MoveStarted ==
  ASSUME NEW d \in Database, NEW s \in Steps, NEW K \in SUBSET (Started \ StepTerminal),
         NEW next \in StepStatus, DepsDone(d)
  PROVE  LET e == UpdateStepStatus(d, {s}, AnyOf(K), next)
         IN  e \in Database /\ DepsDone(e) /\ Keeps(d, e)
<1>. DEFINE e == UpdateStepStatus(d, {s}, AnyOf(K), next)
<1>1. AnyOf(K) \in [Steps -> SUBSET StepStatus]
  BY ViewTypes DEF Started
<1>2. e \in Database
  BY <1>1, UpdateStepStatusType
<1>3. \A q \in Steps : e.step[q] = IF q = s /\ d.step[q] \in K THEN next ELSE d.step[q]
  BY UpdateStepStatusSteps DEF AnyOf
<1>4. Keeps(d, e)
  <2>1. \A q \in {s} : AnyOf(K)[q] \cap StepTerminal = {}
    BY DEF AnyOf
  <2>. QED  BY <1>1, <2>1, UpdateStepStatusKeeps
<1>. HIDE DEF e
<1>5. DepsDone(e)
  <2>1. SUFFICES ASSUME NEW q \in Steps, e.step[q] \in Started, NEW p \in DependsOn[q]
                 PROVE  e.step[p] = "COMPLETED"
    BY DEF DepsDone
  <2>2. p \in Steps
    BY DependsOnAssumption
  <2>3. d.step[q] \in Started
    BY <2>1, <1>3
  <2>4. d.step[p] = "COMPLETED"
    BY <2>3 DEF DepsDone
  <2>. QED  BY <2>2, <2>4, <1>4 DEF Keeps, StepTerminal
<1>. QED  BY <1>2, <1>4, <1>5 DEF e

\* The update of the timers table when an attempt fails,
LEMMA InsertTimerType ==
  ASSUME NEW d \in Database, NEW s \in Steps
  PROVE  InsertTimer(d, s) \in Database /\ InsertTimer(d, s).step = d.step
         /\ Keeps(d, InsertTimer(d, s))
<1>1. [d.timer EXCEPT ![s] = d.timer[s] + 1] \in [Steps -> Nat]
  BY DEF Database
<1>2. InsertTimer(d, s) = [d EXCEPT !.timer = [d.timer EXCEPT ![s] = d.timer[s] + 1]]
  BY DEF InsertTimer, Database
<1>. QED  BY <1>1, <1>2 DEF Database, Keeps

\* when a timer fires,
LEMMA FireTimerType ==
  ASSUME NEW d \in Database, NEW s \in Steps
  PROVE  FireTimerCAS(d, s) \in Database /\ FireTimerCAS(d, s).step = d.step
         /\ Keeps(d, FireTimerCAS(d, s))
<1>. DEFINE left == IF d.timer[s] > 0 THEN d.timer[s] - 1 ELSE d.timer[s]
<1>1. [d.timer EXCEPT ![s] = left] \in [Steps -> Nat]
  BY DEF Database
<1>2. FireTimerCAS(d, s) = [d EXCEPT !.timer = [d.timer EXCEPT ![s] = left]]
  BY DEF FireTimerCAS, Database
<1>. HIDE DEF left
<1>. QED  BY <1>1, <1>2 DEF Database, Keeps

\* and of the signals table when a signal arrives, touch nothing else.
LEMMA InsertSignalType ==
  ASSUME NEW d \in Database, NEW n \in SignalNames
  PROVE  InsertSignal(d, n) \in Database /\ InsertSignal(d, n).step = d.step
         /\ Keeps(d, InsertSignal(d, n))
<1>1. [d.sig EXCEPT ![n] = d.sig[n] + 1] \in [SignalNames -> Nat]
  BY DEF Database
<1>2. InsertSignal(d, n) = [d EXCEPT !.sig = [d.sig EXCEPT ![n] = d.sig[n] + 1]]
  BY DEF InsertSignal, Database
<1>. QED  BY <1>1, <1>2 DEF Database, Keeps

\* What the three updates of a task_attempts row have in common.
SetAttempt(d, s, n, k) == [d EXCEPT !.att = [d.att EXCEPT ![s] = [d.att[s] EXCEPT ![n] = k]]]

\* Such an update changes one attempt and nothing else.
LEMMA SetAttemptType ==
  ASSUME NEW d \in Database, NEW s \in Steps, NEW n \in DOMAIN d.att[s], NEW k \in AttemptStatus
  PROVE  /\ SetAttempt(d, s, n, k) \in Database
         /\ SetAttempt(d, s, n, k).run = d.run
         /\ SetAttempt(d, s, n, k).step = d.step
         /\ \A q \in Steps : /\ DOMAIN SetAttempt(d, s, n, k).att[q] = DOMAIN d.att[q]
                             /\ \A m \in DOMAIN d.att[q] : SetAttempt(d, s, n, k).att[q][m]
                                  = IF q = s /\ m = n THEN k ELSE d.att[q][m]
<1>. DEFINE row == [d.att[s] EXCEPT ![n] = k]
            att == [d.att EXCEPT ![s] = row]
<1>1. d.att \in [Steps -> Seq(AttemptStatus)] /\ d.att[s] \in Seq(AttemptStatus)
  BY DEF Database
<1>2. row \in Seq(AttemptStatus) /\ DOMAIN row = DOMAIN d.att[s]
  <2>1. row = [m \in 1 .. Len(d.att[s]) |-> IF m = n THEN k ELSE d.att[s][m]]
    BY <1>1
  <2>. QED  BY <1>1, <2>1
<1>3. \A m \in DOMAIN d.att[s] : row[m] = IF m = n THEN k ELSE d.att[s][m]
  OBVIOUS
<1>. HIDE DEF row
<1>4. att \in [Steps -> Seq(AttemptStatus)]
  BY <1>1, <1>2
<1>5. \A q \in Steps : att[q] = IF q = s THEN row ELSE d.att[q]
  BY <1>1
<1>6. SetAttempt(d, s, n, k) = [d EXCEPT !.att = att]
  BY DEF SetAttempt, row
<1>. HIDE DEF att
<1>7. /\ SetAttempt(d, s, n, k) \in Database /\ SetAttempt(d, s, n, k).att = att
      /\ SetAttempt(d, s, n, k).run = d.run /\ SetAttempt(d, s, n, k).step = d.step
  BY <1>4, <1>6 DEF Database
<1>. QED  BY <1>2, <1>3, <1>5, <1>7
=============================================================================
