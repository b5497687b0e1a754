---------------------------- MODULE WorkflowDSL ----------------------------
(***************************************************************************)
(* Validation of a workflow definition (internal/workflowdsl), the gate    *)
(* every definition passes before the engine makes runs of it.  Validate's *)
(* checks and defaults are one step; the depth-first search of findCycle   *)
(* is a step per call, return and edge, with its call stack as state.      *)
(***************************************************************************)
EXTENDS Integers, Sequences, FiniteSets

CONSTANTS
  Definitions,    \* the documents that may be submitted
  Blank           \* a name of white space

VARIABLES
  def,        \* the definition: titled, and steps with name, typed, depends_on, max_attempts
  phase,      \* submitted, searching, or answered
  color,      \* of each step name
  calls,      \* the pending calls of visit: the step, and the edges it has yet to follow
  next,       \* the step the outer loop of findCycle looks at next
  answer      \* what Validate returned
vars == <<def, phase, color, calls, next, answer>>

Names(d) == {d.steps[i].name : i \in DOMAIN d.steps}
byName(d, n) == d.steps[CHOOSE i \in DOMAIN d.steps : d.steps[i].name = n]

\* What a step depends on, as a relation between names.
DependsOn(d, n) == {byName(d, n).depends_on[i] : i \in DOMAIN byName(d, n).depends_on}

Init ==
  /\ def \in Definitions
  /\ phase = "submitted"
  /\ color = [n \in Names(def) |-> "white"]
  /\ calls = <<>>
  /\ next = 1
  /\ answer = [kind |-> "none", step |-> Blank]

\* The search and its bookkeeping are well formed.
TypeOK ==
  /\ phase \in {"submitted", "searching", "answered"}
  /\ color \in [Names(def) -> {"white", "gray", "black"}]
  /\ \A i \in DOMAIN calls : calls[i].step \in Names(def)
  /\ next \in 1 .. Len(def.steps) + 1
  /\ answer.kind \in {"none", "malformed", "cycle", "valid"}
  /\ (answer.kind = "none") <=> (phase # "answered")
----------------------------------------------------------------------------
\* The loop over the steps: names present and unique, types present.
StepsNamed(d) ==
  \A i \in DOMAIN d.steps :
    /\ d.steps[i].name # Blank /\ d.steps[i].typed
    /\ \A j \in 1 .. i - 1 : d.steps[j].name # d.steps[i].name

\* The loop over the dependencies: known steps, no self-dependency.
DependenciesKnown(d) ==
  \A i \in DOMAIN d.steps : \A k \in DOMAIN d.steps[i].depends_on :
    d.steps[i].depends_on[k] \in Names(d) \ {d.steps[i].name}

HasRoot(d) == \E i \in DOMAIN d.steps : d.steps[i].depends_on = <<>>

\* Defaults for unset fields, in place.
Defaulted(d) ==
  [d EXCEPT !.steps = [i \in DOMAIN d.steps |->
     [d.steps[i] EXCEPT !.max_attempts = IF @ <= 0 THEN 1 ELSE @]]]

Answer(kind, n) == phase' = "answered" /\ answer' = [kind |-> kind, step |-> n]

\* Mutant: a problem is noted, but does not end the validation.
ValidateGoesOn ==
  /\ phase = "submitted"
  /\ def' = Defaulted(def)
  /\ phase' = "searching"
  /\ answer' = IF StepsNamed(def) /\ DependenciesKnown(def) /\ HasRoot(def)
               THEN answer ELSE [kind |-> "malformed", step |-> Blank]
  /\ UNCHANGED <<color, calls, next>>

\* Validate up to the call of findCycle.
Validate ==
  /\ phase = "submitted"
  /\ IF /\ def.titled /\ def.steps # <<>>
        /\ StepsNamed(def) /\ DependenciesKnown(def) /\ HasRoot(def)
     THEN /\ def' = Defaulted(def)
          /\ phase' = "searching"
          /\ UNCHANGED answer
     ELSE /\ Answer("malformed", Blank)
          /\ UNCHANGED def
  /\ UNCHANGED <<color, calls, next>>

\* The call visit(n), with the calls pending behind it.
Call(n, pending) ==
  /\ color' = [color EXCEPT ![n] = "gray"]
  /\ calls' = Append(pending, [step |-> n, edges |-> byName(def, n).depends_on])

\* The outer loop of findCycle: visit the next step if it is white.
VisitRoot ==
  /\ phase = "searching" /\ calls = <<>> /\ next <= Len(def.steps)
  /\ next' = next + 1
  /\ IF color[def.steps[next].name] = "white"
     THEN Call(def.steps[next].name, calls) ELSE UNCHANGED <<color, calls>>
  /\ UNCHANGED <<def, phase, answer>>

\* The innermost call, and the rest of its loop over depends_on.
Top == calls[Len(calls)]
Advanced == [calls EXCEPT ![Len(calls)].edges = Tail(@)]

\* Mutant: a gray dependency is passed over like a black one.
FollowEdgeGrayPasses ==
  /\ phase = "searching" /\ calls # <<>> /\ Top.edges # <<>>
  /\ LET dep == Head(Top.edges) IN
     IF color[dep] = "white"
     THEN Call(dep, Advanced) ELSE calls' = Advanced /\ UNCHANGED color
  /\ UNCHANGED <<def, phase, next, answer>>

\* Mutant: the loop over depends_on does not advance past a black dependency.
FollowEdgeStays ==
  /\ phase = "searching" /\ calls # <<>> /\ Top.edges # <<>>
  /\ LET dep == Head(Top.edges) IN
     CASE color[dep] = "white" -> Call(dep, calls) /\ UNCHANGED <<phase, answer>>
       [] color[dep] = "gray" -> Answer("cycle", dep) /\ UNCHANGED <<color, calls>>
       [] OTHER -> UNCHANGED <<color, calls, phase, answer>>
  /\ UNCHANGED <<def, next>>

\* One turn of visit's loop over depends_on: call, report a cycle, or pass.
FollowEdge ==
  /\ phase = "searching" /\ calls # <<>> /\ Top.edges # <<>>
  /\ LET dep == Head(Top.edges) IN
     CASE color[dep] = "white" -> Call(dep, Advanced) /\ UNCHANGED <<phase, answer>>
       [] color[dep] = "gray" -> Answer("cycle", dep) /\ UNCHANGED <<color, calls>>
       [] OTHER -> calls' = Advanced /\ UNCHANGED <<color, phase, answer>>
  /\ UNCHANGED <<def, next>>

\* Mutant: a step that is done stays gray.
ReturnGray ==
  /\ phase = "searching" /\ calls # <<>> /\ Top.edges = <<>>
  /\ calls' = SubSeq(calls, 1, Len(calls) - 1)
  /\ UNCHANGED <<def, phase, color, next, answer>>

\* The end of visit.
Return ==
  /\ phase = "searching" /\ calls # <<>> /\ Top.edges = <<>>
  /\ color' = [color EXCEPT ![Top.step] = "black"]
  /\ calls' = SubSeq(calls, 1, Len(calls) - 1)
  /\ UNCHANGED <<def, phase, next, answer>>

Accept ==
  /\ phase = "searching" /\ calls = <<>> /\ next > Len(def.steps)
  /\ Answer("valid", Blank)
  /\ UNCHANGED <<def, color, calls, next>>

Next == Validate \/ VisitRoot \/ FollowEdge \/ Return \/ Accept
Spec == Init /\ [][Next]_vars
FairSpec == Spec /\ WF_vars(Next)
----------------------------------------------------------------------------
\* A definition Validate accepts is one the engine can run to its end: every dependency
\* is a step of it, steps may be attempted at least once, and no set of steps waits for
\* itself (in every set there is a step with no dependency inside it), so that
\* reconcileTx always finds a step to dispatch.  This is what the models of the engine
\* assume of a definition.
ValidIsRunnable ==
  answer.kind = "valid" =>
    LET S == Names(def) IN
    /\ S # {} /\ Cardinality(S) = Len(def.steps)
    /\ \A n \in S : DependsOn(def, n) \subseteq S /\ byName(def, n).max_attempts >= 1
    /\ \A T \in SUBSET S \ {{}} : \E n \in T : DependsOn(def, n) \cap T = {}

\* No good definition is turned away: the step findCycle names is on a cycle. (Every
\* set that holds what the step depends on, and is closed under dependencies, holds
\* the step itself.)  A diamond, whose tip is reached twice, is no cycle.
CycleIsReal ==
  answer.kind = "cycle" =>
    \A T \in SUBSET Names(def) :
      DependsOn(def, answer.step) \subseteq T /\ (\A n \in T : DependsOn(def, n) \subseteq T)
        => answer.step \in T

\* Validate returns, whatever the document: the search follows every edge once.
ValidateReturns == <>(phase = "answered")
=============================================================================
