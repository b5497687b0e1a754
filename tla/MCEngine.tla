------------------------------ MODULE MCEngine ------------------------------
(***************************************************************************)
(* Instances of Engine for TLC: the workflow definitions the runs use.     *)
(***************************************************************************)
EXTENDS EngineRefinement, TLC

\* Two branches and a join; one branch has a retry.
FanInSteps == {"left", "right", "join"}
FanInDeps == [left |-> {}, right |-> {}, join |-> {"left", "right"}]
FanInMax == [left |-> 2, right |-> 1, join |-> 1]

\* Two steps in sequence, the first with a retry.
ChainSteps == {"first", "second"}
ChainDeps == [first |-> {}, second |-> {"first"}]
ChainMax == [first |-> 2, second |-> 1]

\* A task, a signal_wait step behind it, and a task behind that.
ApprovalSteps == {"draft", "approve", "ship"}
ApprovalDeps == [draft |-> {}, approve |-> {"draft"}, ship |-> {"approve"}]
ApprovalMax == [draft |-> 2, approve |-> 1, ship |-> 1]
ApprovalWaits == {"approve"}
ApprovalSignal == [approve |-> "go"]

\* Two signal_wait steps with the same signal name, a task between them.
GatesSteps == {"open", "work", "close"}
GatesDeps == [open |-> {}, work |-> {"open"}, close |-> {"work"}]
GatesMax == [open |-> 1, work |-> 1, close |-> 1]
GatesWaits == {"open", "close"}
GatesSignal == [open |-> "go", close |-> "go"]

NoSignal == [s \in {} |-> "go"]

Slots == Permutations(Txs)
=============================================================================
