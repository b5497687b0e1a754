------------------------------ MODULE Attempts ------------------------------
(***************************************************************************)
(* The life of the task attempts of one step: what the engine and the      *)
(* workers, who share the task_attempts rows, promise each other.  An      *)
(* attempt is queued, leased once and settled once; the next one is queued *)
(* only after it failed or its lease expired.                              *)
(***************************************************************************)
EXTENDS Naturals, Sequences

CONSTANT Limit    \* max_attempts of the step

VARIABLE att      \* the statuses of its attempts, in order

Init == att = <<>>

Retriable == {"FAILED", "EXPIRED"}

Queue ==
  /\ Len(att) < Limit
  /\ att # <<>> => att[Len(att)] \in Retriable
  /\ att' = Append(att, "QUEUED")

\* Only the latest attempt can move.
Move(from, next) ==
  /\ att # <<>>
  /\ att[Len(att)] = from
  /\ att' = [att EXCEPT ![Len(att)] = next]

Claim == Move("QUEUED", "LEASED")

Settle == \E outcome \in {"SUCCEEDED"} \cup Retriable : Move("LEASED", outcome)

Next == Queue \/ Claim \/ Settle

Spec == Init /\ [][Next]_att
=============================================================================
