---------------------------- MODULE MCScheduler ----------------------------
(***************************************************************************)
(* Three nodes with two replicas each.  When all are present the second    *)
(* owns nothing, and the key of shard 2 lies behind the last replica.      *)
(***************************************************************************)
EXTENDS Scheduler, TLC

CONSTANTS n1, n2, n3

Three == {n1, n2, n3}
ThreePoints == n1 :> {0, 3} @@ n2 :> {1, 4} @@ n3 :> {2, 5}
Places == 1 :> 5 @@ 2 :> 6
============================================================================
