-------------------------------- MODULE Ring --------------------------------
(***************************************************************************)
(* The consistent-hash ring of internal/scheduler/ring.go.  CRC-32 is a    *)
(* parameter: point[n] are the hashes of the replicas of node n, and       *)
(* key[i] is the hash of shard i.  Two nodes may share a point.            *)
(***************************************************************************)
EXTENDS Naturals, Sequences

Nobody == "nobody"    \* the empty owner

\* The smallest element of a set of naturals.
Least(S) == CHOOSE h \in S : \A k \in S : h <= k

\* NewRing: ids in the order they are added; at a shared point the last one wins.
hashToNode(point, ids) ==
  [h \in UNION {point[ids[k]] : k \in DOMAIN ids} |->
     ids[CHOOSE k \in DOMAIN ids : /\ h \in point[ids[k]]
                                   /\ \A m \in DOMAIN ids : m > k => h \notin point[ids[m]]]]

\* Get: the first point at or behind the key, around the circle.
Get(ring, k) ==
  IF DOMAIN ring = {} THEN Nobody
  ELSE LET behind == {h \in DOMAIN ring : h >= k}
       IN  ring[Least(IF behind = {} THEN DOMAIN ring ELSE behind)]

\* Mutant: the shards are dealt out modulo the number of nodes.
AssignShardsModulo(point, key, ids) ==
  [i \in DOMAIN key |-> IF ids = <<>> THEN Nobody ELSE ids[1 + (key[i] % Len(ids))]]

\* Shard i belongs to the node its own hash leads to.
AssignShards(point, key, ids) ==
  [i \in DOMAIN key |-> Get(hashToNode(point, ids), key[i])]
=============================================================================
