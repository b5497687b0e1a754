----------------------------- MODULE Scheduler -----------------------------
(***************************************************************************)
(* The sharded scheduler (internal/scheduler) and its leader lock          *)
(* (internal/lock/redislock): server nodes write heartbeats to a sorted    *)
(* set in Redis, whoever holds the lock computes the shard map from the    *)
(* live members and writes it, and every node reads it to learn which      *)
(* shards its relay, timer poller and recovery sweep serve.                *)
(*                                                                         *)
(* Time is abstracted.  The heartbeat of a dead node is stale, and its     *)
(* lock expires, at some later moment; those of a live node only if it is  *)
(* held up for longer than the 12 and 15 seconds allowed (a fault).        *)
(***************************************************************************)
EXTENDS Ring, FiniteSetsExt, SequencesExt

CONSTANTS
  Nodes, Shards,
  Point,        \* the replicas of each node on the ring
  Key,          \* the place of each shard on the ring
  MaxFaults     \* hold-ups, errors of Redis and later starts (bound)

ASSUME SchedulerAssumption ==
  /\ IsFiniteSet(Nodes) /\ Nodes # {} /\ Nobody \notin Nodes
  /\ Point \in [Nodes -> SUBSET Nat] /\ \A n \in Nodes : Point[n] # {}
  /\ Key \in [Shards -> Nat]
  /\ MaxFaults \in Nat

VARIABLES
  up,          \* the nodes that run
  members,     \* the nodes with a recent heartbeat
  leader,      \* who holds the leader lock
  shardMap,    \* the published assignment
  loop,        \* where each leader loop is: waiting, elected, or about to publish a map
  isLeader,    \* the nodes whose last TryAcquire succeeded
  owned,       \* OwnedShards; nil, which filters nothing, is Shards
  faults
vars == <<up, members, leader, shardMap, loop, isLeader, owned, faults>>

NoMap == <<>>
Waiting == [at |-> "waiting", map |-> NoMap]
Maps == [Shards -> Nodes]

\* Redis and the nodes' memory are well formed; above all, a published map gives
\* every shard to a node, never to the empty owner of an empty ring.
TypeOK ==
  /\ up \subseteq Nodes
  /\ members \subseteq Nodes
  /\ leader \in Nodes \cup {Nobody}
  /\ shardMap \in Maps \cup {NoMap}
  /\ loop \in [Nodes -> [at : {"waiting", "elected", "computed"}, map : Maps \cup {NoMap}]]
  /\ isLeader \subseteq Nodes
  /\ owned \in [Nodes -> SUBSET Shards]
  /\ faults \in 0 .. MaxFaults

Init ==
  /\ up \in SUBSET Nodes \ {{}} /\ members = {} /\ leader = Nobody /\ shardMap = NoMap
  /\ loop = [n \in Nodes |-> Waiting]
  /\ isLeader = {}
  /\ owned = [n \in Nodes |-> IF n \in up THEN Shards ELSE {}]
  /\ faults = 0

\* What AssignShards may make of a set of members: ZRANGE lists them by the time of
\* their heartbeats, in any order.
Assignments == [S \in SUBSET Nodes |-> {AssignShards(Point, Key, ids) : ids \in SetToSeqs(S)}]

\* A process that ends loses its memory.
Forget(n) ==
  /\ up' = up \ {n}
  /\ loop' = [loop EXCEPT ![n] = Waiting]
  /\ isLeader' = isLeader \ {n}
  /\ owned' = [owned EXCEPT ![n] = {}]
----------------------------------------------------------------------------
Faulty == faults < MaxFaults /\ faults' = faults + 1

\* A process starts with no leadership and no shard map.
StartNode(n) ==
  /\ n \notin up
  /\ Faulty
  /\ up' = up \cup {n}
  /\ owned' = [owned EXCEPT ![n] = Shards]
  /\ UNCHANGED <<members, leader, shardMap, loop, isLeader>>

\* ZADD with the current time.
heartbeat(n) ==
  /\ n \in up
  /\ members' = members \cup {n}
  /\ UNCHANGED <<up, leader, shardMap, loop, isLeader, owned, faults>>

\* The score of n falls behind the cutoff of liveMembers.
Stale(n) ==
  /\ n \in members
  /\ IF n \in up THEN Faulty ELSE UNCHANGED faults
  /\ members' = members \ {n}
  /\ UNCHANGED <<up, leader, shardMap, loop, isLeader, owned>>

\* The key of the lock reaches its TTL.
LockExpires ==
  /\ leader # Nobody
  /\ IF leader \in up THEN Faulty ELSE UNCHANGED faults
  /\ leader' = Nobody
  /\ UNCHANGED <<up, members, shardMap, loop, isLeader, owned>>

\* SET NX, or the renew script: the key is absent or holds n's own name.
Obtainable(n) == leader \in {Nobody, n}

\* The release script: the key is deleted if it holds n's name.
Release(n) == leader' = IF leader = n THEN Nobody ELSE leader

\* A tick of leaderLoop, to the answer of TryAcquire.
TryAcquire(n) ==
  /\ n \in up /\ loop[n].at = "waiting"
  /\ IF Obtainable(n)
     THEN /\ leader' = n /\ isLeader' = isLeader \cup {n}
          /\ loop' = [loop EXCEPT ![n].at = "elected"]
     ELSE isLeader' = isLeader \ {n} /\ UNCHANGED <<leader, loop>>
  /\ UNCHANGED <<up, members, shardMap, owned, faults>>

\* The lock is taken or renewed, but the reply is an error.
TryAcquireFails(n) ==
  /\ n \in up /\ loop[n].at = "waiting" /\ Obtainable(n)
  /\ Faulty
  /\ leader' = n
  /\ UNCHANGED <<up, members, shardMap, loop, isLeader, owned>>

\* Mutant: the map is computed even if no node has a recent heartbeat.
liveMembersUnchecked(n) ==
  /\ n \in up /\ loop[n].at = "elected"
  /\ \E map \in Assignments[members] : loop' = [loop EXCEPT ![n] = [at |-> "computed", map |-> map]]
  /\ UNCHANGED <<up, members, leader, shardMap, isLeader, owned, faults>>

\* publishShardMap, to the assignment.
liveMembers(n) ==
  /\ n \in up /\ loop[n].at = "elected"
  /\ IF members = {} THEN loop' = [loop EXCEPT ![n] = Waiting]
     ELSE \E map \in Assignments[members] : loop' = [loop EXCEPT ![n] = [at |-> "computed", map |-> map]]
  /\ UNCHANGED <<up, members, leader, shardMap, isLeader, owned, faults>>

\* publishShardMap, the SET: whoever holds the lock by now.
publishShardMap(n) ==
  /\ n \in up /\ loop[n].at = "computed"
  /\ shardMap' = loop[n].map
  /\ loop' = [loop EXCEPT ![n] = Waiting]
  /\ UNCHANGED <<up, members, leader, isLeader, owned, faults>>

\* An error of ZRANGE or SET: nothing is published this time.
publishFails(n) ==
  /\ n \in up /\ loop[n].at # "waiting"
  /\ Faulty
  /\ loop' = [loop EXCEPT ![n] = Waiting]
  /\ UNCHANGED <<up, members, leader, shardMap, isLeader, owned>>

\* Mutant: a node that is assigned nothing keeps what it has.
refreshOwnedShardsKeep(n) ==
  /\ n \in up /\ shardMap # NoMap
  /\ \E i \in Shards : shardMap[i] = n
  /\ owned' = [owned EXCEPT ![n] = {i \in Shards : shardMap[i] = n}]
  /\ UNCHANGED <<up, members, leader, shardMap, loop, isLeader, faults>>

refreshOwnedShards(n) ==
  /\ n \in up /\ shardMap # NoMap
  /\ owned' = [owned EXCEPT ![n] = {i \in Shards : shardMap[i] = n}]
  /\ UNCHANGED <<up, members, leader, shardMap, loop, isLeader, faults>>

Crash(n) ==
  /\ n \in up
  /\ Forget(n)
  /\ UNCHANGED <<members, leader, shardMap, faults>>

\* Mutant: DEL without looking whose lock it is.
ShutdownDeletes(n) ==
  /\ n \in up /\ loop[n].at = "waiting"
  /\ Forget(n)
  /\ leader' = IF n \in isLeader THEN Nobody ELSE leader
  /\ UNCHANGED <<members, shardMap, faults>>

\* Shutdown: the loops end; a leader releases the lock if it is still its own.
Shutdown(n) ==
  /\ n \in up /\ loop[n].at = "waiting"
  /\ Forget(n)
  /\ IF n \in isLeader THEN Release(n) ELSE UNCHANGED leader
  /\ UNCHANGED <<members, shardMap, faults>>
----------------------------------------------------------------------------
Next ==
  \/ LockExpires
  \/ \E n \in Nodes :
       \/ StartNode(n) \/ Crash(n) \/ Shutdown(n)
       \/ heartbeat(n) \/ Stale(n) \/ refreshOwnedShards(n)
       \/ TryAcquire(n) \/ TryAcquireFails(n)
       \/ liveMembers(n) \/ publishShardMap(n) \/ publishFails(n)

Spec == Init /\ [][Next]_vars

\* What a dead node left in Redis reaches its age limit.
Ages == (leader \notin up /\ LockExpires) \/ \E n \in Nodes \ up : Stale(n)

(***************************************************************************)
(* The tickers of running nodes fire for ever, and what a dead node left   *)
(* in Redis ages; nothing makes a dead node start again.  It is enough     *)
(* that some node whose tick would change something gets its turn.         *)
(***************************************************************************)
FairSpec ==
  /\ Spec
  /\ WF_vars(Ages)
  /\ WF_vars(\E n \in Nodes : heartbeat(n))
  /\ WF_vars(\E n \in Nodes : refreshOwnedShards(n))
  /\ WF_vars(\E n \in Nodes : TryAcquire(n) \/ liveMembers(n) \/ publishShardMap(n))
----------------------------------------------------------------------------
Serves(n, i) == n \in up /\ i \in owned[n]

\* Once crashes and hold-ups stop, every shard is and stays with exactly one running
\* node, if any node runs: neither a paused leader that overwrites the map late
\* (publishShardMap does not check the lock again), nor a map computed before a node
\* joined or died, nor a dead leader's lock leaves a shard's outbox rows and timers
\* unserved, or served twice, for ever.
ShardsServed ==
  <>[](up # {} => \A i \in Shards : Cardinality({n \in Nodes : Serves(n, i)}) = 1)

\* The leader lock is taken from its holder by expiry or by the holder's own shutdown
\* only: the release and renew scripts of a node that was leader once, and believes it
\* is, never disturb its successor.
LockKept ==
  [][leader # Nobody /\ leader' # leader =>
       leader' = Nobody /\ (up' = up \/ up' = up \ {leader})]_vars

\* When one node leaves the ring only its own shards get another owner, and they get
\* one of those left: a hold-up of one node does not move the work of the others.
RebalanceIsLocal ==
  [][\A n \in members : members' = members \ {n} /\ members' # {} =>
       \A before \in Assignments[members], after \in Assignments[members'] :
         \A i \in Shards : after[i] \in members' /\ (before[i] # n => after[i] = before[i])]_members
============================================================================
