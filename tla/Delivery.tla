------------------------------ MODULE Delivery ------------------------------
(***************************************************************************)
(* How a dispatched task reaches a handler and its result comes back: the  *)
(* outbox row written with the attempt, the relay (internal/outbox), the   *)
(* Redis stream and its consumer group (internal/queue/redisstream), the   *)
(* workers (internal/worker) and their calls to the server                 *)
(* (internal/grpcapi).  The tasks are the attempts of one step; the engine *)
(* appears by what it does to them: Dispatch, Reap, and the update of a    *)
(* report.  Relays and workers crash, calls are lost, deliveries repeat.   *)
(*                                                                         *)
(* Time is abstracted: a lease may expire, and a delivery that is not      *)
(* acknowledged may be stolen, at any moment.                              *)
(***************************************************************************)
EXTENDS Naturals, Sequences, FiniteSets

CONSTANTS
  Workers, Relays,
  MaxAttempts,    \* max_attempts of the step
  Hands,          \* names for the messages a worker can hold at a time (bound)
  MaxFaults,      \* crashes and lost calls (bound)
  BatchSize,
  NoWorker

ASSUME BoundsAssumption ==
  /\ MaxAttempts \in Nat \ {0} /\ BatchSize \in Nat \ {0}
  /\ MaxFaults \in Nat
  /\ NoWorker \notin Workers

VARIABLES
  run,       \* whether the run has been cancelled
  att,       \* task_attempts rows; started counts the handler calls (history)
  outbox,    \* the status of the outbox row of each attempt
  batch,     \* the open transaction of each relay: rows to publish, rows marked
  stream,    \* entries of the Redis stream: the attempts they name
  group,     \* the consumer group exists
  read,      \* its last-delivered entry
  pel,       \* its pending entries: delivered to whom, not acknowledged
  up,        \* the workers that consume
  job,       \* the messages in a worker's hands, in its channel or a goroutine
  faults

postgres == <<run, att, outbox>>
redis == <<stream, group, read, pel>>
vars == <<run, att, outbox, batch, stream, group, read, pel, up, job, faults>>

Empty == [stage |-> "empty", entry |-> 0]

\* received: before the claim; claimed: the server has leased the attempt; granted: it
\* has answered CLAIMED; running: in the handler; ok, bad: to report; done: to acknowledge.
Stages == {"received", "claimed", "granted", "running", "ok", "bad", "done"}
PastClaim == {"claimed", "granted", "running", "ok", "bad"}

NoBatch == [todo |-> {}, sent |-> {}]

Attempt == [status : {"QUEUED", "LEASED", "SUCCEEDED", "FAILED", "EXPIRED"},
            owner : Workers \cup {NoWorker}, started : Nat]

\* Rows, entries, transactions and messages in hand are well formed.
TypeOK ==
  /\ run \in {"RUNNING", "CANCELLED"}
  /\ att \in Seq(Attempt) /\ Len(att) <= MaxAttempts
  /\ outbox \in [DOMAIN att -> {"PENDING", "PUBLISHED"}]
  /\ batch \in [Relays -> [todo : SUBSET DOMAIN att, sent : SUBSET DOMAIN att]]
  /\ stream \in Seq(DOMAIN att)
  /\ group \in BOOLEAN /\ read \in 0 .. Len(stream)
  /\ DOMAIN pel \subseteq 1 .. read /\ \A i \in DOMAIN pel : pel[i] \in Workers
  /\ up \subseteq Workers
  /\ job \in [Workers \X Hands -> {Empty} \cup [stage : Stages, entry : DOMAIN stream]]
  /\ faults \in 0 .. MaxFaults

Init ==
  /\ run = "RUNNING" /\ att = <<>> /\ outbox = <<>>
  /\ batch = [r \in Relays |-> NoBatch]
  /\ stream = <<>> /\ group = FALSE /\ read = 0 /\ pel = <<>>
  /\ up = {} /\ job = [j \in Workers \X Hands |-> Empty]
  /\ faults = 0
----------------------------------------------------------------------------
(* The engine. *)

\* dispatchStep: the attempt and its outbox row, in one transaction.
Dispatch ==
  /\ run = "RUNNING"
  /\ Len(att) < MaxAttempts
  /\ att # <<>> => att[Len(att)].status \in {"FAILED", "EXPIRED"}
  /\ att' = Append(att, [status |-> "QUEUED", owner |-> NoWorker, started |-> 0])
  /\ outbox' = Append(outbox, "PENDING")
  /\ UNCHANGED <<run, batch, stream, group, read, pel, up, job, faults>>

\* CancelRun leaves attempts, outbox and deliveries as they are.
Cancel ==
  /\ run = "RUNNING" /\ att # <<>>
  /\ run' = "CANCELLED"
  /\ UNCHANGED <<att, outbox, batch, stream, group, read, pel, up, job, faults>>

\* Mutant: the same attempt is queued again.
ReapRequeues(n) ==
  /\ n \in DOMAIN att /\ att[n].status = "LEASED"
  /\ att' = [att EXCEPT ![n].status = "QUEUED"]
  /\ outbox' = [outbox EXCEPT ![n] = "PENDING"]
  /\ UNCHANGED <<run, batch, stream, group, read, pel, up, job, faults>>

\* ReapExpiredAttempts: the lease has run out.
Reap(n) ==
  /\ n \in DOMAIN att /\ att[n].status = "LEASED"
  /\ att' = [att EXCEPT ![n].status = "EXPIRED"]
  /\ UNCHANGED <<run, outbox, batch, stream, group, read, pel, up, job, faults>>
----------------------------------------------------------------------------
(* The relay: one transaction per tick. *)

Locked == UNION {batch[r].todo \cup batch[r].sent : r \in Relays}

\* FetchAndLockPendingOutbox: FOR UPDATE SKIP LOCKED, oldest first.
FetchAndLockPendingOutbox(r) ==
  LET free == {n \in DOMAIN outbox : outbox[n] = "PENDING"} \ Locked
      rows == {n \in free : Cardinality({m \in free : m < n}) < BatchSize}
  IN  /\ batch[r] = NoBatch /\ rows # {}
      /\ batch' = [batch EXCEPT ![r].todo = rows]
      /\ UNCHANGED <<run, att, outbox, stream, group, read, pel, up, job, faults>>

\* Publish, then MarkOutboxPublished inside the transaction.
Publish(r) ==
  /\ \E n \in batch[r].todo :
       /\ \A m \in batch[r].todo : n <= m
       /\ stream' = Append(stream, n)
       /\ batch' = [batch EXCEPT ![r] = [todo |-> @.todo \ {n}, sent |-> @.sent \cup {n}]]
  /\ UNCHANGED <<run, att, outbox, group, read, pel, up, job, faults>>

CommitBatch(r) ==
  /\ batch[r].todo = {} /\ batch[r].sent # {}
  /\ outbox' = [n \in DOMAIN outbox |-> IF n \in batch[r].sent THEN "PUBLISHED" ELSE outbox[n]]
  /\ batch' = [batch EXCEPT ![r] = NoBatch]
  /\ UNCHANGED <<run, att, stream, group, read, pel, up, job, faults>>

\* The relay crashes, Redis or Postgres fails: the rows stay PENDING, whatever was published.
AbortBatch(r) ==
  /\ batch[r] # NoBatch
  /\ faults < MaxFaults /\ faults' = faults + 1
  /\ batch' = [batch EXCEPT ![r] = NoBatch]
  /\ UNCHANGED <<run, att, outbox, stream, group, read, pel, up, job>>
----------------------------------------------------------------------------
(* The consumer group. *)

\* Mutant: the group starts at the end of the stream.
EnsureGroupAtEnd(w) ==
  /\ w \notin up
  /\ up' = up \cup {w}
  /\ group' = TRUE
  /\ read' = IF group THEN read ELSE Len(stream)
  /\ UNCHANGED <<run, att, outbox, batch, stream, pel, job, faults>>

\* XGROUP CREATE ... 0: a new group starts before the first entry; an existing one stays.
GroupStart == IF group THEN read ELSE 0

\* A worker starts to consume.
EnsureGroup(w) ==
  /\ w \notin up
  /\ up' = up \cup {w}
  /\ group' = TRUE
  /\ read' = GroupStart
  /\ UNCHANGED <<run, att, outbox, batch, stream, pel, job, faults>>

\* Entry i is delivered to w and lies in its hand h.
Deliver(w, h, i) ==
  /\ w \in up /\ job[w, h] = Empty
  /\ job' = [job EXCEPT ![w, h] = [stage |-> "received", entry |-> i]]
  /\ pel' = [e \in DOMAIN pel \cup {i} |-> IF e = i THEN w ELSE pel[e]]
  /\ UNCHANGED <<run, att, outbox, batch, stream, group, up, faults>>


\* XREADGROUP with ">".
readLoop(w, h) ==
  /\ read < Len(stream)
  /\ read' = read + 1
  /\ Deliver(w, h, read + 1)

\* XAUTOCLAIM: an entry that has been pending for long, on any consumer, w included.
reclaimLoop(w, h) ==
  /\ UNCHANGED read
  /\ \E i \in DOMAIN pel : Deliver(w, h, i)
----------------------------------------------------------------------------
(* A worker's goroutine, and the server it calls. *)

\* The attempt that the message in a hand names.
Task(w, h) == stream[job[w, h].entry]

Goes(w, h, from, next) ==
  /\ job[w, h].stage = from
  /\ job' = [job EXCEPT ![w, h].stage = next]
  /\ UNCHANGED <<run, outbox, batch, stream, group, read, pel, up, faults>>

\* Mutant: the lease is granted whatever the status.
ClaimTaskAnyStatus(w, h) ==
  LET n == Task(w, h)
  IN  /\ Goes(w, h, "received", "claimed")
      /\ att' = [att EXCEPT ![n].status = "LEASED", ![n].owner = w]

\* Mutant: a delivery that is refused is not acknowledged.
ClaimTaskUnacked(w, h) ==
  LET n == Task(w, h)
  IN  \/ /\ Goes(w, h, "received", "claimed")
         /\ att[n].status = "QUEUED"
         /\ att' = [att EXCEPT ![n].status = "LEASED", ![n].owner = w]
      \/ /\ job[w, h].stage = "received" /\ att[n].status # "QUEUED"
         /\ job' = [job EXCEPT ![w, h] = Empty]
         /\ UNCHANGED <<run, att, outbox, batch, stream, group, read, pel, up, faults>>

\* ClaimTask, to the commit of ClaimTaskAttempt.
ClaimTask(w, h) ==
  LET n == Task(w, h)
  IN  \/ /\ Goes(w, h, "received", "claimed")
         /\ att[n].status = "QUEUED"
         /\ att' = [att EXCEPT ![n].status = "LEASED", ![n].owner = w]
      \/ /\ Goes(w, h, "received", "done")
         /\ att[n].status # "QUEUED"
         /\ UNCHANGED att

\* ClaimTask, the rest of it: no handler runs for a run that is CANCELLED by now.
ClaimCheck(w, h) ==
  /\ Goes(w, h, "claimed", IF run = "CANCELLED" THEN "done" ELSE "granted")
  /\ UNCHANGED att

\* The answer arrives: the handler is called, or none is registered.
Start(w, h) ==
  \/ /\ Goes(w, h, "granted", "running")
     /\ att' = [att EXCEPT ![Task(w, h)].started = @ + 1]
  \/ Goes(w, h, "granted", "bad") /\ UNCHANGED att

Finish(w, h) ==
  /\ \E outcome \in {"ok", "bad"} : Goes(w, h, "running", outcome)
  /\ UNCHANGED att

\* Mutant: a report is applied whoever holds the lease.
ReportAnyOwner(w, h) ==
  LET n == Task(w, h)
      outcome == IF job[w, h].stage = "ok" THEN "SUCCEEDED" ELSE "FAILED"
  IN  /\ Goes(w, h, "ok", "done") \/ Goes(w, h, "bad", "done")
      /\ att' = [att EXCEPT ![n].status = outcome]

\* ReportResult: applied only if w still holds the lease; the worker does not look
\* at the answer.
Report(w, h) ==
  LET n == Task(w, h)
      outcome == IF job[w, h].stage = "ok" THEN "SUCCEEDED" ELSE "FAILED"
  IN  /\ Goes(w, h, "ok", "done") \/ Goes(w, h, "bad", "done")
      /\ att' = IF att[n].status = "LEASED" /\ att[n].owner = w
                THEN [att EXCEPT ![n].status = outcome] ELSE att

\* The deferred XACK.  It removes the entry whoever it is pending on.
Ack(w, h) ==
  /\ job[w, h].stage = "done"
  /\ pel' = [e \in DOMAIN pel \ {job[w, h].entry} |-> pel[e]]
  /\ job' = [job EXCEPT ![w, h] = Empty]
  /\ UNCHANGED <<run, att, outbox, batch, stream, group, read, up, faults>>

\* Mutant: the message is acknowledged even if the claim failed.
LoseCallAcked(w, h) ==
  /\ faults < MaxFaults /\ faults' = faults + 1
  /\ job[w, h].stage \in {"received", "claimed", "granted"}
  /\ job' = [job EXCEPT ![w, h].stage = "done"]
  /\ UNCHANGED <<run, att, outbox, batch, stream, group, read, pel, up>>

\* A call fails: after a failed claim the message is put down unacknowledged, a
\* failed report is logged, a failed acknowledgement ignored.
LoseCall(w, h) ==
  /\ faults < MaxFaults /\ faults' = faults + 1
  /\ \/ /\ job[w, h].stage \in {"received", "claimed", "granted", "done"}
        /\ job' = [job EXCEPT ![w, h] = Empty]
     \/ /\ job[w, h].stage \in {"ok", "bad"}
        /\ job' = [job EXCEPT ![w, h].stage = "done"]
  /\ UNCHANGED <<run, att, outbox, batch, stream, group, read, pel, up>>

\* The process dies; its pending entries stay.
Crash(w) ==
  /\ w \in up
  /\ faults < MaxFaults /\ faults' = faults + 1
  /\ up' = up \ {w}
  /\ job' = [j \in Workers \X Hands |-> IF j[1] = w THEN Empty ELSE job[j]]
  /\ UNCHANGED <<run, att, outbox, batch, stream, group, read, pel>>
----------------------------------------------------------------------------
Step(w, h) ==
  \/ ClaimTask(w, h) \/ ClaimCheck(w, h) \/ Start(w, h) \/ Finish(w, h)
  \/ Report(w, h) \/ Ack(w, h)

RelayStep(r) == FetchAndLockPendingOutbox(r) \/ Publish(r) \/ CommitBatch(r)

Next ==
  \/ Dispatch \/ Cancel
  \/ \E n \in DOMAIN att : Reap(n)
  \/ \E r \in Relays : RelayStep(r) \/ AbortBatch(r)
  \/ \E w \in Workers : EnsureGroup(w) \/ Crash(w)
  \/ \E w \in Workers, h \in Hands :
       readLoop(w, h) \/ reclaimLoop(w, h) \/ Step(w, h) \/ LoseCall(w, h)

Spec == Init /\ [][Next]_vars

\* Nobody is at work on the attempt, so nobody renews its lease.
Orphan(n) ==
  \A w \in Workers, h \in Hands : job[w, h].stage \in PastClaim => Task(w, h) # n

\* Tickers and loops keep running, workers are restarted, handlers return, and a
\* lease that nobody renews is reaped.  Leases of live handlers need not expire.
FairSpec ==
  /\ Spec
  /\ WF_vars(Dispatch)
  /\ \A n \in 1 .. MaxAttempts : WF_vars(n \in DOMAIN att /\ Orphan(n) /\ Reap(n))
  /\ \A r \in Relays : WF_vars(RelayStep(r))
  /\ \A w \in Workers :
       /\ WF_vars(EnsureGroup(w))
       /\ WF_vars(\E h \in Hands : readLoop(w, h))
       /\ WF_vars(\E h \in Hands : reclaimLoop(w, h))
       /\ \A h \in Hands : WF_vars(Step(w, h))
----------------------------------------------------------------------------
\* No task is lost: one that waits to be claimed is in the outbox, ahead of the
\* group in the stream, or on its pending list, whatever crashed or was lost.
NoTaskLost ==
  \A n \in DOMAIN att : att[n].status = "QUEUED" =>
    \/ outbox[n] = "PENDING"
    \/ \E i \in DOMAIN stream : stream[i] = n /\ (~group \/ i > read \/ i \in DOMAIN pel)

\* However often an attempt is published, delivered and stolen, its handler is
\* called at most once.
HandlerOnce == \A n \in DOMAIN att : att[n].started <= 1

\* A success on record is that of a handler that was called, and whoever is past
\* the claim of an attempt is alone there and is its owner.
ClaimExclusive ==
  /\ \A n \in DOMAIN att : att[n].status = "SUCCEEDED" => att[n].started = 1
  /\ \A i, j \in Workers \X Hands :
       job[i].stage \in PastClaim /\ job[j].stage \in PastClaim /\ i # j
         => stream[job[i].entry] # stream[job[j].entry]
  /\ \A w \in Workers, h \in Hands :
       job[w, h].stage \in PastClaim => att[Task(w, h)].owner = w

\* The rows move as the engine expects of an attempt.
Contract == INSTANCE Attempts WITH Limit <- MaxAttempts,
                                   att <- [n \in DOMAIN att |-> att[n].status]
AttemptsKept == Contract!Spec

\* Every attempt is settled, so that the step can go on, and every delivery is
\* acknowledged, so that redelivery stops.
AttemptSettles ==
  \A n \in 1 .. MaxAttempts :
    (n \in DOMAIN att) ~> (n \in DOMAIN att /\ att[n].status \notin {"QUEUED", "LEASED"})
DeliveriesEnd == <>[](pel = <<>>)
=============================================================================
