---------------------------- MODULE EventConsumer ----------------------------
(***************************************************************************)
(* The Kafka side of the event-driven services.  The order, payment and    *)
(* product services each run one consumer group, one AIOKafkaConsumer and  *)
(* one consume loop per replica; the three loops have the same control     *)
(* (fastapi_order/app/config/kafka_consumer.py,                            *)
(* fastapi_payment/app/config/payment_kafka.py,                            *)
(* fastapi_product/app/config/kafka_consumer.py):                          *)
(*                                                                         *)
(*     async for msg in consumer:          fetch: the position advances    *)
(*         parse, find a handler           otherwise commit and continue   *)
(*         await handler(...)              any exception is logged         *)
(*         await consumer.commit()         raises: the loop ends for good  *)
(*                                                                         *)
(* The broker and aiokafka's group membership are external and modelled    *)
(* from how the loops use them: a group has one assignment at a time, it   *)
(* is void while the group rebalances, a commit made then raises, commit   *)
(* without arguments stores the positions of every partition assigned to   *)
(* the caller, and a new owner starts from the stored offset, or from the  *)
(* end of the log when none is stored (auto_offset_reset='latest').        *)
(***************************************************************************)
EXTENDS Integers, FiniteSets

CONSTANTS Replicas,       \* pods of one service
          Partitions,     \* partitions of the topic it subscribes to
          NoOwner,        \* an unassigned partition
          MaxEvents,      \* bound: events published per partition
          MaxUpsets       \* bound: crashes and spontaneous rebalances

ASSUME BoundsAssumption == {MaxEvents, MaxUpsets} \subseteq Nat
ASSUME NoOwnerAssumption == NoOwner \notin Replicas

VARIABLES log,        \* log[p]: number of events published to p, offsets 0..log[p]-1
          committed,  \* committed[p]: the group's stored offset of p, or Unset
          owner,      \* owner[p]: the replica p is assigned to
          rejoining,  \* the group is between two assignments
          member,     \* replicas whose consumer is in the group
          loop,       \* loop[r]: the consume loop of r
          current,    \* current[r]: <<partition, offset>> of the event r works on
          position,   \* position[r][p]: the next offset r would fetch from p
          finished,   \* events whose handler has returned or raised, or that have none
          missed,     \* events a reset to the end of the log has jumped over
          upsets      \* crashes and spontaneous rebalances so far

groupVars == <<committed, owner, rejoining, member>>
loopVars  == <<loop, current, position, finished>>
consumerVars == <<log, groupVars, loopVars, missed, upsets>>

Unset == -1
NoEvent == <<>>

Events == Partitions \X (0 .. MaxEvents - 1)

\* "down": no process; "dead": the loop has ended, the process lives on.
Stage == {"down", "polling", "handling", "committing", "dead"}

TypeOK ==
    /\ log \in [Partitions -> 0 .. MaxEvents]
    /\ committed \in [Partitions -> {Unset} \cup (0 .. MaxEvents)]
    /\ owner \in [Partitions -> Replicas \cup {NoOwner}]
    /\ rejoining \in BOOLEAN
    /\ member \in SUBSET Replicas
    /\ loop \in [Replicas -> Stage]
    /\ current \in [Replicas -> Events \cup {NoEvent}]
    /\ position \in [Replicas -> [Partitions -> 0 .. MaxEvents]]
    /\ finished \in SUBSET Events
    /\ missed \in SUBSET Events
    /\ upsets \in 0 .. MaxUpsets

ConsumerInit ==
    /\ log = [p \in Partitions |-> 0]
    /\ committed = [p \in Partitions |-> Unset]
    /\ owner = [p \in Partitions |-> NoOwner]
    /\ rejoining = FALSE
    /\ member = {}
    /\ loop = [r \in Replicas |-> "down"]
    /\ current = [r \in Replicas |-> NoEvent]
    /\ position = [r \in Replicas |-> [p \in Partitions |-> 0]]
    /\ finished = {}
    /\ missed = {}
    /\ upsets = 0

Goto(r, stage) == loop' = [loop EXCEPT ![r] = stage]

\* The group starts over: the old assignment is void.
VoidAssignment ==
    /\ rejoining' = TRUE
    /\ owner' = [p \in Partitions |-> NoOwner]

-----------------------------------------------------------------------------
\* Debezium publishes the next outbox row of partition p.
Publish(p) ==
    /\ log[p] < MaxEvents
    /\ log' = [log EXCEPT ![p] = @ + 1]
    /\ UNCHANGED <<groupVars, loopVars, missed, upsets>>

\* Mutant of Start: the loop is spawned and the consumer never started.
StartWithoutJoin(r) ==
    /\ loop[r] = "down"
    /\ Goto(r, "polling")
    /\ VoidAssignment
    /\ UNCHANGED <<log, committed, member, current, position, finished, missed, upsets>>

\* The process starts: start() creates the consumer, joins and spawns the loop.
Start(r) ==
    /\ loop[r] = "down"
    /\ Goto(r, "polling")
    /\ member' = member \cup {r}
    /\ VoidAssignment
    /\ UNCHANGED <<log, committed, current, position, finished, missed, upsets>>

\* The coordinator starts a rebalance of its own accord (a topic change, a
\* missed heartbeat, a rolling update).
Rebalance ==
    /\ upsets < MaxUpsets
    /\ member # {}
    /\ ~rejoining
    /\ upsets' = upsets + 1
    /\ VoidAssignment
    /\ UNCHANGED <<log, committed, member, loopVars, missed>>

\* Where a new owner of p starts.
ResetPosition(p) == IF committed[p] = Unset THEN log[p] ELSE committed[p]

\* The group settles on an assignment; owners reset their positions, the others
\* have none.  Events a reset jumps over that no handler has finished are missed.
Assign(f) ==
    /\ rejoining
    /\ rejoining' = FALSE
    /\ owner' = f
    /\ position' = [r \in Replicas |-> [p \in Partitions |->
                        IF f[p] = r THEN ResetPosition(p) ELSE 0]]
    /\ missed' = missed \cup {e \in Events \ finished : e[2] < ResetPosition(e[1])}
    /\ UNCHANGED <<log, committed, member, loop, current, finished, upsets>>

\* Mutant of Fetch: the end of the log is not looked at.
FetchPastEnd(r, p) ==
    /\ loop[r] = "polling"
    /\ owner[p] = r
    /\ current' = [current EXCEPT ![r] = <<p, position[r][p]>>]
    /\ position' = [position EXCEPT ![r][p] = @ + 1]
    /\ Goto(r, "handling")
    /\ UNCHANGED <<log, groupVars, finished, missed, upsets>>

\* The loop fetches the next event of a partition it owns.
Fetch(r, p) ==
    /\ loop[r] = "polling"
    /\ owner[p] = r
    /\ position[r][p] < log[p]
    /\ current' = [current EXCEPT ![r] = <<p, position[r][p]>>]
    /\ position' = [position EXCEPT ![r][p] = @ + 1]
    /\ Goto(r, "handling")
    /\ UNCHANGED <<log, groupVars, finished, missed, upsets>>

\* The handler returns or raises, or the event has no usable payload or handler.
Handle(r) ==
    /\ loop[r] = "handling"
    /\ finished' = finished \cup {current[r]}
    /\ Goto(r, "committing")
    /\ UNCHANGED <<log, groupVars, current, position, missed, upsets>>

\* Mutants of Commit: the offset is stored while the handler still runs; the
\* offset of the event is stored instead of the next one.
CommitEarly(r) ==
    /\ loop[r] \in {"handling", "committing"}
    /\ ~rejoining
    /\ r \in member
    /\ committed' = [p \in Partitions |->
                        IF owner[p] = r THEN position[r][p] ELSE committed[p]]
    /\ current' = [current EXCEPT ![r] = NoEvent]
    /\ Goto(r, "polling")
    /\ UNCHANGED <<log, owner, rejoining, member, position, finished, missed, upsets>>

CommitOffByOne(r) ==
    /\ loop[r] = "committing"
    /\ ~rejoining
    /\ r \in member
    /\ committed' = [committed EXCEPT ![current[r][1]] = current[r][2]]
    /\ current' = [current EXCEPT ![r] = NoEvent]
    /\ Goto(r, "polling")
    /\ UNCHANGED <<log, owner, rejoining, member, position, finished, missed, upsets>>

\* commit() stores the position of every partition assigned to the caller.
Commit(r) ==
    /\ loop[r] = "committing"
    /\ ~rejoining
    /\ r \in member
    /\ committed' = [p \in Partitions |->
                        IF owner[p] = r THEN position[r][p] ELSE committed[p]]
    /\ current' = [current EXCEPT ![r] = NoEvent]
    /\ Goto(r, "polling")
    /\ UNCHANGED <<log, owner, rejoining, member, position, finished, missed, upsets>>

\* commit() raises during a rebalance, or when the group has put the consumer
\* out: the exception leaves the `async for`, _running becomes False, the
\* consumer is not stopped and nothing restarts the loop.
CommitRaises(r) ==
    /\ loop[r] = "committing"
    /\ rejoining \/ r \notin member
    /\ current' = [current EXCEPT ![r] = NoEvent]
    /\ Goto(r, "dead")
    /\ UNCHANGED <<log, groupVars, position, finished, missed, upsets>>

\* max.poll.interval.ms passes without a fetch: a dead loop, or a handler that
\* takes too long (that loop's next commit raises, so it never joins again).
LeaveIdle(r) ==
    /\ r \in member
    /\ loop[r] \in {"handling", "committing", "dead"}
    /\ loop[r] = "dead" \/ upsets < MaxUpsets
    /\ upsets' = IF loop[r] = "dead" THEN upsets ELSE upsets + 1
    /\ member' = member \ {r}
    /\ VoidAssignment
    /\ UNCHANGED <<log, committed, loopVars, missed>>

\* The process dies at any point; the handler's effects stay.
Crash(r) ==
    /\ loop[r] # "down"
    /\ upsets < MaxUpsets
    /\ upsets' = upsets + 1
    /\ Goto(r, "down")
    /\ member' = member \ {r}
    /\ current' = [current EXCEPT ![r] = NoEvent]
    /\ VoidAssignment
    /\ UNCHANGED <<log, committed, position, finished, missed>>

-----------------------------------------------------------------------------
Assignments == [Partitions -> member]

LoopStep(r) ==
    \/ \E p \in Partitions : Fetch(r, p)
    \/ Handle(r)
    \/ Commit(r)
    \/ CommitRaises(r)

ConsumerNext ==
    \/ \E p \in Partitions : Publish(p)
    \/ \E r \in Replicas : Start(r) \/ LoopStep(r) \/ LeaveIdle(r) \/ Crash(r)
    \/ Rebalance
    \/ \E f \in Assignments : Assign(f)

ConsumerSpec == ConsumerInit /\ [][ConsumerNext]_consumerVars

\* Kubernetes restarts a process that exited (Start); the event loop runs its
\* task; the group finishes its rebalances; idle consumers are put out.
\* Nothing is assumed of publications, crashes and spontaneous rebalances.
ConsumerFairSpec ==
    /\ ConsumerSpec
    /\ \A r \in Replicas : /\ WF_consumerVars(Start(r))
                           /\ WF_consumerVars(LoopStep(r))
                           /\ WF_consumerVars(loop[r] = "dead" /\ LeaveIdle(r))
    /\ WF_consumerVars(\E f \in Assignments : Assign(f))

-----------------------------------------------------------------------------
\* At least once: the stored offset never passes an event whose handler has not
\* finished, unless a reset to the end of the log jumped over it - through
\* rebalances, zombie handlers, failed commits and crashes
\* (kafka_consumer.py:208-225).
CommitsOnlyFinished ==
    \A p \in Partitions : \A i \in 0 .. committed[p] - 1 :
        <<p, i>> \in finished \cup missed

\* A crash or rebalance repeats at most one event per partition: the loop never
\* runs more than one event ahead of the stored offset (kafka_consumer.py:225).
OneEventInFlight ==
    \A p \in Partitions :
        (owner[p] # NoOwner /\ committed[p] # Unset) =>
            position[owner[p]][p] <= committed[p] + 1

\* auto_offset_reset='latest' skips events only until the group has stored its
\* first offset of a partition: a crash or rebalance after that loses none, also
\* of those that were being handled (kafka_consumer.py:56-66, 208-225).
MissedBeforeFirstCommit ==
    [][\A e \in missed' \ missed : committed[e[1]] = Unset]_missed

AllLoopsDead == \A r \in Replicas : loop[r] = "dead"

\* Every published event is eventually handled or was missed, as long as some
\* replica's loop is alive (kafka_consumer.py:87-237).  An event stays published,
\* so this is `e is published ~> ...'.
EventuallyFinished ==
    \A e \in Events :
        []<>(e[2] < log[e[1]] => e \in finished \cup missed \/ AllLoopsDead)

\* README.md:464: the probes restart an abnormal pod.  A pod whose consume loop
\* has ended is one: it handles no event any more (main.py:133-167).
AbnormalPodIsRestarted ==
    \A r \in Replicas : loop[r] = "dead" ~> loop[r] # "dead"
=============================================================================
