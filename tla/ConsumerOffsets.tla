--------------------------- MODULE ConsumerOffsets ---------------------------
(***************************************************************************)
(* What a consumer group has consumed: the positions, stored offsets and   *)
(* commits of the Consumer trait (src/consumer/mod.rs) as BaseConsumer     *)
(* implements it (src/consumer/base_consumer.rs; StreamConsumer delegates  *)
(* to it), in the hands of applications written like those of examples/:   *)
(*                                                                         *)
(*   at_least_once  offsets are stored after processing, committed by the  *)
(*                  timer of librdkafka (at_least_once.rs)                 *)
(*   simple         offsets are stored by librdkafka on delivery; each     *)
(*                  message is committed after it (simple_consumer.rs)     *)
(*   async          messages are detached and processed by tasks, nothing  *)
(*                  is committed (asynchronous_processing.rs)              *)
(*   explicit       no automatism: any of the commit and store calls, also *)
(*                  with seek, pause, resume and a manual assignment       *)
(*                                                                         *)
(* Members of the group crash, are evicted while they go on working,       *)
(* close, and start again from the committed offset.  There is one input   *)
(* partition.  The group coordinator, the fetcher and the commit requests  *)
(* are external.  auto.offset.reset is "earliest".                         *)
(***************************************************************************)
EXTENDS Integers, Sequences, FiniteSets

CONSTANTS
    Members,     \* the consumers of the group
    Nobody,      \* no member
    End,         \* the number of messages in the partition
    Styles,      \* the applications considered
    MaxFaults,   \* bound: crashes, evictions and failed commits
    MaxCalls,    \* bound: voluntary interruptions of the consumption
    MaxPending   \* bound: asynchronous commits on the way

AllStyles == {"at_least_once", "simple", "async", "explicit"}

ASSUME OffsetsAssumption ==
    /\ Nobody \notin Members
    /\ End \in Nat
    /\ Styles \subseteq AllStyles
    /\ MaxFaults \in Nat
    /\ MaxCalls \in Nat
    /\ MaxPending \in Nat

NoOffset == -1001      \* Offset::Invalid

VARIABLES
    style,       \* how the application uses its consumers
    committed,   \* the offset the group has committed
    owner,       \* the member the coordinator has given the partition to
    life,        \* life[c]: the consumer c and its membership
    paused,      \* the members that have paused the partition
    next,        \* next[c]: the offset of the message that is delivered next
    pos,         \* pos[c]: what position() returns, one after the last delivered
    stored,      \* stored[c]: the offset stored for the next commit
    pending,     \* pending[c]: the asynchronous commits on their way
    hand,        \* hand[c]: the message the application works on
    doing,       \* doing[c]: what the application is doing
    tasks,       \* tasks[c]: the detached messages that tasks work on
    processed,   \* the messages that have been processed
    again,       \* those that have been processed twice
    faults,      \* how many faults there have been
    calls        \* how many voluntary interruptions

brokerVars == <<committed, owner>>
clientVars == <<life, paused, next, pos, stored, pending>>
appVars == <<hand, doing, tasks, processed, again>>
boundVars == <<faults, calls>>
vars == <<style, brokerVars, clientVars, appVars, boundVars>>

Offsets == {NoOffset} \cup 0..End

TypeOK ==
    /\ style \in Styles
    /\ committed \in Offsets
    /\ owner \in Members \cup {Nobody}
    /\ life \in [Members -> {"off",          \* there is no consumer
                             "idle",         \* it has no subscription
                             "subscribed",   \* and no partition yet
                             "member",       \* it has the partition
                             "manual"}]      \* it has assigned it by itself
    /\ paused \subseteq Members
    /\ next \in [Members -> 0..End]
    /\ pos \in [Members -> Offsets]
    /\ stored \in [Members -> Offsets]
    /\ pending \in [Members -> Seq(0..End)]
    /\ hand \in [Members -> Offsets]
    /\ doing \in [Members -> {"idle",        \* in poll or between two polls
                              "work",        \* it processes its message
                              "done"}]       \* and has not acknowledged it
    /\ tasks \in [Members -> SUBSET (0..End)]
    /\ processed \subseteq 0..End
    /\ again \subseteq 0..End
    /\ faults \in 0..MaxFaults
    /\ calls \in 0..MaxCalls

Assigned(c) == life[c] \in {"member", "manual"}

Idle(c) == doing[c] = "idle"

\* enable.auto.commit, in the configuration of the consumer.
AutoCommits == style \in {"at_least_once", "simple"}

\* enable.auto.offset.store
AutoStores == style = "simple"

Fault == faults < MaxFaults /\ faults' = faults + 1

UserCall == calls < MaxCalls /\ calls' = calls + 1

\* What librdkafka knows of the partition is gone with the assignment.
ForgetPartition(c) ==
    /\ paused' = paused \ {c}
    /\ next' = [next EXCEPT ![c] = 0]
    /\ pos' = [pos EXCEPT ![c] = NoOffset]
    /\ stored' = [stored EXCEPT ![c] = NoOffset]
    /\ pending' = [pending EXCEPT ![c] = <<>>]

-----------------------------------------------------------------------------
(* Commits *)

\* The coordinator takes a commit from the member that has the partition.
Commits(c, offset) == committed' = IF owner = c THEN offset ELSE committed

\* CommitMode::Sync: the call waits for the answer, after those of earlier
\* commits; it fails for a member that has been evicted, or by a fault.
CommitSync(c, offset) ==
    /\ pending[c] = <<>>
    /\ \/ Commits(c, offset) /\ UNCHANGED faults
       \/ Fault /\ UNCHANGED committed
    /\ UNCHANGED <<owner, clientVars>>

\* CommitMode::Async: the request goes to a local queue.
CommitAsync(c, offset) ==
    /\ Len(pending[c]) < MaxPending
    /\ pending' = [pending EXCEPT ![c] = Append(@, offset)]
    /\ UNCHANGED <<brokerVars, life, paused, next, pos, stored, faults>>

CommitBy(c, offset, mode) ==
    IF mode = "Sync" THEN CommitSync(c, offset) ELSE CommitAsync(c, offset)

\* An asynchronous commit reaches the coordinator, or is lost.
CommitArrives(c) ==
    /\ pending[c] # <<>>
    /\ \/ Commits(c, Head(pending[c])) /\ UNCHANGED faults
       \/ Fault /\ UNCHANGED committed
    /\ pending' = [pending EXCEPT ![c] = Tail(@)]
    /\ UNCHANGED <<style, owner, life, paused, next, pos, stored, appVars, calls>>

\* auto.commit.interval.ms has gone by.
AutoCommit(c) ==
    /\ AutoCommits
    /\ Assigned(c)
    /\ stored[c] # NoOffset
    /\ CommitAsync(c, stored[c])
    /\ UNCHANGED <<style, appVars, calls>>

\* With enable.auto.commit, librdkafka commits what is stored when it gives
\* the partition back; the coordinator may fail to take it.
FinalCommit(c) ==
    \/ /\ IF AutoCommits /\ life[c] = "member" /\ stored[c] # NoOffset
          THEN Commits(c, stored[c])
          ELSE UNCHANGED committed
       /\ UNCHANGED faults
    \/ Fault /\ UNCHANGED committed

-----------------------------------------------------------------------------
(* Membership *)

\* subscribe
Subscribe(c) ==
    /\ life[c] = "idle"
    /\ life' = [life EXCEPT ![c] = "subscribed"]
    /\ UNCHANGED <<style, brokerVars, paused, next, pos, stored, pending, appVars, boundVars>>

\* Where the consumption of the partition starts.
Start == IF committed = NoOffset THEN 0 ELSE committed

TakePartition(c, as) ==
    /\ owner = Nobody
    /\ owner' = c
    /\ life' = [life EXCEPT ![c] = as]
    /\ next' = [next EXCEPT ![c] = Start]
    /\ UNCHANGED <<style, committed, paused, pos, stored, pending, appVars, boundVars>>

\* The coordinator gives the partition to a subscribed member, which assigns it
\* in its rebalance handler.
GroupAssigns(c) ==
    /\ life[c] = "subscribed"
    /\ Idle(c)
    /\ TakePartition(c, "member")

\* assign, or incremental_assign, with a list filled by committed_offsets; the
\* deployment sees to it that nobody else consumes the partition.
Assign(c) ==
    /\ style = "explicit"
    /\ life[c] = "idle"
    /\ TakePartition(c, "manual")

\* The partition leaves a member that knows it.
GiveBack(c, then) ==
    /\ Idle(c)
    /\ FinalCommit(c)
    /\ owner' = IF owner = c THEN Nobody ELSE owner
    /\ life' = [life EXCEPT ![c] = then]
    /\ ForgetPartition(c)
    /\ UserCall
    /\ UNCHANGED <<style, appVars>>

\* The coordinator takes the partition back, by a rebalance.
GroupRevokes(c) ==
    /\ life[c] = "member"
    /\ owner = c
    /\ GiveBack(c, "subscribed")

Unsubscribe(c) ==
    /\ life[c] \in {"subscribed", "member"}
    /\ GiveBack(c, "idle")

\* unassign, or incremental_unassign.
Unassign(c) ==
    /\ life[c] = "manual"
    /\ GiveBack(c, "idle")

\* The coordinator has not heard of a member for too long, because it is gone
\* or although it is there.
Evict(c) ==
    /\ owner = c
    /\ life[c] # "manual"
    /\ owner' = Nobody
    /\ IF life[c] = "member" THEN Fault ELSE UNCHANGED faults
    /\ UNCHANGED <<style, committed, clientVars, appVars, calls>>

\* A member learns, in poll, that it has lost the partition (assignment_lost).
LearnsLoss(c) ==
    /\ life[c] = "member"
    /\ owner # c
    /\ Idle(c)
    /\ life' = [life EXCEPT ![c] = "subscribed"]
    /\ ForgetPartition(c)
    /\ UNCHANGED <<style, brokerVars, appVars, boundVars>>

\* The application stops working on what it has.
Abandon(c) ==
    /\ hand' = [hand EXCEPT ![c] = NoOffset]
    /\ doing' = [doing EXCEPT ![c] = "idle"]
    /\ tasks' = [tasks EXCEPT ![c] = {}]
    /\ UNCHANGED <<processed, again>>

\* The process ends without a word.
Crash(c) ==
    /\ life[c] # "off"
    /\ Fault
    /\ owner' = IF life[c] = "manual" THEN Nobody ELSE owner
    /\ life' = [life EXCEPT ![c] = "off"]
    /\ ForgetPartition(c)
    /\ Abandon(c)
    /\ UNCHANGED <<style, committed, calls>>

\* The consumer is dropped: at the end of the program, or because a delivery
\* has failed and the task panics with a message in its hands.
Close(c) ==
    /\ life[c] # "off"
    /\ Idle(c) \/ (doing[c] = "work" /\ style = "at_least_once")
    /\ UserCall
    /\ FinalCommit(c)
    /\ owner' = IF owner = c THEN Nobody ELSE owner
    /\ life' = [life EXCEPT ![c] = "off"]
    /\ ForgetPartition(c)
    /\ Abandon(c)
    /\ UNCHANGED style

\* The program starts again and creates its consumer.
Restart(c) ==
    /\ life[c] = "off"
    /\ life' = [life EXCEPT ![c] = "idle"]
    /\ UNCHANGED <<style, brokerVars, paused, next, pos, stored, pending, appVars, boundVars>>

-----------------------------------------------------------------------------
(* Receiving and processing *)

\* Mutant: enable.auto.offset.store is left on.
DeliveredStores(c) ==
    /\ Assigned(c) /\ c \notin paused /\ Idle(c) /\ next[c] < End
    /\ next' = [next EXCEPT ![c] = @ + 1]
    /\ pos' = [pos EXCEPT ![c] = next[c] + 1]
    /\ stored' = [stored EXCEPT ![c] = next[c] + 1]
    /\ UNCHANGED <<style, brokerVars, life, paused, pending, processed, again, boundVars>>

\* Mutant: librdkafka stores what it has fetched, not what it has delivered.
DeliveredStoresFetched(c) ==
    /\ Assigned(c) /\ c \notin paused /\ Idle(c) /\ next[c] < End
    /\ next' = [next EXCEPT ![c] = @ + 1]
    /\ pos' = [pos EXCEPT ![c] = next[c] + 1]
    /\ stored' = IF AutoStores THEN [stored EXCEPT ![c] = End] ELSE stored
    /\ UNCHANGED <<style, brokerVars, life, paused, pending, processed, again, boundVars>>

\* poll returns the next message.  librdkafka, if it is to store offsets, has
\* stored that of the message by then.
Delivered(c) ==
    /\ Assigned(c)
    /\ c \notin paused
    /\ Idle(c)
    /\ next[c] < End
    /\ next' = [next EXCEPT ![c] = @ + 1]
    /\ pos' = [pos EXCEPT ![c] = next[c] + 1]
    /\ stored' = IF AutoStores THEN [stored EXCEPT ![c] = next[c] + 1] ELSE stored
    /\ UNCHANGED <<style, brokerVars, life, paused, pending, processed, again, boundVars>>

Recv(c) ==
    /\ style # "async"
    /\ Delivered(c)
    /\ hand' = [hand EXCEPT ![c] = next[c]]
    /\ doing' = [doing EXCEPT ![c] = "work"]
    /\ UNCHANGED tasks

\* The message is detached, and a task is spawned for it.
RecvDetached(c) ==
    /\ style = "async"
    /\ Delivered(c)
    /\ tasks' = [tasks EXCEPT ![c] = @ \cup {next[c]}]
    /\ UNCHANGED <<hand, doing>>

Processed(offset) ==
    /\ processed' = processed \cup {offset}
    /\ again' = IF offset \in processed THEN again \cup {offset} ELSE again

\* The message has been sent to every output topic, or printed.
Process(c) ==
    /\ doing[c] = "work"
    /\ Processed(hand[c])
    /\ doing' = [doing EXCEPT ![c] = "done"]
    /\ UNCHANGED <<style, brokerVars, clientVars, hand, tasks, boundVars>>

\* A task of the asynchronous example has sent its result, or failed to.
TaskEnds(c, offset) ==
    /\ offset \in tasks[c]
    /\ tasks' = [tasks EXCEPT ![c] = @ \ {offset}]
    /\ Processed(offset) \/ UNCHANGED <<processed, again>>
    /\ UNCHANGED <<style, brokerVars, clientVars, hand, doing, boundVars>>

-----------------------------------------------------------------------------
(* Acknowledging a message *)

\* The application goes on with its loop.
Acknowledged(c) ==
    /\ doing[c] = "done"
    /\ doing' = [doing EXCEPT ![c] = "idle"]
    /\ hand' = [hand EXCEPT ![c] = NoOffset]
    /\ UNCHANGED <<style, tasks, processed, again, calls>>

\* librdkafka stores offsets of assigned partitions only.
Store(c, offset) ==
    /\ stored' = IF Assigned(c) THEN [stored EXCEPT ![c] = offset] ELSE stored
    /\ UNCHANGED <<brokerVars, life, paused, next, pos, pending, faults>>

\* Mutant: the offset of the message itself is stored.
StoreOffsetExact(c) ==
    /\ style \in {"at_least_once", "explicit"}
    /\ Acknowledged(c)
    /\ Store(c, hand[c])

\* store_offset_from_message, and store_offset with the offset of the message:
\* rd_kafka_offset_store adds one to it.
StoreOffset(c) ==
    /\ style \in {"at_least_once", "explicit"}
    /\ Acknowledged(c)
    /\ Store(c, hand[c] + 1)

\* store_offsets takes the offset of the next message.
StoreOffsets(c) ==
    /\ style = "explicit"
    /\ Acknowledged(c)
    /\ Store(c, hand[c] + 1)

\* commit_message: librdkafka adds one to the offset of the message.
CommitMessage(c, mode) ==
    /\ style = "explicit" \/ (style = "simple" /\ mode = "Async")
    /\ Acknowledged(c)
    /\ CommitBy(c, hand[c] + 1, mode)

\* commit with a list that holds the offset of the next message.
Commit(c, mode) ==
    /\ style = "explicit"
    /\ Acknowledged(c)
    /\ CommitBy(c, hand[c] + 1, mode)

\* commit with the list that position() returns, between two messages.
CommitPosition(c, mode) ==
    /\ style = "explicit"
    /\ Assigned(c)
    /\ Idle(c)
    /\ pos[c] # NoOffset
    /\ CommitBy(c, pos[c], mode)
    /\ UserCall
    /\ UNCHANGED <<style, appVars>>

\* commit_consumer_state: no list, the stored offsets.
CommitConsumerState(c, mode) ==
    /\ style = "explicit"
    /\ Assigned(c)
    /\ Idle(c)
    /\ stored[c] # NoOffset
    /\ CommitBy(c, stored[c], mode)
    /\ UserCall
    /\ UNCHANGED <<style, appVars>>

-----------------------------------------------------------------------------
(* Moving about in the partition *)

\* The application rewinds: it never skips messages it has not had.
Rewind(c, offset) ==
    /\ style = "explicit"
    /\ Assigned(c)
    /\ Idle(c)
    /\ offset \in 0..next[c]
    /\ next' = [next EXCEPT ![c] = offset]
    /\ UserCall
    /\ UNCHANGED <<style, brokerVars, life, paused, pos, stored, pending, appVars, faults>>

\* seek: an offset that to_raw cannot represent, or a partition that is not
\* assigned, is an error and changes nothing.
Seek(c, offset) == Rewind(c, offset)

\* seek_partitions to what committed() returns.
SeekToCommitted(c) == committed # NoOffset /\ Rewind(c, committed)

\* offsets_for_timestamp, then seek_partitions to its result.  Timestamps are
\* those of the log: message o has timestamp 10 * o, and the answer is the first
\* message at or after the one asked for.
SeekToTime(c, timestamp) ==
    \E offset \in 0..End :
        /\ \A o \in 0..End : 10 * o >= timestamp <=> o >= offset
        /\ Rewind(c, offset)

Pause(c) ==
    /\ style = "explicit"
    /\ Assigned(c)
    /\ Idle(c)
    /\ paused' = paused \cup {c}
    /\ UserCall
    /\ UNCHANGED <<style, brokerVars, life, next, pos, stored, pending, appVars, faults>>

\* Mutant: the partition stays paused.
ResumeNot(c) ==
    /\ c \in paused
    /\ UNCHANGED vars

Resume(c) ==
    /\ c \in paused
    /\ Idle(c)
    /\ paused' = paused \ {c}
    /\ UNCHANGED <<style, brokerVars, life, next, pos, stored, pending, appVars, boundVars>>

-----------------------------------------------------------------------------
Init ==
    /\ style \in Styles
    /\ committed = NoOffset
    /\ owner = Nobody
    /\ life = [c \in Members |-> "off"]
    /\ paused = {}
    /\ next = [c \in Members |-> 0]
    /\ pos = [c \in Members |-> NoOffset]
    /\ stored = [c \in Members |-> NoOffset]
    /\ pending = [c \in Members |-> <<>>]
    /\ hand = [c \in Members |-> NoOffset]
    /\ doing = [c \in Members |-> "idle"]
    /\ tasks = [c \in Members |-> {}]
    /\ processed = {}
    /\ again = {}
    /\ faults = 0
    /\ calls = 0

Modes == {"Sync", "Async"}

Acknowledge(c) ==
    \/ StoreOffset(c) \/ StoreOffsets(c)
    \/ \E mode \in Modes : CommitMessage(c, mode) \/ Commit(c, mode)

\* What the loop of the application does by itself.
Loop(c) ==
    \/ Restart(c) \/ Subscribe(c) \/ Assign(c)
    \/ Recv(c) \/ RecvDetached(c) \/ Process(c) \/ Acknowledge(c) \/ Resume(c)
    \/ \E offset \in 0..End : TaskEnds(c, offset)

\* The other calls an application may make.
Interlude(c) ==
    \/ Unsubscribe(c) \/ Unassign(c) \/ Close(c)
    \/ \E mode \in Modes : CommitPosition(c, mode) \/ CommitConsumerState(c, mode)
    \/ \E offset \in 0..End : Seek(c, offset)
    \/ SeekToCommitted(c)
    \/ \E offset \in 0..End : SeekToTime(c, 10 * offset - 5)
    \/ Pause(c)

Environment(c) ==
    \/ GroupAssigns(c) \/ GroupRevokes(c) \/ Evict(c) \/ LearnsLoss(c)
    \/ CommitArrives(c) \/ AutoCommit(c)
    \/ Crash(c)

Next == \E c \in Members : Loop(c) \/ Interlude(c) \/ Environment(c)

Spec == Init /\ [][Next]_vars

\* Programs are started again and run; the coordinator gives the partition to
\* somebody and notices who is gone; commits reach it; members that have lost
\* the partition learn it.
Fairness ==
    /\ \A c \in Members :
          /\ WF_vars(Loop(c))
          /\ WF_vars(LearnsLoss(c))
          /\ WF_vars(CommitArrives(c))
          /\ WF_vars(Evict(c) /\ life[c] # "member")
    /\ WF_vars(\E c \in Members : GroupAssigns(c))

FairSpec == Spec /\ Fairness

-----------------------------------------------------------------------------
(* Properties *)

\* Messages the group will not receive again and nobody has processed.
Lost == {offset \in 0..End : offset < committed /\ offset \notin processed}

\* at_least_once.rs: "messages might be duplicated, but they won't be lost".
\* The committed offset is never past a message that has not been processed,
\* through crashes, evictions, panics and commits in any order; and so for
\* every application that acknowledges after processing, whichever calls it
\* makes to do so.
AtLeastOnce == style # "simple" => Lost = {}

\* An application that lets librdkafka store offsets on delivery, as
\* simple_consumer.rs does, loses at most the message it had in its hands, and
\* only if it crashes there.
OneLostPerFault ==
    style = "simple" =>
        Cardinality(Lost \ {hand[c] : c \in Members}) <= faults

\* If nothing fails, a member that takes over continues exactly where the one
\* before it stopped, and no message is processed twice: the offset after the
\* last message is stored, and the stored offset is committed before the
\* partition is given back, in close and in a rebalance.
CleanHandover == style = "at_least_once" /\ faults = 0 => again = {}

\* Every message is processed in the end, if it is acknowledged after it.
EventuallyProcessed ==
    style \in {"at_least_once", "explicit"} ~> processed = 0..(End - 1)

=============================================================================
