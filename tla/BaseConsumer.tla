---------------------------- MODULE BaseConsumer ----------------------------
(***************************************************************************)
(* rdkafka::consumer::BaseConsumer (src/consumer/base_consumer.rs) as a    *)
(* member of a consumer group, with the default ConsumerContext::rebalance *)
(* (src/consumer/mod.rs).                                                  *)
(*                                                                         *)
(* librdkafka does not change the assignment of a member by itself: it     *)
(* puts a rebalance event in the consumer queue and waits until the        *)
(* application, from the handler that poll runs, makes the assignment the  *)
(* event asks for.  The group starts no other rebalance meanwhile.  The    *)
(* drop of the consumer relies on it too: it asks librdkafka to close, and *)
(* polls until the last partitions have been revoked.                      *)
(*                                                                         *)
(* The group, and the effect of the assign calls, are external.  Messages  *)
(* of a partition are outdated when the partition leaves the assignment;   *)
(* librdkafka discards them when it finds them in the queue.               *)
(***************************************************************************)
EXTENDS Naturals, Sequences, FiniteSets

CONSTANTS
    Threads,       \* the threads that share the consumer
    Partitions,    \* the partitions of the topics subscribed to
    Protocols,     \* the rebalance protocols the group may have agreed on
    QueueCap       \* bound: librdkafka fetches only below this queue length

ASSUME ConsumerAssumption ==
    /\ IsFiniteSet(Threads)
    /\ Protocols \subseteq {"Eager", "Cooperative"}
    /\ QueueCap \in Nat

VARIABLES
    users,       \* the threads that call the consumer
    protocol,    \* what rebalance_protocol() returns
    queue,       \* the consumer queue
    join,        \* what librdkafka waits for: nothing, or an assign call
    granted,     \* the partitions the group has given to this member
    assigned,    \* the assignment librdkafka fetches
    told,        \* the partitions the callbacks have told the context it has
    native,      \* the rd_kafka_t handle
    fatal,       \* a fatal error has been raised in librdkafka
    at,          \* at[t]: the point of the code thread t is at
    op,          \* op[t]: the operation t is executing
    never,       \* never[t]: it was given Timeout::Never
    event        \* event[t]: the rebalance event t is handling

setup == <<users, protocol>>
groupVars == <<join, granted, fatal>>
callVars == <<op, never>>
vars == <<setup, queue, groupVars, assigned, told, native, at, callVars, event>>

Kinds == {"message", "assign", "revoke", "commit", "error", "client", "ignored", "outdated"}

EventType == [kind : Kinds, parts : SUBSET Partitions]

Event(kind, parts) == [kind |-> kind, parts |-> parts]

NoEvent == Event("ignored", {})

Rebalances == {"assign", "revoke"}

Cooperative == protocol = "Cooperative"

TypeOK ==
    /\ users \subseteq Threads
    /\ protocol \in Protocols
    /\ queue \in Seq(EventType)
    /\ join \in {"steady", "assign", "revoke"}
    /\ granted \subseteq Partitions
    /\ assigned \subseteq Partitions
    /\ told \subseteq Partitions
    /\ native \in {"up", "closing", "closed", "down"}
    /\ fatal \in BOOLEAN
    /\ at \in [Threads -> {"idle",
                           "poll",       \* poll_queue: about to poll an event
                           "pre",        \* inside pre_rebalance
                           "execute",    \* about to make the assignment
                           "post",       \* inside post_rebalance
                           "served",     \* an event was served
                           "drop",       \* Drop: about to close the queue
                           "closed?",    \* Drop: about to test closed()
                           "destroy"}]   \* Drop: the fields are about to go
    /\ op \in [Threads -> {"none", "poll", "drop"}]
    /\ never \in [Threads -> BOOLEAN]
    /\ event \in [Threads -> EventType]

Goto(t, point) == at' = [at EXCEPT ![t] = point]

-----------------------------------------------------------------------------
(* The consumer group and the fetcher *)

Push(e) == queue' = Append(queue, e)

\* The group gives partitions to the member: all of its share if the protocol
\* is eager, additional ones if it is cooperative.
GroupAssigns(ps) ==
    /\ native = "up"
    /\ join = "steady"
    /\ ps # {}
    /\ IF Cooperative THEN ps \cap granted = {} ELSE granted = {}
    /\ granted' = granted \cup ps
    /\ join' = "assign"
    /\ Push(Event("assign", ps))
    /\ UNCHANGED <<fatal, assigned, told, native, at, callVars, event>>

\* The group takes partitions back: everything if the protocol is eager, or if
\* the member is leaving.
GroupRevokes(ps) ==
    /\ native \in {"up", "closing"}
    /\ join = "steady"
    /\ ps # {}
    /\ ps \subseteq granted
    /\ ~Cooperative \/ native = "closing" => ps = granted
    /\ granted' = granted \ ps
    /\ join' = "revoke"
    /\ Push(Event("revoke", ps))
    /\ UNCHANGED <<fatal, assigned, told, native, at, callVars, event>>

Fetches(p) ==
    /\ native = "up"
    /\ p \in assigned
    /\ Len(queue) < QueueCap
    /\ Push(Event("message", {p}))
    /\ UNCHANGED <<groupVars, assigned, told, native, at, callVars, event>>

\* The outcome of a commit, an error, a log line or statistics, an event of a
\* type poll_queue does not know.
Emits(kind) ==
    /\ native \in {"up", "closing"}
    /\ Len(queue) < QueueCap
    /\ Push(Event(kind, {}))
    /\ UNCHANGED <<groupVars, assigned, told, native, at, callVars, event>>

\* A fatal error (a fenced static member, for one) is raised, and reported.
FatalError ==
    /\ native \in {"up", "closing"}
    /\ ~fatal
    /\ fatal' = TRUE
    /\ Push(Event("error", {}))
    /\ UNCHANGED <<join, granted, assigned, told, native, at, callVars, event>>

\* A member that is closing has given everything back: it leaves the group.
Leaves ==
    /\ native = "closing"
    /\ join = "steady"
    /\ granted = {}
    /\ native' = "closed"
    /\ UNCHANGED <<queue, groupVars, assigned, told, at, callVars, event>>

-----------------------------------------------------------------------------
(* BaseConsumer::poll, poll_queue *)

CallPoll(t, forever) ==
    /\ at[t] = "idle"
    /\ Goto(t, "poll")
    /\ op' = [op EXCEPT ![t] = "poll"]
    /\ never' = [never EXCEPT ![t] = forever]
    /\ UNCHANGED <<queue, groupVars, assigned, told, native, event>>

\* poll gives control back, to the caller or to the loop of drop().
Return(t) ==
    /\ Goto(t, IF op[t] = "drop" THEN "closed?" ELSE "idle")
    /\ op' = [op EXCEPT ![t] = IF @ = "drop" THEN @ ELSE "none"]
    /\ never' = [never EXCEPT ![t] = FALSE]
    /\ UNCHANGED event

\* The first event of the queue is taken and is of one of the kinds given.
Take(t, kinds) ==
    /\ at[t] = "poll"
    /\ queue # <<>>
    /\ Head(queue).kind \in kinds
    /\ queue' = Tail(queue)

\* A message or an error ends poll with something to return.
PollItem(t) ==
    /\ Take(t, {"message", "error"})
    /\ Return(t)
    /\ UNCHANGED <<groupVars, assigned, told, native>>

\* librdkafka discards a message that is outdated, and waits for another event.
PollOutdated(t) ==
    /\ Take(t, {"outdated"})
    /\ UNCHANGED <<groupVars, assigned, told, native, at, callVars, event>>

\* poll_queue warns about an event it does not know, and goes on.
PollIgnored(t) ==
    /\ Take(t, {"ignored"})
    /\ UNCHANGED <<groupVars, assigned, told, native, at, callVars, event>>

\* The client has consumed the event: poll_queue goes on while there is time.
PollClient(t) ==
    /\ Take(t, {"client"})
    /\ \/ UNCHANGED <<at, callVars, event>>
       \/ ~never[t] /\ Return(t)
    /\ UNCHANGED <<groupVars, assigned, told, native>>

\* commit_callback is called.
PollCommit(t) ==
    /\ Take(t, {"commit"})
    /\ Goto(t, "served")
    /\ UNCHANGED <<groupVars, assigned, told, native, callVars, event>>

\* Nothing has come until the end of op_timeout.
PollNone(t) ==
    /\ at[t] = "poll"
    /\ queue = <<>>
    /\ ~never[t]
    /\ Return(t)
    /\ UNCHANGED <<queue, groupVars, assigned, told, native>>

\* Mutant: pre_rebalance is not called.
PollRebalanceAtOnce(t) ==
    /\ Take(t, Rebalances)
    /\ Goto(t, "execute")
    /\ event' = [event EXCEPT ![t] = Head(queue)]
    /\ UNCHANGED <<groupVars, assigned, told, native, callVars>>

PollRebalance(t) ==
    /\ Take(t, Rebalances)
    /\ Goto(t, "pre")
    /\ event' = [event EXCEPT ![t] = Head(queue)]
    /\ told' = IF Head(queue).kind = "revoke" THEN told \ Head(queue).parts ELSE told
    /\ UNCHANGED <<groupVars, assigned, native, callVars>>

PreReturns(t) ==
    /\ at[t] = "pre"
    /\ Goto(t, "execute")
    /\ UNCHANGED <<queue, groupVars, assigned, told, native, callVars, event>>

\* What rd_kafka_assign, rd_kafka_incremental_assign and _unassign do.
Assign(ps) ==
    /\ assigned' = ps
    /\ queue' = [i \in DOMAIN queue |->
                    IF queue[i].kind = "message" /\ ~(queue[i].parts \subseteq ps)
                    THEN Event("outdated", {}) ELSE queue[i]]
    /\ join' = "steady"

\* Mutant: the protocol is not looked at.
ExecuteEagerly(t) ==
    /\ at[t] = "execute"
    /\ Assign(IF event[t].kind = "assign" THEN event[t].parts ELSE {})
    /\ Goto(t, "post")
    /\ UNCHANGED <<granted, fatal, told, native, callVars, event>>

Execute(t) ==
    /\ at[t] = "execute"
    /\ Assign(LET ps == event[t].parts
              IN  IF event[t].kind = "assign"
                  THEN IF Cooperative THEN assigned \cup ps ELSE ps
                  ELSE IF Cooperative THEN assigned \ ps ELSE {})
    /\ Goto(t, "post")
    /\ UNCHANGED <<granted, fatal, told, native, callVars, event>>

\* post_rebalance has told the context what it was given.
PostReturns(t) ==
    /\ at[t] = "post"
    /\ told' = IF event[t].kind = "assign" THEN told \cup event[t].parts ELSE told
    /\ event' = [event EXCEPT ![t] = NoEvent]
    /\ Goto(t, "served")
    /\ UNCHANGED <<queue, groupVars, assigned, native, callVars>>

\* An event was served: poll_queue returns EventConsumed, or goes on if it may
\* wait for ever.
Served(t) ==
    /\ at[t] = "served"
    /\ \/ never[t] /\ Goto(t, "poll") /\ UNCHANGED <<callVars, event>>
       \/ ~never[t] /\ Return(t)
    /\ UNCHANGED <<queue, groupVars, assigned, told, native>>

-----------------------------------------------------------------------------
(* Drop for BaseConsumer, close_queue *)

\* Rust's ownership: nothing borrows the consumer, and nothing can any more.
BeginDrop(t) ==
    /\ native \in {"up", "closing", "closed"}
    /\ \A u \in Threads : at[u] = "idle" /\ op[u] = "none"
    /\ Goto(t, "drop")
    /\ op' = [op EXCEPT ![t] = "drop"]
    /\ never' = [never EXCEPT ![t] = FALSE]
    /\ UNCHANGED <<queue, groupVars, assigned, told, native, event>>

\* rd_kafka_consumer_close_queue, which refuses after a fatal error.
CloseNative == native' = IF native = "up" /\ ~fatal THEN "closing" ELSE native

\* The user may close the consumer before it is dropped.
CloseQueue(t) ==
    /\ at[t] = "idle"
    /\ CloseNative
    /\ UNCHANGED <<queue, groupVars, assigned, told, at, callVars, event>>

\* Mutant: the client is destroyed without waiting for the end of the close.
DropClosesOnly(t) ==
    /\ at[t] = "drop"
    /\ CloseNative
    /\ Goto(t, "destroy")
    /\ UNCHANGED <<queue, groupVars, assigned, told, callVars, event>>

\* If the queue cannot be closed, drop() does not wait.
DropCloses(t) ==
    /\ at[t] = "drop"
    /\ CloseNative
    /\ Goto(t, IF fatal THEN "destroy" ELSE "closed?")
    /\ UNCHANGED <<queue, groupVars, assigned, told, callVars, event>>

\* Mutant: drop waits for the close without serving the queue.
DropOnlyWaits(t) ==
    /\ at[t] = "closed?"
    /\ native = "closed"
    /\ Goto(t, "destroy")
    /\ UNCHANGED <<queue, groupVars, assigned, told, native, callVars, event>>

\* while !self.closed() { self.poll(100 ms) }
DropPolls(t) ==
    /\ at[t] = "closed?"
    /\ Goto(t, IF native = "closed" THEN "destroy" ELSE "poll")
    /\ UNCHANGED <<queue, groupVars, assigned, told, native, callVars, event>>

Destroy(t) ==
    /\ at[t] = "destroy"
    /\ native' = "down"
    /\ queue' = <<>>
    /\ Goto(t, "idle")
    /\ op' = [op EXCEPT ![t] = "none"]
    /\ UNCHANGED <<groupVars, assigned, told, never, event>>

-----------------------------------------------------------------------------
Init ==
    /\ users \in SUBSET Threads \ {{}}
    /\ protocol \in Protocols
    /\ queue = <<>>
    /\ join = "steady"
    /\ granted = {}
    /\ assigned = {}
    /\ told = {}
    /\ native = "up"
    /\ fatal = FALSE
    /\ at = [t \in Threads |-> "idle"]
    /\ op = [t \in Threads |-> "none"]
    /\ never = [t \in Threads |-> FALSE]
    /\ event = [t \in Threads |-> NoEvent]

\* A call on a consumer that is not being dropped.
Borrowable == native # "down" /\ \A t \in Threads : op[t] # "drop"

Call(t) == CloseQueue(t) \/ \E forever \in BOOLEAN : CallPoll(t, forever)

Step(t) ==
    \/ PollItem(t) \/ PollOutdated(t) \/ PollIgnored(t) \/ PollClient(t)
    \/ PollCommit(t) \/ PollNone(t) \/ PollRebalance(t)
    \/ PreReturns(t) \/ Execute(t) \/ PostReturns(t) \/ Served(t)
    \/ DropCloses(t) \/ DropPolls(t) \/ Destroy(t)

Group ==
    \/ \E ps \in SUBSET Partitions : GroupAssigns(ps) \/ GroupRevokes(ps)
    \/ Leaves

Next ==
    /\ \/ \E t \in users : (Borrowable /\ Call(t)) \/ Step(t) \/ BeginDrop(t)
       \/ Group
       \/ FatalError
       \/ \E p \in Partitions : Fetches(p)
       \/ \E kind \in {"commit", "error", "client", "ignored"} : Emits(kind)
    /\ UNCHANGED setup

Spec == Init /\ [][Next]_vars

\* Threads inside the consumer run and the callbacks return; librdkafka takes
\* back the partitions of a member that is closing, and then lets it go.
Fairness ==
    /\ \A t \in Threads : WF_vars(Step(t) /\ UNCHANGED setup)
    /\ WF_vars(native = "closing" /\ Group /\ UNCHANGED setup)

FairSpec == Spec /\ Fairness

-----------------------------------------------------------------------------
(* Properties *)

\* Between rebalances librdkafka fetches exactly the partitions the group has
\* given to this member, by both protocols and whichever thread handled them.
AssignmentIsGranted == join = "steady" => assigned = granted

\* What the callbacks have told the context it has is what it may work on, never
\* a partition that has been taken away, if one thread polls the consumer.  With
\* two, post_rebalance runs after the assignment was made, and the other thread
\* may begin with the next rebalance before it.
ToldIsAssigned == Cardinality(users) = 1 => told \subseteq assigned

\* When the client is destroyed the member has given everything back and has left
\* the group, unless a fatal error kept it from closing.
DestroyedAfterLeaving == native = "down" /\ ~fatal => granted = {} /\ assigned = {}

\* The drop of the consumer comes to an end.
DropEnds == (\E t \in Threads : op[t] = "drop") ~> native = "down"

=============================================================================
