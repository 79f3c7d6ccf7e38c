---------------------------- MODULE BaseProducer ----------------------------
(***************************************************************************)
(* rdkafka::producer::BaseProducer (src/producer/base_producer.rs).        *)
(*                                                                         *)
(* A BaseProducer is shared by reference between threads.  A record handed *)
(* to `send` carries a delivery opaque, a Rust value that is turned into a *)
(* raw pointer (IntoOpaque::into_ptr), travels through librdkafka with the *)
(* message, and is turned back into a Rust value (from_ptr) either by      *)
(* `send` itself when librdkafka refuses the message, or by the thread     *)
(* whose `poll` receives the delivery report.  The module follows every    *)
(* message and its opaque through                                          *)
(*                                                                         *)
(*     send -> queued <-> inflight -> delivery report event -> callback    *)
(*                                                                         *)
(* with any number of threads inside send, poll, flush and purge, and      *)
(* through the destruction of the producer (Drop).                         *)
(*                                                                         *)
(* librdkafka is external: its queues and its background threads are       *)
(* modelled from what the crate relies on.  Payloads, keys, topics and     *)
(* headers play no part in the control and are left out.                   *)
(*                                                                         *)
(* Time: a Timeout::After deadline may be found elapsed at any check, a    *)
(* Timeout::Never deadline at none.                                        *)
(***************************************************************************)
EXTENDS Naturals, Sequences, FiniteSets

CONSTANTS
    Threads,     \* the threads that share the producer
    Msgs,        \* the records they may send, each with its own opaque
    QueueCap,    \* queue.buffering.max.messages
    EventCap     \* bound: a report-less event is emitted only below this length

ASSUME ProducerAssumption ==
    /\ IsFiniteSet(Msgs)
    /\ QueueCap \in Nat \ {0}
    /\ EventCap \in Nat

VARIABLES
    opaque,      \* opaque[m]: who owns the delivery opaque of m
    queued,      \* messages in librdkafka's producer queue
    inflight,    \* messages in a request to a broker
    events,      \* the main queue: one set of reported messages per event,
                 \* the empty set for an event that reports none
    native,      \* the rd_kafka_t handle: "up" until rd_kafka_destroy
    at,          \* at[t]: the point of the code thread t is at
    op,          \* op[t]: the operation thread t is executing
    never,       \* never[t]: that operation was given Timeout::Never
    held,        \* held[t]: the messages of the event t is dispatching
    todo         \* todo[t]: those of them t has not handled yet

nativeVars == <<queued, inflight, events, native>>
threadVars == <<at, op, never, held, todo>>
vars == <<opaque, nativeVars, threadVars>>

Ops == {"none", "poll", "flush", "drop"}

Points ==
    {"idle",       \* outside the producer
     "event",      \* poll: about to call Client::poll_event
     "deliver",    \* handle_delivery_report_event: top of the message loop
     "callback",   \* inside ProducerContext::delivery
     "elapsed",    \* poll: about to test deadline.elapsed()
     "check",      \* flush: about to call rd_kafka_flush
     "destroy"}    \* Drop: fields are about to be dropped

\* "record": in the caller's BaseRecord; "raw": a raw pointer in librdkafka's
\* hands; "callback": passed to a running delivery callback; "reported": that
\* callback has returned.
Owners == {"record", "raw", "callback", "reported"}

TypeOK ==
    /\ opaque \in [Msgs -> Owners]
    /\ queued \subseteq Msgs
    /\ inflight \subseteq Msgs
    /\ events \in Seq(SUBSET Msgs)
    /\ native \in {"up", "down"}
    /\ at \in [Threads -> Points]
    /\ op \in [Threads -> Ops]
    /\ never \in [Threads -> BOOLEAN]
    /\ held \in [Threads -> SUBSET Msgs]
    /\ todo \in [Threads -> SUBSET Msgs]

-----------------------------------------------------------------------------
InEvents == {m \in Msgs : \E i \in 1..Len(events) : m \in events[i]}

Held == {m \in Msgs : \E t \in Threads : m \in held[t]}

\* What rd_kafka_outq_len counts and rd_kafka_flush waits for: a message stops
\* counting when the event that reports it is destroyed.
Outstanding == queued \cup inflight \cup InEvents \cup Held

Goto(t, point) == at' = [at EXCEPT ![t] = point]

-----------------------------------------------------------------------------
(* BaseProducer::send *)

\* rd_kafka_producev takes the message: librdkafka owns the raw opaque.
SendAccepted(m) ==
    /\ Cardinality(Outstanding) < QueueCap
    /\ opaque' = [opaque EXCEPT ![m] = "raw"]
    /\ queued' = queued \cup {m}
    /\ UNCHANGED <<inflight, events, native, threadVars>>

\* Mutant: the error path of send forgets from_ptr.
SendReturnedLeaks(m) ==
    /\ opaque' = [opaque EXCEPT ![m] = "raw"]
    /\ UNCHANGED <<nativeVars, threadVars>>

\* The topic holds a NUL byte (before into_ptr), or rd_kafka_producev failed
\* (QueueFull or another error) and from_ptr put the opaque back in the record.
SendReturned(m) ==
    /\ opaque' = [opaque EXCEPT ![m] = "record"]
    /\ UNCHANGED <<nativeVars, threadVars>>

Send(t, m) ==
    /\ at[t] = "idle"
    /\ opaque[m] = "record"
    /\ SendAccepted(m) \/ SendReturned(m)

-----------------------------------------------------------------------------
(* BaseProducer::poll and handle_delivery_report_event *)

CallPoll(t, forever) ==
    /\ at[t] = "idle"
    /\ Goto(t, "event")
    /\ op' = [op EXCEPT ![t] = "poll"]
    /\ never' = [never EXCEPT ![t] = forever]
    /\ UNCHANGED <<opaque, nativeVars, held, todo>>

\* poll_event finds the main queue empty until its timeout.
PollNone(t) ==
    /\ at[t] = "event"
    /\ events = <<>>
    /\ Goto(t, "elapsed")
    /\ UNCHANGED <<opaque, nativeVars, op, never, held, todo>>

\* poll_event returns an event that reports no message: a log, statistics or
\* token event the client has consumed, an error, or one that is ignored.
PollOther(t) ==
    /\ at[t] = "event"
    /\ events # <<>>
    /\ Head(events) = {}
    /\ events' = Tail(events)
    /\ Goto(t, "elapsed")
    /\ UNCHANGED <<opaque, queued, inflight, native, op, never, held, todo>>

\* Mutant: the event is destroyed before its messages are delivered.
PollReportDestroys(t) ==
    /\ at[t] = "event"
    /\ events # <<>>
    /\ Head(events) # {}
    /\ events' = Tail(events)
    /\ todo' = [todo EXCEPT ![t] = Head(events)]
    /\ Goto(t, "deliver")
    /\ UNCHANGED <<opaque, queued, inflight, native, op, never, held>>

\* poll_event returns a delivery report; its message array is fetched.
PollReport(t) ==
    /\ at[t] = "event"
    /\ events # <<>>
    /\ Head(events) # {}
    /\ events' = Tail(events)
    /\ held' = [held EXCEPT ![t] = Head(events)]
    /\ todo' = [todo EXCEPT ![t] = Head(events)]
    /\ Goto(t, "deliver")
    /\ UNCHANGED <<opaque, queued, inflight, native, op, never>>

\* One iteration of the loop over the messages: the opaque is rebuilt with
\* from_ptr and context().delivery is entered with it.
Deliver(t, m) ==
    /\ at[t] = "deliver"
    /\ m \in todo[t]
    /\ opaque' = [opaque EXCEPT ![m] = "callback"]
    /\ todo' = [todo EXCEPT ![t] = @ \ {m}]
    /\ Goto(t, "callback")
    /\ UNCHANGED <<nativeVars, op, never, held>>

\* context().delivery returns.
DeliveryReturns(t) ==
    /\ at[t] = "callback"
    /\ opaque' = [m \in Msgs |-> IF m \in held[t] \ todo[t] THEN "reported"
                                                           ELSE opaque[m]]
    /\ Goto(t, "deliver")
    /\ UNCHANGED <<nativeVars, op, never, held, todo>>

\* The loop is over: the last reference to the event goes, rd_kafka_event_destroy
\* frees its messages and they leave the outstanding count.
DestroyEvent(t) ==
    /\ at[t] = "deliver"
    /\ todo[t] = {}
    /\ held' = [held EXCEPT ![t] = {}]
    /\ Goto(t, "elapsed")
    /\ UNCHANGED <<opaque, nativeVars, op, never, todo>>

\* The deadline has not elapsed: poll goes round again.
PollAgain(t) ==
    /\ at[t] = "elapsed"
    /\ Goto(t, "event")
    /\ UNCHANGED <<opaque, nativeVars, op, never, held, todo>>

\* The deadline has elapsed.  The poll that flush makes lasts at most 100 ms
\* whatever the deadline of flush, and comes back to the loop of flush.
PollReturns(t) ==
    /\ at[t] = "elapsed"
    /\ op[t] = "poll" => ~never[t]
    /\ Goto(t, IF op[t] = "poll" THEN "idle" ELSE "check")
    /\ op' = [op EXCEPT ![t] = IF @ = "poll" THEN "none" ELSE @]
    /\ UNCHANGED <<opaque, nativeVars, never, held, todo>>

-----------------------------------------------------------------------------
(* BaseProducer::flush *)

CallFlush(t, forever) ==
    /\ at[t] = "idle"
    /\ Goto(t, "check")
    /\ op' = [op EXCEPT ![t] = "flush"]
    /\ never' = [never EXCEPT ![t] = forever]
    /\ UNCHANGED <<opaque, nativeVars, held, todo>>

\* Where flush, or the flush made by Drop, goes back to.
FlushReturn(t) ==
    /\ Goto(t, IF op[t] = "drop" THEN "destroy" ELSE "idle")
    /\ op' = [op EXCEPT ![t] = IF @ = "drop" THEN @ ELSE "none"]
    /\ UNCHANGED <<opaque, nativeVars, never, held, todo>>

\* rd_kafka_flush(0) says that no message is outstanding.
FlushOk(t) ==
    /\ at[t] = "check"
    /\ Outstanding = {}
    /\ FlushReturn(t)

\* Some are and the deadline has elapsed: Err(KafkaError::Flush).
FlushTimesOut(t) ==
    /\ at[t] = "check"
    /\ Outstanding # {}
    /\ ~never[t]
    /\ FlushReturn(t)

\* Mutant: flush waits for the count without serving the queue.
FlushOnlyWaits(t) ==
    /\ at[t] = "check"
    /\ Outstanding # {}
    /\ UNCHANGED vars

\* Some are and there is time left: serve the queue.
FlushPolls(t) ==
    /\ at[t] = "check"
    /\ Outstanding # {}
    /\ Goto(t, "event")
    /\ UNCHANGED <<opaque, nativeVars, op, never, held, todo>>

-----------------------------------------------------------------------------
(* BaseProducer::purge *)

\* rd_kafka_purge with the flags of a PurgeConfig: the messages of the chosen
\* queues fail and become ready to be reported.
PurgeNative(flags) ==
    LET purged == (IF "queue" \in flags THEN queued ELSE {})
                     \cup (IF "inflight" \in flags THEN inflight ELSE {})
    IN  /\ queued' = queued \ purged
        /\ inflight' = inflight \ purged
        /\ events' = IF purged = {} THEN events ELSE Append(events, purged)

Purge(t, flags) ==
    /\ at[t] = "idle"
    /\ PurgeNative(flags)
    /\ UNCHANGED <<opaque, native, threadVars>>

-----------------------------------------------------------------------------
(* Drop for BaseProducer *)

\* drop(): purge everything, then flush for 500 ms.
BeginDrop(t) ==
    /\ PurgeNative({"queue", "inflight"})
    /\ Goto(t, "check")
    /\ op' = [op EXCEPT ![t] = "drop"]
    /\ never' = [never EXCEPT ![t] = FALSE]
    /\ UNCHANGED <<opaque, native, held, todo>>

\* Rust's ownership: a value is dropped when nothing borrows it, and nothing
\* can borrow it from then on.
Borrowable ==
    /\ native = "up"
    /\ \A t \in Threads : op[t] # "drop"

Drop(t) ==
    /\ Borrowable
    /\ \A u \in Threads : at[u] = "idle"
    /\ BeginDrop(t)

\* The client field is dropped: rd_kafka_destroy frees what it still holds,
\* and forgets the opaques of the messages that were never reported.
Destroy(t) ==
    /\ at[t] = "destroy"
    /\ native' = "down"
    /\ queued' = {}
    /\ inflight' = {}
    /\ events' = <<>>
    /\ Goto(t, "idle")
    /\ op' = [op EXCEPT ![t] = "none"]
    /\ UNCHANGED <<opaque, never, held, todo>>

-----------------------------------------------------------------------------
(* librdkafka's background threads *)

Transmit(m) ==
    /\ native = "up"
    /\ m \in queued
    /\ queued' = queued \ {m}
    /\ inflight' = inflight \cup {m}
    /\ UNCHANGED <<opaque, events, native, threadVars>>

\* A request failed and its message is retried.
Retry(m) ==
    /\ native = "up"
    /\ m \in inflight
    /\ inflight' = inflight \ {m}
    /\ queued' = queued \cup {m}
    /\ UNCHANGED <<opaque, events, native, threadVars>>

\* Messages are acknowledged, fail or time out: one event reports them.
Report(ms) ==
    /\ native = "up"
    /\ ms # {}
    /\ ms \subseteq queued \cup inflight
    /\ queued' = queued \ ms
    /\ inflight' = inflight \ ms
    /\ events' = Append(events, ms)
    /\ UNCHANGED <<opaque, native, threadVars>>

\* An error, a log line, statistics, a token refresh request.
EmitOther ==
    /\ native = "up"
    /\ Len(events) < EventCap
    /\ events' = Append(events, {})
    /\ UNCHANGED <<opaque, queued, inflight, native, threadVars>>

Background ==
    \/ \E m \in Msgs : Transmit(m) \/ Retry(m)
    \/ \E ms \in SUBSET Msgs : Report(ms)
    \/ EmitOther

-----------------------------------------------------------------------------
Init ==
    /\ opaque = [m \in Msgs |-> "record"]
    /\ queued = {}
    /\ inflight = {}
    /\ events = <<>>
    /\ native = "up"
    /\ at = [t \in Threads |-> "idle"]
    /\ op = [t \in Threads |-> "none"]
    /\ never = [t \in Threads |-> FALSE]
    /\ held = [t \in Threads |-> {}]
    /\ todo = [t \in Threads |-> {}]

\* A call a thread makes on the producer.
Call(t) ==
    \/ \E m \in Msgs : Send(t, m)
    \/ \E forever \in BOOLEAN : CallPoll(t, forever) \/ CallFlush(t, forever)
    \/ \E flags \in SUBSET {"queue", "inflight"} : Purge(t, flags)

\* A step inside poll, flush or drop.
Step(t) ==
    \/ PollNone(t) \/ PollOther(t) \/ PollReport(t)
    \/ \E m \in Msgs : Deliver(t, m)
    \/ DeliveryReturns(t) \/ DestroyEvent(t)
    \/ PollAgain(t) \/ PollReturns(t)
    \/ FlushOk(t) \/ FlushTimesOut(t) \/ FlushPolls(t)
    \/ Destroy(t)

Next ==
    \/ \E t \in Threads : (Borrowable /\ Call(t)) \/ Step(t) \/ Drop(t)
    \/ Background

Spec == Init /\ [][Next]_vars

\* Threads inside the producer run and delivery callbacks return; time passes,
\* so a poll with a finite timeout is not found unelapsed for ever; librdkafka
\* gives every message an outcome (message.timeout.ms at the latest).
Fairness ==
    /\ \A t \in Threads : WF_vars(Step(t)) /\ SF_vars(PollReturns(t))
    /\ \A m \in Msgs : WF_vars(\E ms \in SUBSET Msgs : m \in ms /\ Report(ms))

FairSpec == Spec /\ Fairness

-----------------------------------------------------------------------------
(* Properties *)

\* An opaque is a raw pointer exactly while librdkafka, or a report that some
\* thread is still dispatching, will lead to its from_ptr: `send` never loses
\* the opaque of a refused record, and no accepted one is forgotten by poll.
OpaqueHasOwner ==
    native = "up" =>
        \A m \in Msgs :
            opaque[m] = "raw" <=> \/ m \in queued \cup inflight \cup InEvents
                                 \/ \E t \in Threads : m \in todo[t]

\* A message is in one place only: in a queue of librdkafka, in one event of
\* the main queue or in the event of one thread.  Two places would mean two
\* reports, and a second from_ptr of the same pointer (util.rs, IntoOpaque).
OnePlace ==
    /\ queued \cap inflight = {}
    /\ (queued \cup inflight) \cap (InEvents \cup Held) = {}
    /\ InEvents \cap Held = {}
    /\ \A i, j \in 1..Len(events) : i # j => events[i] \cap events[j] = {}
    /\ \A t, u \in Threads : t # u => held[t] \cap held[u] = {}

\* The control state of the threads is consistent, and the thread that drops
\* the producer is alone in it.
Control ==
    \A t \in Threads :
        /\ at[t] = "idle" <=> op[t] = "none"
        /\ at[t] = "check" => op[t] \in {"flush", "drop"}
        /\ at[t] = "destroy" => op[t] = "drop"
        /\ todo[t] \subseteq held[t]
        /\ held[t] # {} => at[t] \in {"deliver", "callback"}
        /\ op[t] = "drop" => \A u \in Threads \ {t} : at[u] = "idle"
        /\ native = "down" => at[t] = "idle"

\* A message that was taken from its event is in a callback or past it, and a
\* callback that runs is for one message of the event its thread holds.
Handled ==
    /\ \A t \in Threads : \A m \in held[t] \ todo[t] :
          opaque[m] \in {"callback", "reported"}
    /\ \A t \in Threads : \A m, n \in held[t] :
          opaque[m] = "callback" /\ opaque[n] = "callback" => m = n
    /\ \A m \in Msgs : opaque[m] = "callback" =>
          \E t \in Threads : at[t] = "callback" /\ m \in held[t] \ todo[t]

\* The inductive invariant behind the theorems of BaseProducerProofs.
Inv == TypeOK /\ Control /\ OnePlace /\ OpaqueHasOwner /\ Handled

\* from_ptr is applied to a raw pointer only, and an opaque that was handed to
\* a delivery callback is never handed out again.
ReclaimedOnce ==
    [][\A m \in Msgs :
          /\ \A t \in Threads : Deliver(t, m) => opaque[m] = "raw"
          /\ opaque'[m] = "callback" => opaque[m] \in {"raw", "callback"}
          /\ opaque[m] = "callback" => opaque'[m] \in {"callback", "reported"}
          /\ opaque[m] = "reported" => opaque'[m] = "reported"]_vars

\* When flush returns Ok, the delivery callback of every record accepted so
\* far has returned, in whichever thread it ran.
FlushCompletes ==
    [][\A t \in Threads : FlushOk(t) =>
          \A m \in Msgs : opaque[m] \in {"record", "reported"}]_vars

\* A flush comes back, with Timeout::Never too and with no other thread
\* polling: flush serves the queue it waits for.
FlushReturns == \A t \in Threads : op[t] = "flush" ~> at[t] = "idle"

\* What has become of a record, as its sender sees it.
Status ==
    [m \in Msgs |->
        CASE opaque[m] = "record"   -> "offered"
          [] opaque[m] = "reported" -> "reported"
          [] OTHER -> IF native = "up" THEN "accepted" ELSE "lost"]

Contract == INSTANCE DeliveryContract WITH
    Records <- Msgs,
    Limit   <- QueueCap,
    status  <- Status,
    closed  <- native = "down"

\* Every behaviour of the producer is one that the delivery contract allows: a
\* record is refused or accepted, its outcome is reported once, at most
\* queue.buffering.max.messages of them wait for theirs.
ImplementsContract == Contract!ContractSpec

=============================================================================
