---------------------------- MODULE NativeObjects ----------------------------
(***************************************************************************)
(* Who owns the objects of librdkafka, and for how long: the configuration *)
(* (src/config.rs), the client with its queues, topics and context         *)
(* (src/client.rs), events and the messages in them (src/message.rs),      *)
(* headers, metadata and group lists, the closure of the non-empty         *)
(* callback (src/consumer/base_consumer.rs), and the mock cluster          *)
(* (src/mocking.rs).                                                       *)
(*                                                                         *)
(* A NativePtr frees its object when it is dropped; an Arc, a              *)
(* ManuallyDrop, a raw pointer or a forget() in the code changes who frees *)
(* it.  Each step says which objects it allocates, uses and frees.  What   *)
(* the borrow checker excludes is a guard: a client is not dropped while a *)
(* BorrowedMessage, a borrowed MockCluster or a call on it is there.       *)
(* OwnedMessages, OwnedHeaders, Metadata, GroupLists and the futures of    *)
(* the admin API borrow nothing, and may outlive the client.               *)
(***************************************************************************)
EXTENDS FiniteSets

CONSTANTS
    Kinds,       \* the clients made: a subset of ClientKinds
    Events,      \* room for events taken from the queue
    Headers,     \* room for native headers
    Closures,    \* room for the closures of the non-empty callback
    None         \* no closure

Queues == {"queue", "partition queue"}

ClientKinds == {"consumer", "producer", "admin", "mock"}

Handles == {"conf", "client", "log queue", "context", "topic", "mock", "snapshot",
            "cluster id"} \cup Queues

\* An object is of one sort.
ASSUME ObjectsAssumption ==
    /\ Kinds \subseteq ClientKinds
    /\ None \notin Closures
    /\ Events \cap Headers = {} /\ Headers \cap Closures = {} /\ Closures \cap Events = {}
    /\ (Events \cup Headers \cup Closures) \cap Handles = {}

Keys == {"test.mock.num.brokers", "key"}
Values == {"unset", "taken", "nul", "refused"}

Objects == Handles \cup Events \cup Headers \cup Closures

VARIABLES
    kind,        \* the client that is made
    at,          \* how far its life has come
    confMap,     \* ClientConfig.conf_map
    mem,         \* mem[o]: is o allocated
    lost,        \* the objects whose last pointer was overwritten
    errors,      \* the errors of the creation that leave something behind
    holders,     \* holders[e]: who has the NativeEvent, or an Arc of it
    owner,       \* owner[h]: who has to destroy the headers
    arcs,        \* who has an Arc of a consumer: its user, its PartitionQueue
    split,       \* the life of the PartitionQueue
    closure,     \* of a queue: nonempty_callback, what librdkafka calls, what runs
    mockRef,     \* the MockCluster the user has
    partitioning \* librdkafka is in the custom partitioner

userVars == <<arcs, split>>
vars == <<kind, at, confMap, mem, lost, errors, holders, owner, userVars, closure, mockRef, partitioning>>

Stages == {"config", "native config", "client", "up", "dropping", "native", "context",
           "queue", "gone"}

TypeOK ==
    /\ kind \in Kinds
    /\ at \in Stages
    /\ confMap \in [Keys -> Values]
    /\ mem \in [Objects -> {"free", "live", "corrupt"}]
    /\ lost \subseteq Objects
    /\ errors \subseteq {"new", "log"}
    /\ holders \in [Events -> SUBSET {"poll", "message", "future"}]
    /\ owner \in [Headers -> {"nobody", "user", "message", "record", "native"}]
    /\ arcs \subseteq {"user", "partition queue"}
    /\ split \in {"no", "yes", "dropped", "dropped last", "gone"}
    /\ closure \in [Queues -> [kept : Closures \cup {None}, enabled : Closures \cup {None},
                               running : Closures \cup {None}]]
    /\ mockRef \in {"none", "owned", "borrowed"}
    /\ partitioning \in BOOLEAN

Live == {o \in Objects : mem[o] = "live"}

\* The effect of a step on the memory.  What is used or freed must be allocated;
\* an allocation in the place of an object that is still there loses that object.
Memory(new, used, gone) ==
    /\ mem' = [o \in Objects |->
                  CASE o \in (used \cup gone) \ (new \cup Live) -> "corrupt"
                    [] o \in gone \cap (new \cup Live) -> "free"
                    [] o \in new \ gone -> "live"
                    [] OTHER -> mem[o]]
    /\ lost' = lost \cup (new \cap Live)

\* Nothing borrows the client any more.
Unborrowed ==
    /\ mockRef # "borrowed"
    /\ kind # "admin" => \A e \in Events : holders[e] = {}

\* The user has the client, or an Arc of it, to call.
InUse == at = "up" /\ "user" \in arcs

-----------------------------------------------------------------------------
(* From the configuration to the client *)

\* ClientConfig::set, and remove.  MockCluster::new starts from an empty map.
Set(k, v) ==
    /\ at = "config"
    /\ kind # "mock"
    /\ confMap' = [confMap EXCEPT ![k] = v]
    /\ UNCHANGED <<kind, at, mem, lost, errors, holders, owner, userVars, closure, mockRef, partitioning>>

\* create_native_config: the first parameter that is refused drops the new object.
CreateNativeConfig ==
    /\ at = "config"
    /\ IF \A k \in Keys : confMap[k] \in {"unset", "taken"}
       THEN Memory({"conf", "context"}, {}, {}) /\ at' = "native config"
       ELSE Memory({"conf"}, {}, {"conf"}) /\ at' = "config"
    /\ UNCHANGED <<kind, confMap, errors, holders, owner, userVars, closure, mockRef, partitioning>>

\* What rd_kafka_new makes, and the handle of its main queue.
Made ==
    {"client", "log queue"}
        \cup (IF confMap["test.mock.num.brokers"] = "taken" THEN {"mock"} ELSE {})

\* Client::new_context_arc.  rd_kafka_new takes the configuration over if it makes
\* a client; it is no more the NativeClientConfig's, whether or not it does.  The
\* handle of the main queue that rd_kafka_set_log_queue is given is nobody's.  A
\* creation that leaves something behind is the last one.
NewClient ==
    /\ at = "native config"
    /\ \/ /\ Memory({}, {"conf"}, {"conf", "context"})             \* "log.queue" refused
          /\ at' = "config"
          /\ UNCHANGED errors
       \/ /\ Memory({}, {"conf"}, {"context"})                     \* rd_kafka_new fails
          /\ at' = "gone"
          /\ errors' = {"new"}
       \/ /\ Memory(Made, {"conf"}, {"context"})                   \* set_log_queue fails
          /\ at' = "gone"
          /\ errors' = {"log"}
       \/ /\ Memory(Made, {"conf"}, {})
          /\ at' = "client"
          /\ UNCHANGED errors
    /\ UNCHANGED <<kind, confMap, holders, owner, userVars, closure, mockRef, partitioning>>

\* The objects librdkafka frees with the client: its configuration, topics and
\* messages, and a mock cluster of its own.
WithClient ==
    {"client", "conf"}
        \cup ({"topic"} \cap Live)
        \cup (IF kind # "mock" THEN {"mock"} \cap Live ELSE {})
        \cup {h \in Headers : owner[h] = "native"}

\* The handle of the queue a client polls: consumer_queue, main_queue or
\* new_native_queue.  The first of them may find none.
NativeQueue ==
    /\ kind # "mock"
    /\ Memory({"queue"}, {"client"}, {})

\* A client of any kind but "mock" takes its queue, MockCluster::new makes the mock
\* cluster.  If there is none, the client is dropped.
FinishClient ==
    /\ at = "client"
    /\ \/ /\ kind \in {"consumer", "mock"}
          /\ Memory({}, {}, WithClient \cup {"context"})
          /\ at' = "config"
          /\ UNCHANGED mockRef
       \/ /\ NativeQueue
          /\ at' = "up"
          /\ UNCHANGED mockRef
       \/ /\ kind = "mock"
          /\ Memory({"mock"}, {"client"}, {})
          /\ at' = "up"
          /\ mockRef' = "owned"
    /\ UNCHANGED <<kind, confMap, errors, holders, owner, userVars, closure, partitioning>>

-----------------------------------------------------------------------------
(* Events and messages *)

\* A poll, by any thread, takes an event from the queue.  An admin client is polled
\* by its own thread until drop() has joined it.
PollQueue(e, q) ==
    /\ CASE q = "partition queue" -> split = "yes"
         [] OTHER -> InUse \/ (at = "dropping" /\ kind = "admin")
    /\ kind # "mock"
    /\ holders[e] = {}
    /\ Memory({e}, {q} \cup (IF kind = "admin" THEN {} ELSE {"client"}), {})
    /\ holders' = [holders EXCEPT ![e] = {"poll"}]
    /\ UNCHANGED <<kind, at, confMap, errors, owner, userVars, closure, mockRef, partitioning>>

\* The holders of e become hs; the last one destroys the event.
Hold(e, hs, used) ==
    /\ holders' = [holders EXCEPT ![e] = hs]
    /\ Memory({}, used, IF hs = {} THEN {e} ELSE {})

\* Mutant: the message does not keep the event.
FetchedUnkept(e) ==
    /\ kind = "consumer"
    /\ holders[e] = {"poll"}
    /\ \/ Hold(e, {}, {e})
       \/ holders' = [holders EXCEPT ![e] = {"message"}] /\ Memory({}, {e}, {e})
    /\ UNCHANGED <<kind, at, confMap, errors, owner, userVars, closure, mockRef, partitioning>>

\* A consumer's event: it has a message, which takes the event along, or only an
\* error, or is none of a fetch.
Fetched(e) ==
    /\ kind = "consumer"
    /\ holders[e] = {"poll"}
    /\ Hold(e, {}, {e}) \/ Hold(e, {"message"}, {e})
    /\ UNCHANGED <<kind, at, confMap, errors, owner, userVars, closure, mockRef, partitioning>>

\* A delivery report: each message in it has an Arc of the event for the time of
\* the callback, and the handler has one as long as there are messages left.
Reported(e) ==
    /\ kind = "producer"
    /\ \/ holders[e] = {"poll"} /\ Hold(e, {"poll", "message"}, {e, "context"})
       \/ holders[e] = {"poll", "message"} /\ Hold(e, {"poll"}, {e, "context"})
       \/ holders[e] = {"poll"} /\ Hold(e, {}, {e})
    /\ UNCHANGED <<kind, at, confMap, errors, owner, userVars, closure, mockRef, partitioning>>

\* An answer for the future of an admin request, which may be gone.
Answered(e) ==
    /\ kind = "admin"
    /\ holders[e] = {"poll"}
    /\ Hold(e, {}, {e}) \/ Hold(e, {"future"}, {e})
    /\ UNCHANGED <<kind, at, confMap, errors, owner, userVars, closure, mockRef, partitioning>>

\* A BorrowedMessage is dropped by its user, or the future of a request reads its
\* event and drops it; the client may be gone by then.
DropHolder(e) ==
    /\ holders[e] \in {{"message"}, {"future"}}
    /\ Hold(e, {}, {e})
    /\ UNCHANGED <<kind, at, confMap, errors, owner, userVars, closure, mockRef, partitioning>>

\* BorrowedHeaders::detach: a copy of the headers in `from` for their new owner.
CopyHeaders(h, from, who) ==
    /\ owner[h] = "nobody"
    /\ Memory({h}, {from}, {})
    /\ owner' = [owner EXCEPT ![h] = who]

\* BorrowedMessage::detach: the key and the payload are copied out of the event,
\* and so are the headers.
Detach(e, h) ==
    /\ "message" \in holders[e]
    /\ \A g \in Headers : owner[g] # "message"
    /\ CopyHeaders(h, e, "message")
    /\ UNCHANGED <<kind, at, confMap, errors, holders, userVars, closure, mockRef, partitioning>>

-----------------------------------------------------------------------------
(* Headers *)

NewHeaders(h) ==
    /\ owner[h] = "nobody"
    /\ Memory({h}, {}, {})
    /\ owner' = [owner EXCEPT ![h] = "user"]
    /\ UNCHANGED <<kind, at, confMap, errors, holders, userVars, closure, mockRef, partitioning>>

\* Clone for OwnedHeaders, and as_borrowed().detach().
CloneHeaders(g, h) ==
    /\ owner[g] \in {"user", "message"}
    /\ CopyHeaders(h, g, "user")
    /\ UNCHANGED <<kind, at, confMap, errors, holders, userVars, closure, mockRef, partitioning>>

\* OwnedMessage::detach_headers.
DetachHeaders(h) ==
    /\ owner[h] = "message"
    /\ owner' = [owner EXCEPT ![h] = "user"]
    /\ UNCHANGED <<kind, at, confMap, mem, lost, errors, holders, userVars, closure, mockRef, partitioning>>

\* OwnedMessage::replace_headers: what the message had is dropped.
ReplaceHeaders(h) ==
    LET old == {g \in Headers : owner[g] = "message"}
    IN  /\ owner[h] = "user"
        /\ Memory({}, {h}, old)
        /\ owner' = [g \in Headers |-> CASE g = h -> "message" [] g \in old -> "nobody"
                                         [] OTHER -> owner[g]]
        /\ UNCHANGED <<kind, at, confMap, errors, holders, userVars, closure, mockRef, partitioning>>

\* BaseRecord::headers: the record of a producer owns the headers from now on.
PutInRecord(h) ==
    /\ kind = "producer"
    /\ owner[h] = "user"
    /\ owner' = [owner EXCEPT ![h] = "record"]
    /\ UNCHANGED <<kind, at, confMap, mem, lost, errors, holders, userVars, closure, mockRef, partitioning>>

\* Mutant: the headers are forgotten also when the record is refused.
SendForgets(h) ==
    /\ InUse
    /\ kind = "producer"
    /\ owner[h] = "record"
    /\ Memory({}, {h, "client"}, {})
    /\ owner' = [owner EXCEPT ![h] = "native"] \/ owner' = [owner EXCEPT ![h] = "nobody"]
    /\ UNCHANGED <<kind, at, confMap, errors, holders, userVars, closure, mockRef, partitioning>>

\* BaseProducer::send of a record with headers: rd_kafka_producev takes them over,
\* and they are forgotten, or refuses, and the caller gets the record back.
Send(h) ==
    /\ InUse
    /\ kind = "producer"
    /\ owner[h] = "record"
    /\ Memory({}, {h, "client"}, {})
    /\ owner' = [owner EXCEPT ![h] = "native"] \/ UNCHANGED owner
    /\ UNCHANGED <<kind, at, confMap, errors, holders, userVars, closure, mockRef, partitioning>>

\* librdkafka is done with the message.
Produced(h) ==
    /\ owner[h] = "native"
    /\ "client" \in Live
    /\ Memory({}, {}, {h})
    /\ owner' = [owner EXCEPT ![h] = "nobody"]
    /\ UNCHANGED <<kind, at, confMap, errors, holders, userVars, closure, mockRef, partitioning>>

DropHeaders(h) ==
    /\ owner[h] \in {"user", "message", "record"}
    /\ Memory({}, {}, {h})
    /\ owner' = [owner EXCEPT ![h] = "nobody"]
    /\ UNCHANGED <<kind, at, confMap, errors, holders, userVars, closure, mockRef, partitioning>>

-----------------------------------------------------------------------------
(* Metadata, group lists, the cluster id, the mock cluster *)

\* Client::native_topic: librdkafka makes a topic it does not have yet, and keeps it.
NativeTopic == {"topic"} \ Live

\* fetch_metadata.  The handle of the topic is dropped before rd_kafka_metadata is
\* given the topic.
FetchMetadata ==
    /\ InUse
    /\ kind # "mock"
    /\ "snapshot" \notin Live
    /\ Memory(NativeTopic, {"client"}, {}) \/ Memory({"snapshot"} \cup NativeTopic, {"client"}, {})
    /\ UNCHANGED <<kind, at, confMap, errors, holders, owner, userVars, closure, mockRef, partitioning>>

\* fetch_group_list.
FetchGroupList ==
    /\ InUse
    /\ kind # "mock"
    /\ "snapshot" \notin Live
    /\ Memory({"snapshot"}, {"client"}, {})
    /\ UNCHANGED <<kind, at, confMap, errors, holders, owner, userVars, closure, mockRef, partitioning>>

\* group_metadata() of a consumer.
GroupMetadata ==
    /\ InUse
    /\ kind = "consumer"
    /\ "snapshot" \notin Live
    /\ Memory({"snapshot"}, {"client"}, {})
    /\ UNCHANGED <<kind, at, confMap, errors, holders, owner, userVars, closure, mockRef, partitioning>>

\* The accessors of a Metadata and its brokers, topics and partitions read what
\* librdkafka has allocated, whether or not the client is still there.
ReadSnapshot ==
    /\ "snapshot" \in Live
    /\ Memory({}, {"snapshot"}, {})
    /\ UNCHANGED <<kind, at, confMap, errors, holders, owner, userVars, closure, mockRef, partitioning>>

\* Drop of a Metadata, a GroupList or a ConsumerGroupMetadata, before or after the
\* client is gone.
DropSnapshot ==
    /\ "snapshot" \in Live
    /\ Memory({}, {}, {"snapshot"})
    /\ UNCHANGED <<kind, at, confMap, errors, holders, owner, userVars, closure, mockRef, partitioning>>

\* fetch_cluster_id copies the string it is given, and does not free it.
FetchClusterId ==
    /\ InUse
    /\ kind # "mock"
    /\ "cluster id" \notin Live
    /\ Memory({"cluster id"}, {"client"}, {})
    /\ UNCHANGED <<kind, at, confMap, errors, holders, owner, userVars, closure, mockRef, partitioning>>

\* Client::mock_cluster.
BorrowMock ==
    /\ InUse
    /\ mockRef = "none"
    /\ "mock" \in Live
    /\ Memory({}, {"client", "mock"}, {})
    /\ mockRef' = "borrowed"
    /\ UNCHANGED <<kind, at, confMap, errors, holders, owner, userVars, closure, partitioning>>

\* bootstrap_servers, create_topic, broker_down and the other calls pass the plain
\* pointer to the mock cluster.
MockOp ==
    /\ mockRef # "none"
    /\ at = "up"
    /\ Memory({}, {"mock"}, {})
    /\ UNCHANGED <<kind, at, confMap, errors, holders, owner, userVars, closure, mockRef, partitioning>>

\* Drop for MockCluster: the client destroys a mock cluster that is its own.
DropBorrowed ==
    /\ mockRef = "borrowed"
    /\ Memory({}, {"mock"}, {})
    /\ mockRef' = "none"
    /\ UNCHANGED <<kind, at, confMap, errors, holders, owner, userVars, closure, partitioning>>

-----------------------------------------------------------------------------
(* Callbacks of librdkafka's threads *)

\* set_nonempty_callback of the consumer, which nobody shares then, or of its
\* PartitionQueue: librdkafka gets the new closure, after a callback that is
\* running; the old one is dropped when the new one takes its place in the field.
EnableCallback(q, f) ==
    /\ at = "up"
    /\ kind = "consumer"
    /\ IF q = "queue" THEN arcs = {"user"} /\ Unborrowed ELSE split = "yes"
    /\ closure[q].running = None
    /\ closure[q].kept = closure[q].enabled
    /\ f \notin Live
    /\ Memory({f}, {q}, {})
    /\ closure' = [closure EXCEPT ![q].enabled = f]
    /\ UNCHANGED <<kind, at, confMap, errors, holders, owner, userVars, mockRef, partitioning>>

KeepCallback(q) ==
    /\ IF q = "queue" THEN at = "up" ELSE split = "yes"
    /\ closure[q].kept # closure[q].enabled
    /\ Memory({}, {}, {closure[q].kept} \ {None})
    /\ closure' = [closure EXCEPT ![q].kept = closure[q].enabled]
    /\ UNCHANGED <<kind, at, confMap, errors, holders, owner, userVars, mockRef, partitioning>>

\* A queue that turns non-empty calls the closure, with the queue locked.
CallbackRuns(q) ==
    /\ closure[q].enabled # None
    /\ closure[q].running = None
    /\ "client" \in Live
    /\ Memory({}, {closure[q].enabled}, {})
    /\ closure' = [closure EXCEPT ![q].running = closure[q].enabled]
    /\ UNCHANGED <<kind, at, confMap, errors, holders, owner, userVars, mockRef, partitioning>>

CallbackEnds(q) ==
    /\ closure[q].running # None
    /\ Memory({}, {closure[q].running}, {})
    /\ closure' = [closure EXCEPT ![q].running = None]
    /\ UNCHANGED <<kind, at, confMap, errors, holders, owner, userVars, mockRef, partitioning>>

\* partitioner_cb has a plain pointer to the context.
PartitionerRuns ==
    /\ kind = "producer"
    /\ at \in {"up", "dropping", "native"}
    /\ ~partitioning
    /\ Memory({}, {"context"}, {})
    /\ partitioning' = TRUE
    /\ UNCHANGED <<kind, at, confMap, errors, holders, owner, userVars, closure, mockRef>>

PartitionerEnds ==
    /\ partitioning
    /\ Memory({}, {"context"}, {})
    /\ partitioning' = FALSE
    /\ UNCHANGED <<kind, at, confMap, errors, holders, owner, userVars, closure, mockRef>>

-----------------------------------------------------------------------------
(* The drop of the client *)

\* drop() of the consumer, by its user or by its PartitionQueue, removes the
\* callback; those of the producer and the admin client serve the queue once more.
BeginDrop ==
    /\ at = "up"
    /\ arcs \subseteq {"user"}
    /\ Unborrowed
    /\ closure["queue"].kept = closure["queue"].enabled
    /\ kind = "consumer" => closure["queue"].running = None
    /\ Memory({}, {"client"} \cup (IF kind = "mock" THEN {} ELSE {"queue"}), {})
    /\ closure' = [closure EXCEPT !["queue"].enabled = None]
    /\ arcs' = {}
    /\ at' = "dropping"
    /\ UNCHANGED <<kind, confMap, errors, holders, owner, split, mockRef, partitioning>>

\* The end of drop(): the poll thread of an admin client has been joined, an owned
\* mock cluster is destroyed.
EndDrop ==
    /\ at = "dropping"
    /\ kind = "admin" => \A e \in Events : "poll" \notin holders[e]
    /\ IF kind = "mock" THEN Memory({}, {"client"}, {"mock"}) ELSE Memory({}, {"client"}, {})
    /\ mockRef' = "none"
    /\ at' = "native"
    /\ UNCHANGED <<kind, confMap, errors, holders, owner, userVars, closure, partitioning>>

\* The fields are dropped in the order of their declaration: the native client,
\* whose threads are over by then, the context, the queue, the closure.
DropNative ==
    /\ at = "native"
    /\ ~partitioning
    /\ Memory({}, {}, WithClient)
    /\ owner' = [h \in Headers |-> IF owner[h] = "native" THEN "nobody" ELSE owner[h]]
    /\ at' = "context"
    /\ UNCHANGED <<kind, confMap, errors, holders, userVars, closure, mockRef, partitioning>>

DropContext ==
    /\ at = "context"
    /\ Memory({}, {}, {"context"})
    /\ at' = IF kind = "mock" THEN "gone" ELSE "queue"
    /\ UNCHANGED <<kind, confMap, errors, holders, owner, userVars, closure, mockRef, partitioning>>

DropQueue ==
    /\ at = "queue"
    /\ Memory({}, {}, {"queue"} \cup ({closure["queue"].kept} \ {None}))
    /\ closure' = [closure EXCEPT !["queue"].kept = None]
    /\ at' = "gone"
    /\ UNCHANGED <<kind, confMap, errors, holders, owner, userVars, mockRef, partitioning>>

-----------------------------------------------------------------------------
(* The queue of a partition, which keeps the consumer *)

\* BaseConsumer::split_partition_queue, for one partition and once.
SplitPartitionQueue ==
    /\ InUse
    /\ kind = "consumer"
    /\ split = "no"
    /\ closure["queue"].kept = closure["queue"].enabled
    /\ Memory({"partition queue"}, {"client"}, {})
    /\ split' = "yes"
    /\ arcs' = arcs \cup {"partition queue"}
    /\ UNCHANGED <<kind, at, confMap, errors, holders, owner, closure, mockRef, partitioning>>

\* The user drops an Arc that is not the last one.
DropArc ==
    /\ arcs = {"user", "partition queue"}
    /\ mockRef # "borrowed"
    /\ arcs' = {"partition queue"}
    /\ Memory({}, {}, {})
    /\ UNCHANGED <<kind, at, confMap, errors, holders, owner, split, closure, mockRef, partitioning>>

\* Drop for PartitionQueue removes the callback, and then drops the Arc.
DropPartitionArc ==
    /\ split = "yes"
    /\ "user" \in arcs \/ Unborrowed
    /\ closure["partition queue"].running = None
    /\ closure["partition queue"].kept = closure["partition queue"].enabled
    /\ Memory({}, {"partition queue"}, {})
    /\ closure' = [closure EXCEPT !["partition queue"].enabled = None]
    /\ split' = IF "user" \in arcs THEN "dropped" ELSE "dropped last"
    /\ arcs' = arcs \ {"partition queue"}
    /\ UNCHANGED <<kind, at, confMap, errors, holders, owner, mockRef, partitioning>>

\* The fields after the Arc: if it was the last one, the consumer is gone by then.
DropPartitionQueue ==
    LET kept == {closure["partition queue"].kept} \ {None}
    IN  /\ split = "dropped" \/ (split = "dropped last" /\ at = "gone")
        /\ Memory({}, {}, {"partition queue"} \cup kept)
        /\ closure' = [closure EXCEPT !["partition queue"].kept = None]
        /\ split' = "gone"
        /\ UNCHANGED <<kind, at, confMap, errors, holders, owner, arcs, mockRef, partitioning>>

-----------------------------------------------------------------------------
Init ==
    /\ kind \in Kinds
    /\ at = "config"
    /\ confMap = [k \in Keys |-> "unset"]
    /\ mem = [o \in Objects |-> "free"]
    /\ lost = {}
    /\ errors = {}
    /\ holders = [e \in Events |-> {}]
    /\ owner = [h \in Headers |-> "nobody"]
    /\ arcs = {"user"}
    /\ split = "no"
    /\ closure = [q \in Queues |-> [kept |-> None, enabled |-> None, running |-> None]]
    /\ mockRef = "none"
    /\ partitioning = FALSE

Creation ==
    \/ \E k \in Keys, v \in Values : Set(k, v)
    \/ CreateNativeConfig \/ NewClient \/ FinishClient

EventSteps ==
    \E e \in Events :
        \/ \E q \in Queues : PollQueue(e, q)
        \/ Fetched(e) \/ Reported(e) \/ Answered(e) \/ DropHolder(e)

HeaderSteps ==
    \E h \in Headers :
        \/ \E e \in Events : Detach(e, h)
        \/ \E g \in Headers : CloneHeaders(g, h)
        \/ NewHeaders(h) \/ DetachHeaders(h) \/ ReplaceHeaders(h)
        \/ PutInRecord(h) \/ Send(h) \/ Produced(h) \/ DropHeaders(h)

Queries ==
    \/ FetchMetadata \/ FetchGroupList \/ GroupMetadata
    \/ ReadSnapshot \/ DropSnapshot
    \/ FetchClusterId \/ BorrowMock \/ MockOp \/ DropBorrowed

Callbacks ==
    \/ \E q \in Queues :
          \/ \E f \in Closures : EnableCallback(q, f)
          \/ KeepCallback(q) \/ CallbackRuns(q) \/ CallbackEnds(q)
    \/ PartitionerRuns \/ PartitionerEnds

Drop == BeginDrop \/ EndDrop \/ DropNative \/ DropContext \/ DropQueue

Partition == SplitPartitionQueue \/ DropArc \/ DropPartitionArc \/ DropPartitionQueue

Next == Creation \/ EventSteps \/ HeaderSteps \/ Queries \/ Callbacks \/ Drop \/ Partition

Spec == Init /\ [][Next]_vars

-----------------------------------------------------------------------------
(* Properties *)

\* No object of librdkafka, no context and no closure is used or freed after it was
\* freed, by whatever thread and in whatever order the values are dropped.
NeverDangling == \A o \in Objects : mem[o] # "corrupt"

\* What the code is known to leave behind: the handle of the main queue given to
\* rd_kafka_set_log_queue, the string of the cluster id, and what a failed creation
\* has made.
KnownLeaks ==
    {"log queue", "cluster id"}
        \cup (IF errors # {} THEN {"conf"} ELSE {})
        \cup (IF "log" \in errors THEN {"client", "mock"} ELSE {})

\* Nothing else leaks: no pointer is overwritten while its object is there, and when
\* the client and what the user had of it are gone, so is everything else.
OnlyKnownLeaks ==
    /\ lost \subseteq KnownLeaks
    /\ ( /\ at = "gone"
         /\ split \in {"no", "gone"}
         /\ \A e \in Events : holders[e] = {}
         /\ \A h \in Headers : owner[h] = "nobody" ) =>
           Live \subseteq KnownLeaks \cup {"snapshot"}

=============================================================================
