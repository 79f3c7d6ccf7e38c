--------------------------- MODULE StreamConsumer ---------------------------
(***************************************************************************)
(* rdkafka::consumer::StreamConsumer, MessageStream and                    *)
(* StreamPartitionQueue (src/consumer/stream_consumer.rs).                 *)
(*                                                                         *)
(* Asynchronous tasks take messages from one native queue: the consumer    *)
(* queue of a StreamConsumer, or the queue of one partition, of which a    *)
(* StreamPartitionQueue is a handle.  A task that finds the queue empty    *)
(* leaves its Waker in the WakerSlab of the owner of its stream and parks; *)
(* librdkafka calls back when the queue turns non-empty, and the callback  *)
(* wakes every Waker of the slab it was installed with.  A StreamConsumer  *)
(* also has a task that wakes them all every now and then.                 *)
(*                                                                         *)
(* A stream is identified with the slot it has in the slab.  librdkafka    *)
(* calls back with the lock of the queue held, so nothing else happens to  *)
(* the queue, or to its callback, until the call is over.                  *)
(***************************************************************************)
EXTENDS Naturals, Sequences

CONSTANTS
    Streams,      \* the MessageStreams; recv() is one of its own
    Owners,       \* a StreamConsumer, StreamPartitionQueues of a partition
    Setups,       \* those there may be of one native queue: sets of owners
    WakeLoops,    \* the owners with a wake loop: a StreamConsumer has one
    Nobody,       \* no owner
    Events,       \* what librdkafka puts in the queue, in any order
    Served,       \* those that poll_queue serves by itself (EventConsumed)
    Ignored,      \* those that poll_queue passes over
    Resplit       \* whether a partition is split again while it is split

ASSUME StreamAssumption ==
    /\ Nobody \notin Owners
    /\ Setups \subseteq SUBSET Owners
    /\ WakeLoops \subseteq Owners
    /\ Served \subseteq Events
    /\ Ignored \subseteq Events
    /\ Served \cap Ignored = {}
    /\ Resplit \in BOOLEAN

VARIABLES
    queue,        \* the native queue
    fresh,        \* events not enqueued yet
    raising,      \* librdkafka is inside the non-empty callback
    callback,     \* the owner whose slab the callback was installed with
    life,         \* life[o]: the life of an owner and of its slab
    owner,        \* owner[s]: whose stream s is
    st,           \* st[s]: where the task of s is in poll_next
    waker,        \* waker[s]: what the slot of s in the slab holds
    woken         \* the streams whose task has been woken

queueVars == <<queue, fresh, raising>>
ownerVars == <<callback, life>>
streamVars == <<owner, st, waker, woken>>
scVars == <<queueVars, ownerVars, streamVars>>

StreamTypeOK ==
    /\ queue \in Seq(Events)
    /\ fresh \subseteq Events
    /\ raising \in BOOLEAN
    /\ callback \in Owners \cup {Nobody}
    /\ life \in [Owners -> {"unborn", "open", "closing", "closed"}]
    /\ owner \in [Streams -> Owners \cup {Nobody}]
    /\ st \in [Streams -> {"off",      \* no stream
                           "held",     \* not being polled
                           "run",      \* poll_next: about to poll the queue
                           "arm",      \* poll_next: about to set_waker
                           "again",    \* poll_next: about to poll once more
                           "parked"}]  \* poll_next has returned Pending
    /\ waker \in [Streams -> {"none",    \* an empty slot
                              "own",     \* the Waker of the task of the stream
                              "stale"}]  \* that of a task it has left
    /\ woken \subseteq Streams

Goto(s, point) == st' = [st EXCEPT ![s] = point]

\* The slots of the slab of o.
Slab(o) == {s \in Streams : owner[s] = o}

-----------------------------------------------------------------------------
(* WakerSlab::wake_all, and who calls it *)

\* Mutant: only one of the parked tasks is woken.
WakeOne(o) ==
    IF \E s \in Slab(o) : waker[s] = "own"
    THEN LET s == CHOOSE s \in Slab(o) : waker[s] = "own"
         IN  /\ waker' = [waker EXCEPT ![s] = "none"]
             /\ woken' = woken \cup {s}
    ELSE UNCHANGED <<waker, woken>>

\* Every Waker is taken out of its slot and used.
WakeAll(o) ==
    /\ waker' = [s \in Streams |-> IF owner[s] = o THEN "none" ELSE waker[s]]
    /\ woken' = woken \cup {s \in Slab(o) : waker[s] = "own"}

\* librdkafka appends an event; it calls back if the queue was empty and a
\* callback is installed.
Enqueue(e) ==
    /\ ~raising
    /\ e \in fresh
    /\ fresh' = fresh \ {e}
    /\ queue' = Append(queue, e)
    /\ raising' = (queue = <<>> /\ callback # Nobody)
    /\ UNCHANGED <<ownerVars, streamVars>>

\* native_message_queue_nonempty_cb
NonEmptyCallback ==
    /\ raising
    /\ raising' = FALSE
    /\ WakeAll(callback)
    /\ UNCHANGED <<queue, fresh, ownerVars, owner, st>>

\* Mutant: the loop spares the tasks when there is nothing to poll.
WakeLoopWhenBusy(o) ==
    /\ o \in WakeLoops
    /\ life[o] \in {"open", "closing"}
    /\ queue # <<>>
    /\ WakeAll(o)
    /\ UNCHANGED <<queueVars, ownerVars, owner, st>>

\* The background task of a StreamConsumer: half the poll interval has gone by.
WakeLoop(o) ==
    /\ o \in WakeLoops
    /\ life[o] \in {"open", "closing"}
    /\ WakeAll(o)
    /\ UNCHANGED <<queueVars, ownerVars, owner, st>>

-----------------------------------------------------------------------------
(* MessageStream *)

\* StreamConsumer::stream: a slot is registered, empty.
NewStream(s, o) ==
    /\ st[s] = "off"
    /\ life[o] = "open"
    /\ owner' = [owner EXCEPT ![s] = o]
    /\ Goto(s, "held")
    /\ UNCHANGED <<queueVars, ownerVars, waker, woken>>

\* A task begins to wait for the next message, perhaps not the task that waited
\* before: the Waker left in the slot is then of no use to it.
Await(s) ==
    /\ st[s] = "held"
    /\ Goto(s, "run")
    /\ woken' = woken \ {s}
    /\ \E w \in {waker[s], "stale"} :
          /\ waker[s] = "none" => w = "none"
          /\ waker' = [waker EXCEPT ![s] = w]
    /\ UNCHANGED <<queueVars, ownerVars, owner>>

\* The executor polls a task that was woken.
Resume(s) ==
    /\ st[s] = "parked"
    /\ s \in woken
    /\ Goto(s, "run")
    /\ woken' = woken \ {s}
    /\ UNCHANGED <<queueVars, ownerVars, owner, waker>>

\* self.poll(): poll_queue with a zero timeout.  On a message poll_next returns
\* it; after an event poll_queue has served it wakes its own task and returns
\* Pending; after an event it ignores poll_queue goes on; on an empty queue
\* poll_next goes to the point given.
Poll(s, empty) ==
    /\ ~raising
    /\ \/ /\ queue = <<>>
          /\ Goto(s, empty)
          /\ UNCHANGED <<queue, woken>>
       \/ /\ queue # <<>>
          /\ queue' = Tail(queue)
          /\ \/ /\ Head(queue) \in Ignored
                /\ UNCHANGED <<st, woken>>
             \/ /\ Head(queue) \notin Served \cup Ignored
                /\ Goto(s, "held")
                /\ UNCHANGED woken
             \/ /\ Head(queue) \in Served
                /\ Goto(s, "parked")
                /\ woken' = woken \cup {s}
    /\ UNCHANGED <<fresh, raising, ownerVars, owner, waker>>

\* Mutant: the task parks as soon as its Waker is stored.
PollParks(s) ==
    /\ st[s] = "run"
    /\ Poll(s, "parked")

PollFirst(s) ==
    /\ st[s] = "run"
    /\ Poll(s, "arm")

SetWaker(s) ==
    /\ st[s] = "arm"
    /\ waker' = [waker EXCEPT ![s] = "own"]
    /\ Goto(s, "again")
    /\ UNCHANGED <<queueVars, ownerVars, owner, woken>>

PollAgain(s) ==
    /\ st[s] = "again"
    /\ Poll(s, "parked")

\* The task stops waiting (select!, a timeout) and keeps the stream.
Abandon(s) ==
    /\ st[s] = "parked"
    /\ Goto(s, "held")
    /\ UNCHANGED <<queueVars, ownerVars, owner, waker, woken>>

\* Drop for MessageStream; for recv() this is how it is cancelled.
DropStream(s) ==
    /\ st[s] \in {"held", "parked"}
    /\ Goto(s, "off")
    /\ owner' = [owner EXCEPT ![s] = Nobody]
    /\ waker' = [waker EXCEPT ![s] = "none"]
    /\ woken' = woken \ {s}
    /\ UNCHANGED <<queueVars, ownerVars>>

-----------------------------------------------------------------------------
(* The owners *)

\* The consumer is created, or a partition is split: the callback of the queue
\* is set to the new slab, whatever it was.
Open(o) ==
    /\ ~raising
    /\ life[o] = "unborn"
    /\ Resplit \/ \A p \in Owners : life[p] \in {"unborn", "closed"}
    /\ life' = [life EXCEPT ![o] = "open"]
    /\ callback' = o
    /\ UNCHANGED <<queueVars, streamVars>>

\* Mutant: no Drop for StreamPartitionQueue, and the slab goes before the queue.
BeginCloseFrees(o) ==
    /\ life[o] = "open"
    /\ Slab(o) = {}
    /\ life' = [life EXCEPT ![o] = "closed"]
    /\ UNCHANGED <<queueVars, callback, streamVars>>

\* drop(), when no stream borrows the owner: the callback of the queue is
\* removed, whosever it is.
BeginClose(o) ==
    /\ ~raising
    /\ life[o] = "open"
    /\ Slab(o) = {}
    /\ life' = [life EXCEPT ![o] = "closing"]
    /\ callback' = Nobody
    /\ UNCHANGED <<queueVars, streamVars>>

\* The fields are dropped: a PartitionQueue removes the callback once more, and
\* the slab is freed.
FinishClose(o) ==
    /\ ~raising
    /\ life[o] = "closing"
    /\ life' = [life EXCEPT ![o] = "closed"]
    /\ callback' = Nobody
    /\ UNCHANGED <<queueVars, streamVars>>

-----------------------------------------------------------------------------
StreamInit ==
    /\ queue = <<>>
    /\ fresh = Events
    /\ raising = FALSE
    /\ callback = Nobody
    /\ \E setup \in Setups :
          life = [o \in Owners |-> IF o \in setup THEN "unborn" ELSE "closed"]
    /\ owner = [s \in Streams |-> Nobody]
    /\ st = [s \in Streams |-> "off"]
    /\ waker = [s \in Streams |-> "none"]
    /\ woken = {}

PollNext(s) == Resume(s) \/ PollFirst(s) \/ SetWaker(s) \/ PollAgain(s)

StreamNext ==
    \/ \E e \in Events : Enqueue(e)
    \/ NonEmptyCallback
    \/ \E o \in Owners : WakeLoop(o) \/ Open(o) \/ BeginClose(o) \/ FinishClose(o)
    \/ \E s \in Streams, o \in Owners : NewStream(s, o)
    \/ \E s \in Streams : Await(s) \/ PollNext(s) \/ Abandon(s) \/ DropStream(s)

StreamSpec == StreamInit /\ [][StreamNext]_scVars

\* The executor polls the tasks that were woken, callbacks return, timers fire.
StreamFairness ==
    /\ WF_scVars(NonEmptyCallback)
    /\ \A s \in Streams : WF_scVars(PollNext(s))
    /\ \A o \in Owners : WF_scVars(WakeLoop(o))

StreamFairSpec == StreamSpec /\ StreamFairness

-----------------------------------------------------------------------------
(* Properties *)

\* No wake-up is lost: a task is not left parked while the queue of its stream
\* holds events, unless librdkafka is about to call back.
NoLostWakeup ==
    \A s \in Streams : st[s] = "parked" /\ s \notin woken => queue = <<>> \/ raising

\* The callback is never called with a slab that has been freed.
SlabAlive == callback # Nobody => life[callback] \in {"open", "closing"}

\* The inductive invariant behind the theorems of AsyncProofs: the
\* callback is installed with the slab of an open owner, of the only one unless
\* a partition is split twice; a task between set_waker and its next wake-up
\* has its Waker in the slab.
WakeInv ==
    /\ StreamTypeOK
    /\ callback # Nobody => life[callback] = "open"
    /\ raising => callback # Nobody
    /\ \A s \in Streams : st[s] = "off" <=> owner[s] = Nobody
    /\ \A s \in Streams : owner[s] # Nobody => life[owner[s]] = "open"
    /\ \A s \in Streams :
          st[s] \in {"again", "parked"} /\ s \notin woken => waker[s] = "own"
    /\ ~Resplit => /\ \A o, p \in Owners :
                         life[o] # "unborn" /\ life[p] # "unborn" /\ o # p
                            => life[o] = "closed" \/ life[p] = "closed"
                   /\ \A o \in Owners : life[o] = "open" => callback = o
                   /\ NoLostWakeup

\* A task that waits while there are events in the queue takes one, or others
\* leave none to it, or it gives up waiting.
EventsTaken ==
    \A s \in Streams, e \in Events :
        st[s] \in {"run", "arm", "again", "parked"} /\ queue # <<>> /\ Head(queue) = e
           ~> \/ st[s] \in {"held", "off"}
              \/ queue = <<>>
              \/ Head(queue) # e

\* A task that waits polls the consumer again and again even if no message
\* comes, as max.poll.interval.ms requires.
PollsAgain ==
    \A s \in Streams : st[s] = "parked" /\ owner[s] \in WakeLoops ~> st[s] # "parked"

=============================================================================
