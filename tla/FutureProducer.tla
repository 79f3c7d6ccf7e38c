--------------------------- MODULE FutureProducer ---------------------------
(***************************************************************************)
(* rdkafka::producer::FutureProducer (src/producer/future_producer.rs): a  *)
(* ThreadedProducer behind an Arc, whose delivery opaque is the Sender of  *)
(* a oneshot channel.  `send` is a future that enqueues the record,        *)
(* retrying while the queue is full, and then awaits the Receiver;         *)
(* `send_result` enqueues once and returns the Receiver.                   *)
(*                                                                         *)
(* There is one ThreadedProducer handle; the clones of a FutureProducer,   *)
(* one per task, share it.  Tasks make one blocking call (poll, flush,     *)
(* purge) at a time: concurrent ones are the subject of BaseProducer and   *)
(* ThreadedProducer.                                                       *)
(***************************************************************************)
EXTENDS ThreadedProducer

CONSTANTS
    Handle,      \* the user whose handle is the ThreadedProducer in the Arc
    Tasks        \* the tasks that may hold a clone

ASSUME HandleAssumption == Handle \in Users

VARIABLES
    clones,      \* tasks holding a clone of the FutureProducer
    fut,         \* fut[m]: the future of the record m
    borrows      \* <<k, m>>: an unfinished `send` of m borrows k's clone

futureVars == <<clones, fut, borrows>>
fpVars == <<tpVars, futureVars>>

Futures ==
    {"none",
     "retry",      \* send: the queue was full, in delay_for(100 ms)
     "await",      \* send: enqueued, in rx.await
     "delivery",   \* a DeliveryFuture returned by send_result
     "resolved",   \* completed with the outcome the callback sent
     "failed",     \* send: completed with the error of the enqueue
     "dropped"}    \* dropped by its task before it completed

FPTypeOK ==
    /\ TPTypeOK
    /\ clones \subseteq Tasks
    /\ fut \in [Msgs -> Futures]
    /\ borrows \subseteq Tasks \X Msgs

Full == Cardinality(Outstanding) >= QueueCap

SetFuture(m, state) == fut' = [fut EXCEPT ![m] = state]

\* The `send` of m is over and gives back the clone it borrowed.
EndBorrow(m) == borrows' = {b \in borrows : b[2] # m}

-----------------------------------------------------------------------------
(* The records and their channels *)

\* into_base_record: the record goes to ThreadedProducer::send with the Sender of a
\* new channel for its opaque.
Taken(m) == SendAccepted(m)

\* from_base_record: a record that was refused is as it was, its Sender is dropped.
GivenBack(m) == SendReturned(m)

\* FutureProducerContext::delivery has sent the outcome through the channel.
Sent(m) == opaque[m] = "reported"

-----------------------------------------------------------------------------
(* FutureProducer::send *)

\* Mutant: a record that was refused once is not sent again.
SendEnqueuesOnce(k, m) ==
    /\ fut[m] = "none"
    /\ Taken(m)
    /\ SetFuture(m, "await")
    /\ borrows' = borrows \cup {<<k, m>>}

\* The future is polled: ThreadedProducer::send is called, for the first time
\* or after a delay, and takes the record.
SendEnqueues(k, m) ==
    /\ Taken(m)
    /\ SetFuture(m, "await")
    /\ borrows' = borrows \cup {<<k, m>>}

SendWaits(k, m) ==
    /\ Full
    /\ GivenBack(m)
    /\ SetFuture(m, "retry")
    /\ borrows' = borrows \cup {<<k, m>>}

\* The queue is still full at the timeout, or enqueuing failed otherwise.
SendFails(m) ==
    /\ GivenBack(m)
    /\ SetFuture(m, "failed")
    /\ EndBorrow(m)

FutureSend(k, m) ==
    /\ \/ k \in clones /\ fut[m] = "none"
       \/ <<k, m>> \in borrows /\ fut[m] = "retry"
    /\ SendEnqueues(k, m) \/ SendWaits(k, m) \/ SendFails(m)
    /\ UNCHANGED <<handleVars, clones>>

\* rx.await, or the poll of a DeliveryFuture, finds what delivery() has sent.
Resolve(m) ==
    /\ fut[m] \in {"await", "delivery"}
    /\ Sent(m)
    /\ SetFuture(m, "resolved")
    /\ EndBorrow(m)
    /\ UNCHANGED <<tpVars, clones>>

\* FutureProducer::send_result; a refused record goes back to the caller.
SendResult(k, m) ==
    /\ k \in clones
    /\ fut[m] = "none"
    /\ \/ Taken(m) /\ SetFuture(m, "delivery")
       \/ GivenBack(m) /\ UNCHANGED fut
    /\ UNCHANGED <<handleVars, clones, borrows>>

\* A task drops a future before it completes.
DropFuture(m) ==
    /\ fut[m] \in {"retry", "await", "delivery"}
    /\ SetFuture(m, "dropped")
    /\ EndBorrow(m)
    /\ UNCHANGED <<tpVars, clones>>

-----------------------------------------------------------------------------
(* The other operations *)

\* poll, flush and purge delegate to the ThreadedProducer.
FutureDelegate(k) ==
    /\ k \in clones
    /\ \/ \E forever \in BOOLEAN :
             CallPoll(Handle, forever) \/ CallFlush(Handle, forever)
       \/ \E flags \in SUBSET {"queue", "inflight"} : Purge(Handle, flags)
    /\ UNCHANGED <<handleVars, futureVars>>

CloneFuture(k, l) ==
    /\ k \in clones
    /\ clones' = clones \cup {l}
    /\ UNCHANGED <<tpVars, fut, borrows>>

\* Mutant: the ThreadedProducer goes with the first clone.
DropCloneTakesAll(k) ==
    /\ k \in clones
    /\ \A m \in Msgs : <<k, m>> \notin borrows
    /\ clones' = clones \ {k}
    /\ DropHandle(Handle)
    /\ UNCHANGED <<fut, borrows>>

\* A clone that no unfinished `send` borrows is dropped; the last one drops the
\* ThreadedProducer.
DropClone(k) ==
    /\ k \in clones
    /\ at[Handle] = "idle"
    /\ \A m \in Msgs : <<k, m>> \notin borrows
    /\ clones' = clones \ {k}
    /\ IF clones = {k} THEN DropHandle(Handle) ELSE UNCHANGED tpVars
    /\ UNCHANGED <<fut, borrows>>

-----------------------------------------------------------------------------
FPInit ==
    /\ TPInit
    /\ own[Handle] = "live"
    /\ \E k \in Tasks : clones = {k}
    /\ fut = [m \in Msgs |-> "none"]
    /\ borrows = {}

\* What the ThreadedProducer does by itself.
Underneath ==
    \/ \E t \in Threads : (Step(t) /\ UNCHANGED handleVars) \/ Teardown(t)
    \/ PollerAgain \/ PollerBreaks
    \/ Background /\ UNCHANGED handleVars

FPNext ==
    \/ \E k \in Tasks, m \in Msgs : FutureSend(k, m) \/ SendResult(k, m)
    \/ \E m \in Msgs : Resolve(m) \/ DropFuture(m)
    \/ \E k \in Tasks : FutureDelegate(k) \/ DropClone(k)
    \/ \E k, l \in Tasks : CloneFuture(k, l)
    \/ Underneath /\ UNCHANGED futureVars

FPSpec == FPInit /\ [][FPNext]_fpVars

\* As for ThreadedProducer, and: a task polls the future it awaits when woken,
\* and retries after a delay, so not only at times when the queue is full.  The
\* queue timeout may never run out (Timeout::Never): SendFails gets no fairness.
FPFairness ==
    /\ \A t \in Threads :
          /\ WF_fpVars(Step(t) /\ UNCHANGED <<handleVars, futureVars>>)
          /\ SF_fpVars(PollReturns(t) /\ UNCHANGED <<handleVars, futureVars>>)
          /\ WF_fpVars(Teardown(t) /\ UNCHANGED futureVars)
    /\ WF_fpVars((PollerAgain \/ PollerBreaks) /\ UNCHANGED futureVars)
    /\ \A m \in Msgs :
          /\ WF_fpVars(\E ms \in SUBSET Msgs :
                m \in ms /\ Report(ms) /\ UNCHANGED <<handleVars, futureVars>>)
          /\ WF_fpVars(Resolve(m))
          /\ WF_fpVars(/\ fut[m] = "retry"
                       /\ \E k \in Tasks : <<k, m>> \in borrows /\ SendEnqueues(k, m)
                       /\ UNCHANGED <<handleVars, clones>>)

FPFairSpec == FPSpec /\ FPFairness

-----------------------------------------------------------------------------
(* Properties *)

\* While a `send` is unfinished the producer it borrows is there, and the future
\* of an enqueued record is matched by a Sender that has been used or can still be:
\* the expect on rx.await ("producer unexpectedly dropped") cannot fail.
SendKeepsProducer ==
    \A m \in Msgs :
        /\ fut[m] \in {"retry", "await"} =>
              native = "up" /\ own[Handle] = "live" /\ own[Poller] = "live"
        /\ fut[m] \in {"await", "delivery", "resolved"} =>
              opaque[m] \in {"raw", "callback", "reported"}

\* A `send` completes, unless its task drops it: one that found the queue full gets
\* out of its retry loop, as the poll thread empties the queue without help from the
\* tasks, and what was enqueued is reported.
SendCompletes ==
    \A m \in Msgs : fut[m] \in {"retry", "await"} ~> fut[m] \notin {"retry", "await"}

=============================================================================
