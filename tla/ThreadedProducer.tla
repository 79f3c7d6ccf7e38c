-------------------------- MODULE ThreadedProducer --------------------------
(***************************************************************************)
(* rdkafka::producer::ThreadedProducer (src/producer/base_producer.rs): a  *)
(* BaseProducer behind an Arc, with a thread that polls it.                *)
(*                                                                         *)
(* Every handle holds a reference to the BaseProducer and one to the       *)
(* JoinHandle of the poll thread; the poll thread holds a reference to the *)
(* BaseProducer too.  The handle whose drop releases the last reference to *)
(* the JoinHandle (Arc::into_inner) stops the poll thread and joins it;    *)
(* the thread that releases the last reference to the BaseProducer runs    *)
(* BaseProducer's own drop.  The two need not be the same thread.          *)
(*                                                                         *)
(* A user thread is identified with the one handle it may own.             *)
(***************************************************************************)
EXTENDS BaseProducer

CONSTANT Poller      \* the poll thread

ASSUME PollerAssumption == Poller \in Threads

Users == Threads \ {Poller}

VARIABLES
    own,          \* own[t]: the life of t's handle, or of the poll thread
    refs,         \* threads holding a reference of the Arc<BaseProducer>
    joinRefs,     \* users holding a reference of the Arc<JoinHandle>
    should_stop   \* the AtomicBool the poll thread tests

handleVars == <<own, refs, joinRefs, should_stop>>
tpVars == <<vars, handleVars>>

Lives ==
    {"unborn",    \* the thread has no handle yet
     "live",      \* it has one (the poll thread: it is in its loop)
     "stop",      \* drop: it took the JoinHandle and will set should_stop
     "join",      \* drop: it waits for the poll thread to end
     "release",   \* its reference to the BaseProducer is about to go
     "gone"}

TPTypeOK ==
    /\ TypeOK
    /\ own \in [Threads -> Lives]
    /\ refs \subseteq Threads
    /\ joinRefs \subseteq Users
    /\ should_stop \in BOOLEAN

Become(t, life) == own' = [own EXCEPT ![t] = life]

-----------------------------------------------------------------------------
(* The handles *)

\* send, poll, flush and purge delegate to the BaseProducer.
Delegate(u) ==
    /\ own[u] = "live"
    /\ Call(u)
    /\ UNCHANGED handleVars

Clone(u, v) ==
    /\ own[u] = "live"
    /\ own[v] = "unborn"
    /\ Become(v, "live")
    /\ refs' = refs \cup {v}
    /\ joinRefs' = joinRefs \cup {v}
    /\ UNCHANGED <<vars, should_stop>>

\* Mutant: Arc::try_unwrap, then the drop of the Arc it gave back.  The test may
\* have been made while another handle, dropped since, still had its reference.
DropHandleUnwraps(u) ==
    /\ own[u] = "live"
    /\ at[u] = "idle"
    /\ joinRefs' = joinRefs \ {u}
    /\ \E life \in {"stop", "release"} :
          /\ life = "stop" => joinRefs = {u}
          /\ Become(u, life)
    /\ UNCHANGED <<vars, refs, should_stop>>

\* drop(): handle.take().and_then(Arc::into_inner), one atomic decrement that
\* yields the JoinHandle to the last holder only.
DropHandle(u) ==
    /\ own[u] = "live"
    /\ at[u] = "idle"
    /\ joinRefs' = joinRefs \ {u}
    /\ Become(u, IF joinRefs = {u} THEN "stop" ELSE "release")
    /\ UNCHANGED <<vars, refs, should_stop>>

\* Mutant: the poll thread is told to stop but not waited for.
StopPollerOnly(u) ==
    /\ own[u] = "stop"
    /\ should_stop' = TRUE
    /\ Become(u, "release")
    /\ UNCHANGED <<vars, refs, joinRefs>>

StopPoller(u) ==
    /\ own[u] = "stop"
    /\ should_stop' = TRUE
    /\ Become(u, "join")
    /\ UNCHANGED <<vars, refs, joinRefs>>

\* JoinHandle::join returns once the poll thread has ended and everything its
\* closure captured is dropped.
Join(u) ==
    /\ own[u] = "join"
    /\ own[Poller] = "gone"
    /\ at[Poller] = "idle"
    /\ Become(u, "release")
    /\ UNCHANGED <<vars, refs, joinRefs, should_stop>>

\* The Arc<BaseProducer> of a handle, or of the poll thread, is dropped; the
\* last one takes the BaseProducer with it.
Release(t) ==
    /\ own[t] = "release"
    /\ refs' = refs \ {t}
    /\ Become(t, "gone")
    /\ IF refs = {t} THEN BeginDrop(t) ELSE UNCHANGED vars
    /\ UNCHANGED <<joinRefs, should_stop>>

-----------------------------------------------------------------------------
(* The poll thread: loop { poll(100 ms); if should_stop { break } } *)

PollerAgain ==
    /\ own[Poller] = "live"
    /\ at[Poller] = "idle"
    /\ ~should_stop
    /\ CallPoll(Poller, FALSE)
    /\ UNCHANGED handleVars

\* Mutant: the thread ends after a poll that found nothing.
PollerBreaksIdle ==
    /\ own[Poller] = "live"
    /\ at[Poller] = "idle"
    /\ should_stop \/ events = <<>>
    /\ Become(Poller, "release")
    /\ UNCHANGED <<vars, refs, joinRefs, should_stop>>

PollerBreaks ==
    /\ own[Poller] = "live"
    /\ at[Poller] = "idle"
    /\ should_stop
    /\ Become(Poller, "release")
    /\ UNCHANGED <<vars, refs, joinRefs, should_stop>>

-----------------------------------------------------------------------------
TPInit ==
    /\ opaque = [m \in Msgs |-> "record"]
    /\ queued = {}
    /\ inflight = {}
    /\ events = <<>>
    /\ native = "up"
    /\ at = [t \in Threads |-> IF t = Poller THEN "event" ELSE "idle"]
    /\ op = [t \in Threads |-> IF t = Poller THEN "poll" ELSE "none"]
    /\ never = [t \in Threads |-> FALSE]
    /\ held = [t \in Threads |-> {}]
    /\ todo = [t \in Threads |-> {}]
    /\ \E first \in Users :
          /\ own = [t \in Threads |-> IF t \in {first, Poller} THEN "live"
                                                              ELSE "unborn"]
          /\ refs = {first, Poller}
          /\ joinRefs = {first}
    /\ should_stop = FALSE

\* A step of the drop of a handle, or of the end of the poll thread.
Teardown(t) ==
    \/ t \in Users /\ (StopPoller(t) \/ Join(t))
    \/ Release(t)

TPNext ==
    \/ \E u \in Users : Delegate(u) \/ DropHandle(u)
    \/ \E u, v \in Users : Clone(u, v)
    \/ \E t \in Threads : (Step(t) /\ UNCHANGED handleVars) \/ Teardown(t)
    \/ PollerAgain \/ PollerBreaks
    \/ Background /\ UNCHANGED handleVars

TPSpec == TPInit /\ [][TPNext]_tpVars

\* As for BaseProducer, and: the poll thread runs, and a handle whose drop has
\* begun gets through it.  No user is obliged to call or to drop anything.
TPFairness ==
    /\ \A t \in Threads :
          /\ WF_tpVars(Step(t) /\ UNCHANGED handleVars)
          /\ SF_tpVars(PollReturns(t) /\ UNCHANGED handleVars)
          /\ WF_tpVars(Teardown(t))
    /\ WF_tpVars(PollerAgain \/ PollerBreaks)
    /\ \A m \in Msgs :
          WF_tpVars(\E ms \in SUBSET Msgs :
                       m \in ms /\ Report(ms) /\ UNCHANGED handleVars)

TPFairSpec == TPSpec /\ TPFairness

-----------------------------------------------------------------------------
(* Properties *)

\* No thread is inside the BaseProducer, or has a handle it could call it
\* through, once its drop has begun, except the thread that runs the drop.  That
\* is never the poll thread: the drop flushes for up to 500 ms.
DropIsExclusive ==
    /\ op[Poller] # "drop"
    /\ \A t \in Threads :
          op[t] = "drop" \/ native = "down" =>
              \A u \in Threads \ {t} : at[u] = "idle" /\ own[u] # "live"

\* Every accepted record has its callback run without any call from the users,
\* unless the producer is destroyed.
EventuallyReported ==
    \A m \in Msgs : opaque[m] = "raw" ~> opaque[m] = "reported" \/ native = "down"

\* Once the last handle is being dropped the poll thread ends and the native
\* client is destroyed, whatever the order of the concurrent drops.
EventuallyDestroyed ==
    (\A u \in Users : own[u] # "live") ~> native = "down"

=============================================================================
