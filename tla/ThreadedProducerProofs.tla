----------------------- MODULE ThreadedProducerProofs -----------------------
(***************************************************************************)
(* Proofs about ThreadedProducer, for any number of handles: the reference *)
(* counts see to it that the BaseProducer is dropped once, by a user's     *)
(* thread and after everything else has let go of it.  Rust's rule that    *)
(* only a borrowed producer is called and only an unborrowed one dropped,  *)
(* which BaseProducer takes as guards, is thus a consequence here, and     *)
(* every step of the threads is one of BaseProducer: its invariant and its *)
(* delivery contract carry over.                                           *)
(*                                                                         *)
(* The last section is about FutureProducer, for any number of clones and  *)
(* of futures: the borrow an unfinished `send` has of its clone keeps the  *)
(* ThreadedProducer, its poll thread and the native client alive.          *)
(***************************************************************************)
EXTENDS FutureProducer, BaseProducerProofs

Holding == {"live", "stop", "join", "release"}

\* Some handle's drop has the JoinHandle.
Stopping == \E u \in Users : own[u] \in {"stop", "join"}

\* Who has a reference is the one whose life says so; the poll thread is not told
\* to stop while there is a handle, and outlives no handle that could stop it.
Counts ==
    /\ own \in [Threads -> Lives]
    /\ refs = {t \in Threads : own[t] \in Holding}
    /\ joinRefs = {u \in Users : own[u] = "live"}
    /\ own[Poller] \in {"live", "release", "gone"}
    /\ own[Poller] # "live" => should_stop
    /\ own[Poller] # "gone" => joinRefs # {} \/ Stopping
    /\ should_stop \/ Stopping => joinRefs = {}

\* Who is inside the BaseProducer has a handle, or runs its drop; the drop begins
\* when the last reference has gone.
Guarded ==
    /\ op[Poller] # "drop"
    /\ \A t \in Threads : at[t] # "idle" => own[t] = "live" \/ op[t] = "drop"
    /\ \A t \in Threads : op[t] = "drop" => refs = {}
    /\ native = "down" => refs = {}

TPInv == Inv /\ Counts /\ Guarded

-----------------------------------------------------------------------------
LEMMA TPInitInv == TPInit => TPInv
<1> SUFFICES ASSUME TPInit PROVE TPInv
    OBVIOUS
<1> USE PollerAssumption
<1>1. TypeOK
    <2>1. <<>> \in Seq(SUBSET Msgs)
        OBVIOUS
    <2> QED
        BY Zenon, <2>1 DEF TPInit, TypeOK, Points, Ops, Owners
<1>2. InEvents = {} /\ Held = {}
    BY DEF TPInit, InEvents, Held
<1>3. Control /\ OnePlace /\ OpaqueHasOwner /\ Handled
    BY <1>2 DEF TPInit, Control, OnePlace, OpaqueHasOwner, Handled
<1>4. PICK first \in Users :
         /\ own = [t \in Threads |-> IF t \in {first, Poller} THEN "live" ELSE "unborn"]
         /\ refs = {first, Poller}
         /\ joinRefs = {first}
    BY Zenon DEF TPInit
<1>5. Counts
    BY <1>4 DEF TPInit, Counts, Users, Holding, Stopping, Lives
<1>6. Guarded
    BY Zenon, <1>4 DEF TPInit, Guarded, Users
<1> QED
    BY Zenon, <1>1, <1>3, <1>5, <1>6 DEF TPInv, Inv

\* A handle that is live can be called: the drop of the BaseProducer has not begun.
LEMMA LiveIsBorrowable ==
    ASSUME TPInv, NEW t \in Threads, own[t] \in Holding
    PROVE  Borrowable
BY Zenon DEF TPInv, Inv, TypeOK, Counts, Guarded, Borrowable

\* The last reference is a user's, and nobody is inside by then.
LEMMA LastReference ==
    ASSUME TPInv, NEW t \in Threads, own[t] = "release", refs = {t}
    PROVE  t # Poller /\ Borrowable /\ \A u \in Threads : at[u] = "idle"
<1>1. t # Poller
    BY Zenon, PollerAssumption DEF TPInv, Counts, Stopping, Users, Holding
<1>2. Borrowable
    BY Zenon, LiveIsBorrowable DEF Holding
<1>3. ASSUME NEW u \in Threads PROVE at[u] = "idle"
    <2>1. own[u] # "live"
        BY Zenon DEF TPInv, Counts, Holding
    <2>2. op[u] # "drop"
        BY Zenon, <1>2 DEF Borrowable
    <2> QED
        BY Zenon, <2>1, <2>2 DEF TPInv, Guarded
<1> QED
    BY Zenon, <1>1, <1>2, <1>3

\* Every step is one of the BaseProducer, or none.
LEMMA IsProducerStep == TPInv /\ [TPNext]_tpVars => [Next]_vars
<1> SUFFICES ASSUME TPInv, [TPNext]_tpVars PROVE [Next]_vars
    OBVIOUS
<1> USE PollerAssumption
<1>1. ASSUME NEW u \in Users, Delegate(u) PROVE Next
    BY Zenon, <1>1, LiveIsBorrowable DEF Delegate, Users, Holding, Next
<1>2. ASSUME NEW t \in Threads, Release(t) PROVE [Next]_vars
    <2>1. CASE refs = {t}
        BY Zenon, <1>2, <2>1, LastReference DEF Release, Drop, Next
    <2> QED
        BY Zenon, <1>2, <2>1 DEF Release
<1>3. ASSUME PollerAgain PROVE Next
    <2>1. Borrowable /\ Call(Poller)
        BY Zenon, <1>3, LiveIsBorrowable DEF PollerAgain, Holding, Call
    <2> QED
        BY Zenon, <2>1 DEF Next
<1>4. ASSUME NEW t \in Threads, Step(t) PROVE Next
    BY Zenon, <1>4 DEF Next
<1>5. ASSUME NEW u \in Users, DropHandle(u) \/ StopPoller(u) \/ Join(u) PROVE UNCHANGED vars
    BY Zenon, <1>5 DEF DropHandle, StopPoller, Join
<1>6. ASSUME NEW u \in Users, NEW v \in Users, Clone(u, v) PROVE UNCHANGED vars
    BY Zenon, <1>6 DEF Clone
<1>7. PollerBreaks => UNCHANGED vars
    BY Zenon DEF PollerBreaks
<1>8. Background => Next
    BY Zenon DEF Next
<1>9. UNCHANGED tpVars => UNCHANGED vars
    BY Zenon DEF tpVars
<1> QED
    BY Zenon, <1>1, <1>2, <1>3, <1>4, <1>5, <1>6, <1>7, <1>8, <1>9 DEF TPNext, Teardown

LEMMA CountsStep == TPInv /\ [TPNext]_tpVars => Counts'
<1> SUFFICES ASSUME TPInv, [TPNext]_tpVars PROVE Counts'
    OBVIOUS
<1> USE PollerAssumption DEF TPInv, Counts, Users, Holding, Stopping
<1>1. CASE UNCHANGED handleVars
    BY Zenon, <1>1 DEF handleVars
<1>2. ASSUME NEW u \in Users, DropHandle(u) PROVE Counts'
    BY <1>2 DEF DropHandle, Become, Lives
<1>3. ASSUME NEW u \in Users, StopPoller(u) PROVE Counts'
    BY Zenon, <1>3 DEF StopPoller, Become, Lives
<1>4. ASSUME NEW u \in Users, Join(u) PROVE Counts'
    BY Zenon, <1>4 DEF Join, Become, Lives
<1>5. ASSUME NEW u \in Users, NEW v \in Users, Clone(u, v) PROVE Counts'
    BY Zenon, <1>5 DEF Clone, Become, Lives
<1>6. ASSUME NEW t \in Threads, Release(t) PROVE Counts'
    BY Zenon, <1>6 DEF Release, Become, Lives
<1>7. ASSUME PollerBreaks PROVE Counts'
    BY Zenon, <1>7 DEF PollerBreaks, Become, Lives
<1>8. UNCHANGED tpVars => UNCHANGED handleVars
    BY Zenon DEF tpVars
<1> QED
    BY Zenon, <1>1, <1>2, <1>3, <1>4, <1>5, <1>6, <1>7, <1>8
       DEF TPNext, Teardown, Delegate, PollerAgain

\* A step inside poll, flush or drop moves its own thread only, and no thread
\* begins or leaves the drop by it, but for the destruction.
LEMMA StepMoves ==
    ASSUME Inv, NEW t \in Threads, Step(t)
    PROVE  /\ at[t] # "idle"
           /\ \A u \in Threads \ {t} : at'[u] = at[u] /\ op'[u] = op[u]
           /\ \/ op'[t] = op[t] /\ native' = native
              \/ op'[t] = "none" /\ at'[t] = "idle" /\ native' = native /\ op[t] # "drop"
              \/ op'[t] = "none" /\ at'[t] = "idle" /\ op[t] = "drop"
<1>1. at \in [Threads -> Points] /\ op \in [Threads -> Ops]
    BY Zenon DEF Inv, TypeOK
<1>2. CASE Destroy(t)
    BY Zenon, <1>1, <1>2 DEF Destroy, Goto, Inv, Control
<1>3. CASE PollReturns(t)
    BY Zenon, <1>1, <1>3 DEF PollReturns, Goto, nativeVars
<1>4. CASE FlushOk(t) \/ FlushTimesOut(t)
    BY Zenon, <1>1, <1>4 DEF FlushOk, FlushTimesOut, FlushReturn, Goto, nativeVars
<1>5. CASE PollNone(t) \/ PollOther(t) \/ PollReport(t) \/ \E m \in Msgs : Deliver(t, m)
    BY Zenon, <1>1, <1>5 DEF PollNone, PollOther, PollReport, Deliver, Goto, nativeVars
<1>6. CASE DeliveryReturns(t) \/ DestroyEvent(t) \/ PollAgain(t) \/ FlushPolls(t)
    BY Zenon, <1>1, <1>6 DEF DeliveryReturns, DestroyEvent, PollAgain, FlushPolls, Goto, nativeVars
<1> QED
    BY Zenon, <1>2, <1>3, <1>4, <1>5, <1>6 DEF Step

\* A call moves its thread into poll or flush, or leaves it where it is.
LEMMA CallMoves ==
    ASSUME Inv, NEW t \in Threads, Call(t)
    PROVE  /\ \A u \in Threads \ {t} : at'[u] = at[u] /\ op'[u] = op[u]
           /\ op'[t] = op[t] \/ op'[t] \in {"poll", "flush"}
           /\ native' = native
<1>1. at \in [Threads -> Points] /\ op \in [Threads -> Ops]
    BY DEF Inv, TypeOK
<1>2. CASE \E m \in Msgs : Send(t, m)
    BY Zenon, <1>1, <1>2 DEF Send, SendAccepted, SendReturned, nativeVars, threadVars
<1>3. CASE \E forever \in BOOLEAN : CallPoll(t, forever) \/ CallFlush(t, forever)
    BY Zenon, <1>1, <1>3 DEF CallPoll, CallFlush, Goto, nativeVars
<1>4. CASE \E flags \in SUBSET {"queue", "inflight"} : Purge(t, flags)
    BY Zenon, <1>1, <1>4 DEF Purge, threadVars
<1> QED
    BY <1>2, <1>3, <1>4 DEF Call

LEMMA GuardedStep == TPInv /\ [TPNext]_tpVars => Guarded'
<1> SUFFICES ASSUME TPInv, [TPNext]_tpVars PROVE Guarded'
    OBVIOUS
<1> USE PollerAssumption DEF TPInv, Guarded
<1>0. /\ at \in [Threads -> Points] /\ op \in [Threads -> Ops]
      /\ own \in [Threads -> Lives]
      /\ \A t \in Threads : own[t] = "live" => t \in refs
    BY Zenon DEF Inv, TypeOK, Counts, Holding
<1>1. ASSUME NEW u \in Users, Delegate(u) PROVE Guarded'
    <2>1. own[u] = "live" /\ u \in Threads /\ UNCHANGED handleVars
        BY Zenon, <1>1 DEF Delegate, Users
    <2>2. \A t \in Threads : op[t] # "drop"
        BY Zenon, <2>1, LiveIsBorrowable DEF Holding, Borrowable
    <2>3. /\ \A v \in Threads \ {u} : at'[v] = at[v] /\ op'[v] = op[v]
          /\ op'[u] = op[u] \/ op'[u] \in {"poll", "flush"}
          /\ native' = native
        BY Zenon, <1>1, <2>1, CallMoves DEF Delegate
    <2>4. \A t \in Threads : op'[t] # "drop"
        BY Zenon, <2>2, <2>3
    <2> QED
        BY Zenon, <2>1, <2>3, <2>4 DEF handleVars
<1>2. ASSUME PollerAgain PROVE Guarded'
    <2>1. own[Poller] = "live" /\ Call(Poller) /\ UNCHANGED handleVars
        BY Zenon, <1>2 DEF PollerAgain, Call
    <2>2. \A t \in Threads : op[t] # "drop"
        BY Zenon, <2>1, LiveIsBorrowable DEF Holding, Borrowable
    <2>3. /\ \A v \in Threads \ {Poller} : at'[v] = at[v] /\ op'[v] = op[v]
          /\ op'[Poller] = op[Poller] \/ op'[Poller] \in {"poll", "flush"}
          /\ native' = native
        BY Zenon, <2>1, CallMoves
    <2>4. \A t \in Threads : op'[t] # "drop"
        BY Zenon, <2>2, <2>3
    <2> QED
        BY Zenon, <2>1, <2>3, <2>4 DEF handleVars
<1>3. ASSUME NEW t \in Threads, Step(t), UNCHANGED handleVars PROVE Guarded'
    <2>1. /\ at[t] # "idle"
          /\ \A u \in Threads \ {t} : at'[u] = at[u] /\ op'[u] = op[u]
          /\ \/ op'[t] = op[t] /\ native' = native
             \/ op'[t] = "none" /\ at'[t] = "idle" /\ native' = native /\ op[t] # "drop"
             \/ op'[t] = "none" /\ at'[t] = "idle" /\ op[t] = "drop"
        BY Zenon, <1>3, StepMoves
    <2> QED
        BY Zenon, <1>3, <2>1 DEF handleVars
<1>4. ASSUME NEW u \in Users, NEW v \in Users, Clone(u, v) PROVE Guarded'
    <2>1. own[u] = "live" /\ u \in Threads /\ v \in Threads /\ UNCHANGED vars
        BY Zenon, <1>4 DEF Clone, Users
    <2>2. native # "down" /\ \A t \in Threads : op[t] # "drop"
        BY Zenon, <2>1, LiveIsBorrowable DEF Holding, Borrowable
    <2>3. own' = [own EXCEPT ![v] = "live"]
        BY Zenon, <1>4 DEF Clone, Become
    <2> QED
        BY <1>0, <2>1, <2>2, <2>3 DEF vars, nativeVars, threadVars
<1>5. ASSUME NEW u \in Users, DropHandle(u) \/ StopPoller(u) \/ Join(u) PROVE Guarded'
    <2>1. /\ UNCHANGED vars /\ UNCHANGED refs /\ u \in Threads
          /\ \E life \in Lives : own' = [own EXCEPT ![u] = life]
          /\ own[u] = "live" => at[u] = "idle"
        BY Zenon, <1>5 DEF DropHandle, StopPoller, Join, Become, Users, Lives
    <2> QED
        BY Zenon, <1>0, <2>1 DEF vars, nativeVars, threadVars
<1>6. ASSUME PollerBreaks PROVE Guarded'
    BY Zenon, <1>0, <1>6 DEF PollerBreaks, Become, vars, nativeVars, threadVars
<1>7. ASSUME NEW t \in Threads, Release(t) PROVE Guarded'
    <2>1. /\ own[t] = "release" /\ own' = [own EXCEPT ![t] = "gone"] /\ refs' = refs \ {t}
        BY Zenon, <1>7 DEF Release, Become
    <2>2. CASE refs = {t}
        <3>1. BeginDrop(t) /\ t # Poller /\ \A u \in Threads : at[u] = "idle"
            BY <1>7, <2>1, <2>2, LastReference DEF Release
        <3>2. /\ op' = [op EXCEPT ![t] = "drop"] /\ native' = native
              /\ \A u \in Threads \ {t} : at'[u] = "idle"
            BY Zenon, <1>0, <3>1 DEF BeginDrop, Goto
        <3> QED
            BY <1>0, <2>1, <2>2, <3>1, <3>2
    <2>3. CASE refs # {t}
        <3>1. UNCHANGED vars
            BY Zenon, <1>7, <2>3 DEF Release
        <3>2. refs # {}
            BY Zenon, <2>1 DEF Counts, Holding
        <3> QED
            BY <1>0, <2>1, <3>1, <3>2 DEF vars, nativeVars, threadVars
    <2> QED
        BY Zenon, <2>2, <2>3
<1>8. ASSUME Background, UNCHANGED handleVars PROVE Guarded'
    BY Zenon, <1>8 DEF Background, Transmit, Retry, Report, EmitOther, threadVars, handleVars
<1>9. CASE UNCHANGED tpVars
    BY Zenon, <1>9 DEF tpVars, vars, nativeVars, threadVars, handleVars
<1> QED
    BY <1>1, <1>2, <1>3, <1>4, <1>5, <1>6, <1>7, <1>8, <1>9 DEF TPNext, Teardown

LEMMA TPNextInv == TPInv /\ [TPNext]_tpVars => TPInv'
<1>1. TPInv /\ [TPNext]_tpVars => Inv'
    BY Zenon, IsProducerStep, NextInv DEF TPInv
<1> QED
    BY Zenon, <1>1, CountsStep, GuardedStep DEF TPInv

-----------------------------------------------------------------------------
(* The theorems about ThreadedProducer *)

\* The reference counts, the guards of the BaseProducer and its own invariant hold
\* throughout, for any number of handles that are cloned and dropped concurrently.
THEOREM ThreadedInvariance == TPSpec => []TPInv
BY TPInitInv, TPNextInv, PTL DEF TPSpec

\* Nobody is inside the BaseProducer, or could call it, while it is dropped, and
\* the poll thread never drops it.
THEOREM DropAlone == TPSpec => []DropIsExclusive
<1>1. TPInv => DropIsExclusive
    <2> SUFFICES ASSUME TPInv, NEW t \in Threads, op[t] = "drop" \/ native = "down",
                        NEW u \in Threads \ {t}
                 PROVE  at[u] = "idle" /\ own[u] # "live"
        BY Zenon DEF DropIsExclusive, TPInv, Guarded
    <2>1. refs = {}
        BY Zenon DEF TPInv, Guarded
    <2>2. own[u] # "live"
        BY Zenon, <2>1 DEF TPInv, Counts, Holding
    <2>3. at[u] = "idle"
        BY Zenon DEF TPInv, Inv, Control
    <2> QED
        BY Zenon, <2>2, <2>3
<1> QED
    BY <1>1, ThreadedInvariance, PTL

\* A ThreadedProducer keeps the delivery contract of the BaseProducer it wraps.
THEOREM ThreadedRefinement == TPSpec => ImplementsContract
<1>1. TPInit => Contract!ContractInit
    BY DEF TPInit, Contract!ContractInit, Status
<1>2. TPInv /\ TPInv' /\ [TPNext]_tpVars => [Contract!ContractNext]_(Contract!contractVars)
    BY Zenon, IsProducerStep, ContractStep DEF TPInv
<1> QED
    BY <1>1, <1>2, ThreadedInvariance, PTL DEF TPSpec, ImplementsContract, Contract!ContractSpec

-----------------------------------------------------------------------------
(* FutureProducer *)

\* A clone keeps the ThreadedProducer, an unfinished `send` its clone.
Shared ==
    /\ clones # {} => own[Handle] = "live"
    /\ borrows \subseteq clones \X Msgs
    /\ \A m \in Msgs : fut[m] \in {"retry", "await"} => \E k \in Tasks : <<k, m>> \in borrows

\* A record that is yet to be enqueued has its Sender, one that was has given it up.
Matched ==
    /\ fut \in [Msgs -> Futures]
    /\ \A m \in Msgs : fut[m] \in {"none", "retry"} => opaque[m] = "record"
    /\ \A m \in Msgs : fut[m] \in {"await", "delivery", "resolved"} => opaque[m] # "record"

FPInv == TPInv /\ Shared /\ Matched

LEMMA FPInitInv == FPInit => FPInv
<1> SUFFICES ASSUME FPInit PROVE FPInv
    OBVIOUS
<1>1. TPInv
    BY Zenon, TPInitInv DEF FPInit
<1>2. Shared
    BY Zenon DEF FPInit, Shared
<1>3. Matched
    BY Zenon DEF FPInit, TPInit, Matched, Futures
<1> QED
    BY Zenon, <1>1, <1>2, <1>3 DEF FPInv

\* While there is a clone the native client is up and the poll thread in its loop.
LEMMA CloneKeeps ==
    ASSUME FPInv, clones # {}
    PROVE  native = "up" /\ own[Handle] = "live" /\ own[Poller] = "live"
<1> USE HandleAssumption DEF FPInv, Users
<1>1. own[Handle] = "live"
    BY Zenon DEF Shared
<1>2. native = "up"
    BY Zenon, <1>1, LiveIsBorrowable DEF Holding, Borrowable
<1>3. Handle \in joinRefs
    BY Zenon, <1>1 DEF TPInv, Counts
<1> QED
    BY Zenon, <1>1, <1>2, <1>3 DEF TPInv, Counts

\* The task that polls the future of a `send` has a clone.
LEMMA SenderHasClone ==
    ASSUME FPInv, NEW k \in Tasks, NEW m \in Msgs, FutureSend(k, m) \/ SendResult(k, m)
    PROVE  k \in clones /\ opaque[m] = "record"
BY Zenon DEF FPInv, Shared, Matched, FutureSend, SendResult

\* Sending disturbs neither the reference counts nor any thread.
LEMMA FutureSendInv ==
    ASSUME FPInv, NEW m \in Msgs, native = "up", opaque[m] = "record",
           SendAccepted(m) \/ SendReturned(m), UNCHANGED handleVars
    PROVE  TPInv'
<1>1. Inv'
    BY Zenon, SendInv DEF FPInv, TPInv
<1>2. UNCHANGED <<native, threadVars, handleVars>>
    BY Zenon DEF SendAccepted, SendReturned, nativeVars
<1>3. Counts'
    BY <1>2 DEF FPInv, TPInv, Counts, Stopping, handleVars
<1>4. Guarded'
    BY Zenon, <1>2 DEF FPInv, TPInv, Guarded, threadVars, handleVars
<1> QED
    BY Zenon, <1>1, <1>3, <1>4 DEF TPInv

\* Every other step is one of the ThreadedProducer, or none.
LEMMA IsThreadedStep ==
    ASSUME FPInv, \/ \E m \in Msgs : Resolve(m) \/ DropFuture(m)
                  \/ \E k \in Tasks : FutureDelegate(k) \/ DropClone(k)
                  \/ \E k, l \in Tasks : CloneFuture(k, l)
                  \/ Underneath
                  \/ UNCHANGED fpVars
    PROVE  [TPNext]_tpVars
<1> USE HandleAssumption
<1>1. ASSUME NEW m \in Msgs, Resolve(m) \/ DropFuture(m) PROVE UNCHANGED tpVars
    BY Zenon, <1>1 DEF Resolve, DropFuture
<1>2. ASSUME NEW k \in Tasks, FutureDelegate(k) PROVE TPNext
    <2>1. own[Handle] = "live" /\ Call(Handle) /\ UNCHANGED handleVars
        BY Zenon, <1>2, CloneKeeps DEF FutureDelegate, Call
    <2> QED
        BY Zenon, <2>1 DEF Delegate, TPNext
<1>3. ASSUME NEW k \in Tasks, DropClone(k) PROVE [TPNext]_tpVars
    BY Zenon, <1>3 DEF DropClone, TPNext
<1>4. ASSUME NEW k \in Tasks, NEW l \in Tasks, CloneFuture(k, l) PROVE UNCHANGED tpVars
    BY Zenon, <1>4 DEF CloneFuture
<1>5. Underneath => TPNext
    BY Zenon DEF Underneath, TPNext
<1>6. UNCHANGED fpVars => UNCHANGED tpVars
    BY Zenon DEF fpVars
<1> QED
    BY SMTT(30), <1>1, <1>2, <1>3, <1>4, <1>5, <1>6

\* Only a send takes the opaque out of a record, and nothing puts one back.
LEMMA RecordsKept ==
    ASSUME FPInv, \/ \E k \in Tasks : FutureDelegate(k) \/ DropClone(k)
                  \/ Underneath
                  \/ UNCHANGED tpVars
    PROVE  \A m \in Msgs : opaque'[m] = "record" <=> opaque[m] = "record"
<1> DEFINE Kept == \A m \in Msgs : opaque'[m] = "record" <=> opaque[m] = "record"
<1>0. opaque \in [Msgs -> Owners] /\ Inv
    BY Zenon DEF FPInv, TPInv, Inv, TypeOK
<1>1. ASSUME NEW t \in Threads, Step(t) PROVE Kept
    <2>1. ASSUME NEW n \in Msgs, Deliver(t, n) PROVE Kept
        <3>1. opaque[n] = "raw"
            BY Zenon, <1>0, <2>1, TodoIsRaw DEF Deliver
        <3> QED
            BY Zenon, <1>0, <2>1, <3>1 DEF Deliver
    <2>2. ASSUME DeliveryReturns(t) PROVE Kept
        BY <1>0, <2>2 DEF DeliveryReturns, Inv, Handled
    <2> QED
        BY <1>1, <2>1, <2>2
           DEF Step, PollNone, PollOther, PollReport, DestroyEvent, PollAgain,
               PollReturns, FlushOk, FlushTimesOut, FlushPolls, FlushReturn, Destroy
<1>2. ASSUME NEW t \in Threads, Teardown(t) PROVE Kept
    BY Zenon, <1>2 DEF Teardown, StopPoller, Join, Release, BeginDrop, vars
<1>3. PollerAgain \/ PollerBreaks => Kept
    BY Zenon DEF PollerAgain, PollerBreaks, CallPoll, vars
<1>4. Background => Kept
    BY Zenon DEF Background, Transmit, Retry, Report, EmitOther
<1>5. ASSUME NEW k \in Tasks, FutureDelegate(k) \/ DropClone(k) PROVE Kept
    BY Zenon, <1>5 DEF FutureDelegate, CallPoll, CallFlush, Purge, DropClone, DropHandle, tpVars, vars
<1>6. UNCHANGED tpVars => Kept
    BY Zenon DEF tpVars, vars
<1> QED
    BY <1>1, <1>2, <1>3, <1>4, <1>5, <1>6 DEF Underneath

LEMMA FPNextInv == FPInv /\ [FPNext]_fpVars => FPInv'
<1> SUFFICES ASSUME FPInv, [FPNext]_fpVars PROVE FPInv'
    OBVIOUS
<1> USE DEF FPInv
<1>0. /\ fut \in [Msgs -> Futures] /\ opaque \in [Msgs -> Owners]
      /\ own \in [Threads -> Lives] /\ Handle \in Threads /\ Handle # Poller
    BY Zenon, HandleAssumption DEF Matched, TPInv, Inv, TypeOK, Counts, Users
<1>1. ASSUME NEW k \in Tasks, NEW m \in Msgs, FutureSend(k, m) \/ SendResult(k, m)
      PROVE  FPInv'
    <2>1. k \in clones /\ opaque[m] = "record" /\ native = "up"
        BY Zenon, <1>1, SenderHasClone, CloneKeeps
    <2>2. /\ SendAccepted(m) \/ SendReturned(m)
          /\ UNCHANGED <<handleVars, clones>>
        BY Zenon, <1>1 DEF FutureSend, SendResult, SendEnqueues, SendWaits, SendFails, Taken, GivenBack
    <2>3. TPInv'
        BY Zenon, <2>1, <2>2, FutureSendInv
    <2>4. \/ /\ SendAccepted(m) /\ fut' = [fut EXCEPT ![m] = "await"]
             /\ borrows' = borrows \cup {<<k, m>>}
          \/ /\ SendReturned(m) /\ fut' = [fut EXCEPT ![m] = "retry"]
             /\ borrows' = borrows \cup {<<k, m>>}
          \/ /\ SendReturned(m) /\ fut' = [fut EXCEPT ![m] = "failed"]
             /\ borrows' = {b \in borrows : b[2] # m}
          \/ /\ SendAccepted(m) /\ fut' = [fut EXCEPT ![m] = "delivery"]
             /\ borrows' = borrows
          \/ /\ SendReturned(m) /\ fut' = fut /\ borrows' = borrows
        BY Zenon, <1>1 DEF FutureSend, SendResult, SendEnqueues, SendWaits, SendFails,
                    Taken, GivenBack, SetFuture, EndBorrow
    <2>5. /\ SendAccepted(m) => opaque' = [opaque EXCEPT ![m] = "raw"]
          /\ SendReturned(m) => opaque' = [opaque EXCEPT ![m] = "record"]
        BY Zenon DEF SendAccepted, SendReturned
    <2>6. Matched'
        BY <1>0, <2>1, <2>4, <2>5 DEF Matched, Futures
    <2>7. own'[Handle] = own[Handle] /\ clones' = clones
        BY Zenon, <2>2 DEF handleVars
    <2>8. Shared'
        <3>1. borrows' \subseteq clones' \X Msgs
            BY <2>1, <2>4, <2>7 DEF Shared
        <3>2. ASSUME NEW n \in Msgs, fut'[n] \in {"retry", "await"}
              PROVE  \E l \in Tasks : <<l, n>> \in borrows'
            <4>1. CASE n = m
                BY ZenonT(40), <1>0, <2>4, <3>2, <4>1 DEF Shared
            <4>2. CASE n # m
                <5>1. fut'[n] = fut[n]
                    BY Zenon, <1>0, <2>4, <4>2
                <5>2. PICK l \in Tasks : <<l, n>> \in borrows
                    BY Zenon, <3>2, <5>1 DEF Shared
                <5>3. <<l, n>> \in borrows'
                    BY Zenon, <2>4, <4>2, <5>2
                <5> QED
                    BY Zenon, <5>3
            <4> QED
                BY Zenon, <4>1, <4>2
        <3> QED
            BY Zenon, <2>7, <3>1, <3>2 DEF Shared
    <2> QED
        BY Zenon, <2>3, <2>6, <2>8
<1>2. ASSUME NEW m \in Msgs, Resolve(m) \/ DropFuture(m) PROVE FPInv'
    <2>1. TPInv' /\ UNCHANGED tpVars /\ clones' = clones
        BY Zenon, <1>2, IsThreadedStep, TPNextInv DEF Resolve, DropFuture
    <2>2. /\ \E f \in {"resolved", "dropped"} : fut' = [fut EXCEPT ![m] = f]
          /\ borrows' = {b \in borrows : b[2] # m}
          /\ fut'[m] = "resolved" => opaque[m] # "record"
        BY Zenon, <1>0, <1>2 DEF Resolve, DropFuture, SetFuture, EndBorrow, Matched
    <2>3. opaque' = opaque /\ own' = own
        BY Zenon, <2>1 DEF tpVars, vars, handleVars
    <2>4. Matched'
        BY Zenon, <1>0, <2>2, <2>3 DEF Matched, Futures
    <2>5. Shared'
        <3>1. ASSUME NEW n \in Msgs, fut'[n] \in {"retry", "await"}
              PROVE  \E l \in Tasks : <<l, n>> \in borrows'
            <4>1. n # m /\ fut'[n] = fut[n]
                BY Zenon, <1>0, <2>2, <3>1
            <4>2. PICK l \in Tasks : <<l, n>> \in borrows
                BY Zenon, <3>1, <4>1 DEF Shared
            <4>3. <<l, n>> \in borrows'
                BY Zenon, <2>2, <4>1, <4>2
            <4> QED
                BY Zenon, <4>3
        <3> QED
            BY Zenon, <2>1, <2>2, <2>3, <3>1 DEF Shared
    <2> QED
        BY Zenon, <2>1, <2>4, <2>5
<1>3. ASSUME NEW k \in Tasks, FutureDelegate(k) PROVE FPInv'
    <2>1. TPInv' /\ \A m \in Msgs : opaque'[m] = "record" <=> opaque[m] = "record"
        BY <1>3, IsThreadedStep, TPNextInv, RecordsKept
    <2>2. own' = own /\ UNCHANGED <<clones, fut, borrows>>
        BY Zenon, <1>3 DEF FutureDelegate, handleVars, futureVars
    <2> QED
        BY ZenonT(40), <2>1, <2>2 DEF Shared, Matched
<1>4. ASSUME NEW k \in Tasks, DropClone(k) PROVE FPInv'
    <2>1. TPInv' /\ \A m \in Msgs : opaque'[m] = "record" <=> opaque[m] = "record"
        BY Zenon, <1>4, IsThreadedStep, TPNextInv, RecordsKept
    <2>2. /\ clones' = clones \ {k} /\ UNCHANGED <<fut, borrows>>
          /\ \A m \in Msgs : <<k, m>> \notin borrows
          /\ clones # {k} => own' = own
        BY Zenon, <1>4 DEF DropClone, tpVars, handleVars
    <2>3. borrows \subseteq clones' \X Msgs
        BY <2>2 DEF Shared
    <2> QED
        BY Zenon, <2>1, <2>2, <2>3 DEF Shared, Matched
<1>5. ASSUME NEW k \in Tasks, NEW l \in Tasks, CloneFuture(k, l) PROVE FPInv'
    <2>1. TPInv' /\ UNCHANGED tpVars /\ UNCHANGED <<fut, borrows>>
        BY Zenon, <1>5, IsThreadedStep, TPNextInv DEF CloneFuture
    <2>2. opaque' = opaque /\ own' = own
        BY Zenon, <2>1 DEF tpVars, vars, handleVars
    <2>3. clones # {} /\ clones \subseteq clones'
        BY Zenon, <1>5 DEF CloneFuture
    <2> QED
        BY Zenon, <2>1, <2>2, <2>3 DEF Shared, Matched
<1>6. ASSUME Underneath, UNCHANGED futureVars PROVE FPInv'
    <2>1. TPInv' /\ \A m \in Msgs : opaque'[m] = "record" <=> opaque[m] = "record"
        BY Zenon, <1>6, IsThreadedStep, TPNextInv, RecordsKept
    <2>2. UNCHANGED <<clones, fut, borrows>>
        BY Zenon, <1>6 DEF futureVars
    <2>3. own[Handle] = "live" => own'[Handle] = "live"
        BY Zenon, <1>0, <1>6 DEF Underneath, Teardown, StopPoller, Join, Release, PollerAgain,
                          PollerBreaks, Become, handleVars
    <2> QED
        BY Zenon, <2>1, <2>2, <2>3 DEF Shared, Matched
<1>7. CASE UNCHANGED fpVars
    <2>1. TPInv' /\ UNCHANGED <<opaque, own, clones, fut, borrows>>
        BY Zenon, <1>7, IsThreadedStep, TPNextInv DEF fpVars, tpVars, vars, handleVars, futureVars
    <2> QED
        BY Zenon, <2>1 DEF Shared, Matched
<1> QED
    BY SMTT(30), <1>1, <1>2, <1>3, <1>4, <1>5, <1>6, <1>7 DEF FPNext

\* An unfinished `send` finds its producer alive and its Sender unspent or used, so
\* that the expect on rx.await never fails, for any number of clones and futures.
THEOREM SendIsSafe == FPSpec => []SendKeepsProducer
<1>1. FPInv => SendKeepsProducer
    <2> SUFFICES ASSUME FPInv, NEW m \in Msgs
                 PROVE  /\ fut[m] \in {"retry", "await"} =>
                              native = "up" /\ own[Handle] = "live" /\ own[Poller] = "live"
                        /\ fut[m] \in {"await", "delivery", "resolved"} =>
                              opaque[m] \in {"raw", "callback", "reported"}
        BY Zenon DEF SendKeepsProducer
    <2>1. fut[m] \in {"retry", "await"} => clones # {}
        BY Zenon DEF FPInv, Shared
    <2>2. opaque[m] \in Owners
        BY Zenon DEF FPInv, TPInv, Inv, TypeOK
    <2> QED
        BY Zenon, <2>1, <2>2, CloneKeeps DEF FPInv, Matched, Owners
<1> QED
    BY <1>1, FPInitInv, FPNextInv, PTL DEF FPSpec

=============================================================================
