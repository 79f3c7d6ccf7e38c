------------------------- MODULE BaseConsumerProofs -------------------------
(***************************************************************************)
(* Proofs about BaseConsumer, for any number of threads, partitions and    *)
(* rebalances: the assignment follows the group, the callbacks of a single *)
(* poller tell the truth, and the client is destroyed after the member has *)
(* left the group.                                                         *)
(***************************************************************************)
EXTENDS BaseConsumer, FiniteSetTheorems, SequenceTheorems, TLAPS

\* The points inside poll and drop agree with the operation, and a drop is alone.
Control ==
    /\ at \in [Threads -> {"idle", "poll", "pre", "execute", "post", "served", "drop",
                           "closed?", "destroy"}]
    /\ op \in [Threads -> {"none", "poll", "drop"}]
    /\ \A t \in Threads :
          /\ at[t] = "idle" <=> op[t] = "none"
          /\ at[t] # "idle" => t \in users
          /\ at[t] \in {"drop", "closed?", "destroy"} => op[t] = "drop"
          /\ op[t] = "drop" => \A u \in Threads \ {t} : at[u] = "idle"
          /\ native = "down" => at[t] = "idle"

Typed ==
    /\ users \subseteq Threads
    /\ native \in {"up", "closing", "closed", "down"}
    /\ queue \in Seq(EventType)
    /\ event \in [Threads -> EventType]

\* Thread t has taken a rebalance event and has not made the assignment yet.
Handling(t) == at[t] \in {"pre", "execute"}

Waiting(i) == queue[i].kind \in Rebalances

\* The event is what librdkafka waits for, and the assignment it asks for is what
\* the group has given to the member.
Fits(e) ==
    /\ e.kind = join
    /\ IF join = "assign"
       THEN IF Cooperative THEN granted = assigned \cup e.parts
                           ELSE granted = e.parts /\ assigned = {}
       ELSE IF Cooperative THEN granted = assigned \ e.parts
                           ELSE granted = {} /\ assigned \subseteq e.parts

\* There is one rebalance at a time, in the queue or in the hands of one thread.
OneEvent ==
    /\ \A i \in 1..Len(queue) : Waiting(i) => Fits(queue[i])
    /\ \A t \in Threads : Handling(t) => event[t].kind \in Rebalances /\ Fits(event[t])
    /\ \A i, j \in 1..Len(queue) : Waiting(i) /\ Waiting(j) => i = j
    /\ \A t, u \in Threads : Handling(t) /\ Handling(u) => t = u
    /\ \A i \in 1..Len(queue), t \in Threads : ~(Waiting(i) /\ Handling(t))
    /\ join = "steady" => assigned = granted

\* A member that has left the group has nothing, and drop() destroys the client
\* of such a member only, or of one that could not close.
Left ==
    /\ native = "closed" => join = "steady" /\ granted = {} /\ assigned = {}
    /\ \A t \in Threads : at[t] = "destroy" => native = "closed" \/ fatal
    /\ native = "down" /\ ~fatal => granted = {} /\ assigned = {}

\* What a single poller has told the context.
Told ==
    (\E t \in Threads : users = {t}) =>
        /\ told \subseteq assigned
        /\ \A t \in Threads :
              /\ Handling(t) /\ event[t].kind = "revoke" => told \cap event[t].parts = {}
              /\ at[t] = "post" /\ event[t].kind = "assign" => event[t].parts \subseteq assigned

IInv == Typed /\ Control /\ OneEvent /\ Left /\ Told

-----------------------------------------------------------------------------
(* The queue *)

LEMMA Pushed ==
    ASSUME Typed, NEW e \in EventType, Push(e)
    PROVE  /\ queue' \in Seq(EventType)
           /\ Len(queue) \in Nat
           /\ Len(queue') = Len(queue) + 1
           /\ queue'[Len(queue) + 1] = e
           /\ \A i \in 1..Len(queue) : queue'[i] = queue[i]
BY AppendProperties DEF Typed, Push

LEMMA Taken ==
    ASSUME Typed, NEW t, NEW kinds, Take(t, kinds)
    PROVE  /\ queue' \in Seq(EventType)
           /\ Len(queue) \in Nat \ {0}
           /\ Len(queue') = Len(queue) - 1
           /\ Head(queue) = queue[1] /\ queue[1] \in EventType /\ queue[1].kind \in kinds
           /\ \A i \in 1..Len(queue') : queue'[i] = queue[i + 1]
BY HeadTailProperties, EmptySeq DEF Typed, Take

LEMMA Marked ==
    ASSUME Typed, NEW ps, Assign(ps)
    PROVE  /\ queue' \in Seq(EventType)
           /\ Len(queue') = Len(queue)
           /\ \A i \in 1..Len(queue) : Waiting(i)' => Waiting(i)
<1>1. queue \in Seq(EventType) /\ Len(queue) \in Nat /\ DOMAIN queue = 1..Len(queue)
    BY DEF Typed
<1>2. \A i \in 1..Len(queue) : queue[i] \in EventType
    BY Zenon, <1>1, ElementOfSeq
<1>3. Event("outdated", {}) \in EventType
    BY Zenon DEF Event, EventType, Kinds
<1>4. queue' \in [1..Len(queue) -> EventType]
    BY Zenon, <1>1, <1>2, <1>3 DEF Assign
<1>5. queue' \in Seq(EventType) /\ Len(queue') = Len(queue)
    BY <1>1, <1>4, SeqDef
<1>6. ASSUME NEW i \in 1..Len(queue), Waiting(i)' PROVE Waiting(i)
    BY Zenon, <1>1, <1>6 DEF Assign, Waiting, Event, Rebalances
<1> QED
    BY Zenon, <1>5, <1>6

\* The steps of the threads, and their kinds.
LEMMA ItemsMove ==
    ASSUME NEW t \in users, Step(t)
    PROVE  \/ PollItem(t) \/ PollOutdated(t) \/ PollIgnored(t) \/ PollClient(t) \/ PollCommit(t)
           \/ PollNone(t) \/ PollRebalance(t) \/ PreReturns(t) \/ Execute(t) \/ PostReturns(t)
           \/ Served(t) \/ DropCloses(t) \/ DropPolls(t) \/ Destroy(t)
BY Zenon DEF Step

-----------------------------------------------------------------------------
(* The inductive invariant *)

LEMMA InitIInv == Init => IInv
<1> SUFFICES ASSUME Init PROVE IInv
    OBVIOUS
<1>1. <<>> \in Seq(EventType) /\ NoEvent \in EventType
    BY DEF NoEvent, Event, EventType, Kinds
<1>2. Typed
    BY Zenon, <1>1 DEF Init, Typed
<1>3. Control /\ OneEvent /\ Left /\ Told
    BY DEF Init, Control, OneEvent, Left, Told, Handling
<1> QED
    BY Zenon, <1>2, <1>3 DEF IInv

LEMMA TypedStep == Typed /\ Next => Typed'
<1> SUFFICES ASSUME Typed, Next PROVE Typed'
    OBVIOUS
<1>0. UNCHANGED setup
    BY Zenon DEF Next
<1>1. ASSUME NEW e \in EventType, Push(e), UNCHANGED <<native, event>> PROVE Typed'
    BY Zenon, <1>0, <1>1, Pushed DEF Typed, setup
<1>2. ASSUME NEW t, NEW kinds, Take(t, kinds), UNCHANGED <<native, event>> PROVE Typed'
    BY Zenon, <1>0, <1>2, Taken DEF Typed, setup
<1>3. ASSUME UNCHANGED <<queue, event>>, native' \in {"up", "closing", "closed", "down"}
      PROVE  Typed'
    BY Zenon, <1>0, <1>3 DEF Typed, setup
<1>4. ASSUME NEW t \in users, Step(t) PROVE Typed'
    <2>1. CASE PollItem(t) \/ PollClient(t)
        BY Zenon, <1>2, <2>1 DEF PollItem, PollClient, Return
    <2>2. CASE PollOutdated(t) \/ PollIgnored(t) \/ PollCommit(t)
        BY Zenon, <1>2, <2>2 DEF PollOutdated, PollIgnored, PollCommit
    <2>3. CASE PollNone(t) \/ PreReturns(t) \/ Served(t) \/ DropPolls(t)
        BY Zenon, <1>3, <2>3 DEF PollNone, PreReturns, Served, DropPolls, Return, Typed
    <2>4. CASE PollRebalance(t)
        <3>1. event' = [event EXCEPT ![t] = Head(queue)] /\ Take(t, Rebalances) /\ native' = native
            BY Zenon, <2>4 DEF PollRebalance
        <3>2. queue' \in Seq(EventType) /\ Head(queue) \in EventType
            BY Zenon, <3>1, Taken
        <3> QED
            BY Zenon, <1>0, <3>1, <3>2 DEF Typed, setup
    <2>5. CASE Execute(t)
        BY Zenon, <1>0, <2>5, Marked DEF Execute, Typed, setup
    <2>6. CASE PostReturns(t)
        <3>1. NoEvent \in EventType
            BY Zenon DEF NoEvent, Event, EventType, Kinds
        <3> QED
            BY Zenon, <1>0, <2>6, <3>1 DEF PostReturns, Typed, setup
    <2>7. CASE DropCloses(t)
        BY Zenon, <1>3, <2>7 DEF DropCloses, CloseNative, Typed
    <2>8. CASE Destroy(t)
        <3>1. <<>> \in Seq(EventType)
            OBVIOUS
        <3>2. queue' \in Seq(EventType)
            BY <2>8, <3>1, Zenon DEF Destroy
        <3> QED
            BY Zenon, <1>0, <2>8, <3>2 DEF Destroy, Typed, setup
    <2> QED
        BY <1>4, <2>1, <2>2, <2>3, <2>4, <2>5, <2>6, <2>7, <2>8, ItemsMove
<1>5. ASSUME NEW t \in users, Call(t) \/ BeginDrop(t) PROVE Typed'
    BY Zenon, <1>3, <1>5 DEF Call, CloseQueue, CallPoll, BeginDrop, CloseNative, Typed
<1>6. ASSUME Group PROVE Typed'
    <2>1. ASSUME NEW ps \in SUBSET Partitions
          PROVE  Event("assign", ps) \in EventType /\ Event("revoke", ps) \in EventType
        BY Zenon DEF Event, EventType, Kinds
    <2>2. ASSUME NEW ps \in SUBSET Partitions, GroupAssigns(ps) \/ GroupRevokes(ps) PROVE Typed'
        BY Zenon, <1>1, <2>1, <2>2 DEF GroupAssigns, GroupRevokes
    <2>3. ASSUME Leaves PROVE Typed'
        BY Zenon, <1>3, <2>3 DEF Leaves, Typed
    <2> QED
        BY Zenon, <1>6, <2>2, <2>3 DEF Group
<1>7. ASSUME \/ FatalError
             \/ \E p \in Partitions : Fetches(p)
             \/ \E kind \in {"commit", "error", "client", "ignored"} : Emits(kind)
      PROVE  Typed'
    <2>1. /\ \A p \in Partitions : Event("message", {p}) \in EventType
          /\ \A kind \in {"commit", "error", "client", "ignored"} : Event(kind, {}) \in EventType
        BY Zenon DEF Event, EventType, Kinds
    <2> QED
        BY Zenon, <1>1, <1>7, <2>1 DEF FatalError, Fetches, Emits
<1> QED
    BY Zenon, <1>4, <1>5, <1>6, <1>7 DEF Next

LEMMA ControlStep == Typed /\ Control /\ Next => Control'
<1> SUFFICES ASSUME Typed, Control, Next PROVE Control'
    OBVIOUS
<1> USE DEF Control
<1>0. users' = users /\ users \subseteq Threads
    BY Zenon DEF Next, setup, Typed
<1>1. ASSUME NEW t \in users, Step(t) PROVE Control'
    <2>0. t \in Threads
        BY Zenon, <1>0
    <2>1. CASE PollItem(t) \/ PollClient(t) \/ PollNone(t)
        BY <1>0, <2>0, <2>1 DEF PollItem, PollClient, PollNone, Take, Return, Goto, callVars
    <2>2. CASE PollOutdated(t) \/ PollIgnored(t)
        BY Zenon, <1>0, <2>2 DEF PollOutdated, PollIgnored, callVars
    <2>3. CASE PollCommit(t) \/ PollRebalance(t)
        BY <1>0, <2>0, <2>3 DEF PollCommit, PollRebalance, Take, Goto, callVars
    <2>4. CASE PreReturns(t) \/ Execute(t) \/ PostReturns(t)
        BY <1>0, <2>0, <2>4 DEF PreReturns, Execute, PostReturns, Goto, callVars
    <2>5. CASE Served(t)
        BY <1>0, <2>0, <2>5 DEF Served, Return, Goto, callVars
    <2>6. CASE DropCloses(t)
        BY <1>0, <2>0, <2>6 DEF DropCloses, CloseNative, Goto, callVars
    <2>7. CASE DropPolls(t)
        BY <1>0, <2>0, <2>7 DEF DropPolls, Goto, callVars
    <2>8. CASE Destroy(t)
        BY Zenon, <1>0, <2>0, <2>8 DEF Destroy, Goto
    <2> QED
        BY <1>1, <2>1, <2>2, <2>3, <2>4, <2>5, <2>6, <2>7, <2>8, ItemsMove
<1>2. ASSUME NEW t \in users, Borrowable, Call(t) PROVE Control'
    BY <1>0, <1>2 DEF Borrowable, Call, CloseQueue, CallPoll, CloseNative, Goto, callVars
<1>3. ASSUME NEW t \in users, BeginDrop(t) PROVE Control'
    BY <1>0, <1>3 DEF BeginDrop, Goto
<1>4. ASSUME Group PROVE Control'
    BY <1>0, <1>4 DEF Group, GroupAssigns, GroupRevokes, Leaves, callVars
<1>5. ASSUME \/ FatalError
             \/ \E p \in Partitions : Fetches(p)
             \/ \E kind \in {"commit", "error", "client", "ignored"} : Emits(kind)
      PROVE  Control'
    BY ZenonT(40), <1>0, <1>5 DEF FatalError, Fetches, Emits, callVars
<1> QED
    BY Zenon, <1>1, <1>2, <1>3, <1>4, <1>5 DEF Next

-----------------------------------------------------------------------------
(* There is one rebalance at a time *)

\* Steps that leave the rebalance alone: the queue keeps its rebalance events, and
\* the threads keep what they handle.
LEMMA RebalanceKept ==
    ASSUME Typed, OneEvent,
           UNCHANGED <<protocol, join, granted, assigned>>,
           \A t \in Threads : Handling(t)' => Handling(t) /\ event'[t] = event[t],
           \/ queue' = queue
           \/ queue' = <<>>
           \/ \E e \in EventType : Push(e) /\ e.kind \notin Rebalances
           \/ \E t, kinds : Take(t, kinds)
    PROVE  OneEvent'
<1>1. Len(queue) \in Nat
    BY DEF Typed
<1>3. \A t \in Threads :
         Handling(t)' => Handling(t) /\ event'[t].kind \in Rebalances /\ Fits(event'[t])
    BY Zenon DEF OneEvent
<1>4. ASSUME NEW d \in {0, 1},
             \A i \in 1..Len(queue') :
                 Waiting(i)' => i + d \in 1..Len(queue) /\ queue'[i] = queue[i + d]
      PROVE  OneEvent'
    <2>1. \A i \in 1..Len(queue') : Waiting(i)' => Waiting(i + d) /\ Fits(queue'[i])
        BY Zenon, <1>4 DEF OneEvent, Waiting
    <2>2. \A i, j \in 1..Len(queue') : Waiting(i)' /\ Waiting(j)' => i = j
        <3> SUFFICES ASSUME NEW i \in 1..Len(queue'), NEW j \in 1..Len(queue'),
                            Waiting(i)', Waiting(j)'
                     PROVE  i = j
            OBVIOUS
        <3>1. i + d = j + d
            BY Zenon, <1>4, <2>1 DEF OneEvent
        <3>2. i \in Int /\ j \in Int /\ d \in Int
            OBVIOUS
        <3> QED
            BY <3>1, <3>2
    <2>3. \A i \in 1..Len(queue'), t \in Threads : ~(Waiting(i)' /\ Handling(t)')
        BY Zenon, <1>3, <1>4, <2>1 DEF OneEvent
    <2>4. (\A i \in 1..Len(queue) : Waiting(i) => Fits(queue[i]))'
        BY Zenon, <2>1 DEF Fits, Cooperative
    <2>5. (\A t \in Threads : Handling(t) => event[t].kind \in Rebalances /\ Fits(event[t]))'
        BY Zenon, <1>3 DEF Fits, Cooperative
    <2>6. /\ \A t, u \in Threads : Handling(t)' /\ Handling(u)' => t = u
          /\ join' = "steady" => assigned' = granted'
        BY Zenon, <1>3 DEF OneEvent
    <2> QED
        BY Zenon, <2>2, <2>3, <2>4, <2>5, <2>6 DEF OneEvent
<1>5. CASE queue' = queue
    <2>1. \A i \in 1..Len(queue') : i + 0 \in 1..Len(queue) /\ queue'[i] = queue[i + 0]
        BY <1>1, <1>5
    <2> QED
        BY Zenon, <1>4, <2>1
<1>6. CASE queue' = <<>>
    BY <1>4, <1>6
<1>7. ASSUME NEW e \in EventType, Push(e), e.kind \notin Rebalances PROVE OneEvent'
    <2>1. \A i \in 1..Len(queue') :
             Waiting(i)' => i + 0 \in 1..Len(queue) /\ queue'[i] = queue[i + 0]
        BY <1>7, Pushed DEF Waiting
    <2> QED
        BY Zenon, <1>4, <2>1
<1>8. ASSUME NEW t, NEW kinds, Take(t, kinds) PROVE OneEvent'
    <2>1. \A i \in 1..Len(queue') : i + 1 \in 1..Len(queue) /\ queue'[i] = queue[i + 1]
        BY <1>8, Taken
    <2> QED
        BY Zenon, <1>4, <2>1
<1> QED
    BY Zenon, <1>5, <1>6, <1>7, <1>8

\* The group starts a rebalance when none is under way.
LEMMA RebalanceStarts ==
    ASSUME Typed, OneEvent, NEW e \in EventType, Push(e), join = "steady",
           e.kind \in Rebalances, join' = e.kind,
           UNCHANGED <<at, event>>,
           Fits(e)'
    PROVE  OneEvent'
<1>1. Len(queue) \in Nat
    BY DEF Typed
<1>2. \A i \in 1..Len(queue) : ~Waiting(i)
    BY Zenon DEF OneEvent, Waiting, Fits, Rebalances
<1>3. \A t \in Threads : ~Handling(t)
    BY Zenon DEF OneEvent, Fits, Rebalances
<1>4. \A i \in 1..Len(queue') : Waiting(i)' => i = Len(queue) + 1 /\ queue'[i] = e
    BY <1>1, <1>2, Pushed DEF Waiting
<1>5. \A t \in Threads : ~Handling(t)'
    BY Zenon, <1>3 DEF Handling
<1>6. (\A i \in 1..Len(queue) : Waiting(i) => Fits(queue[i]))'
    BY Zenon, <1>4 DEF Fits, Cooperative
<1>7. \A i, j \in 1..Len(queue') : Waiting(i)' /\ Waiting(j)' => i = j
    BY Zenon, <1>4
<1>8. join' # "steady"
    BY Zenon DEF Rebalances
<1> QED
    BY Zenon, <1>5, <1>6, <1>7, <1>8 DEF OneEvent

\* A thread takes the rebalance event from the queue.
LEMMA RebalanceTaken ==
    ASSUME Typed, Control, OneEvent, NEW t \in Threads, PollRebalance(t), protocol' = protocol
    PROVE  OneEvent'
<1>1. /\ queue[1] = Head(queue) /\ queue[1].kind \in Rebalances
      /\ Len(queue) \in Nat \ {0} /\ Len(queue') = Len(queue) - 1
      /\ \A i \in 1..Len(queue') : queue'[i] = queue[i + 1]
    BY Zenon, Taken DEF PollRebalance
<1>2. 1 \in 1..Len(queue) /\ Waiting(1) /\ Fits(queue[1])
    BY <1>1 DEF Waiting, OneEvent
<1>3. \A i \in 1..Len(queue') : ~Waiting(i)'
    <2> SUFFICES ASSUME NEW i \in 1..Len(queue'), Waiting(i)' PROVE FALSE
        OBVIOUS
    <2>1. i + 1 \in 1..Len(queue) /\ Waiting(i + 1)
        BY <1>1 DEF Waiting
    <2>2. i + 1 = 1
        BY Zenon, <1>2, <2>1 DEF OneEvent
    <2> QED
        BY <2>2
<1>4. \A u \in Threads : ~Handling(u)
    BY Zenon, <1>2 DEF OneEvent
<1>6. \A u \in Threads : Handling(u)' => u = t /\ event'[u] = queue[1]
    BY Zenon, <1>1, <1>4 DEF PollRebalance, Goto, Handling, Control, Typed
<1>7. (\A u \in Threads : Handling(u) => event[u].kind \in Rebalances /\ Fits(event[u]))'
    BY Zenon, <1>1, <1>2, <1>6 DEF Fits, Cooperative, PollRebalance, groupVars
<1>8. join' = "steady" => assigned' = granted'
    BY Zenon DEF OneEvent, PollRebalance, groupVars
<1>9. \A u, v \in Threads : Handling(u)' /\ Handling(v)' => u = v
    BY Zenon, <1>6
<1> QED
    BY Zenon, <1>3, <1>7, <1>8, <1>9 DEF OneEvent

\* The assignment the handler makes is what the group has given to the member.
LEMMA RebalanceExecuted ==
    ASSUME Typed, Control, OneEvent, NEW t \in Threads, Execute(t), protocol' = protocol
    PROVE  OneEvent'
<1>1. Handling(t) /\ event[t].kind \in Rebalances /\ Fits(event[t])
    BY Zenon DEF OneEvent, Execute, Handling
<1>2. PICK ps : Assign(ps)
    BY Zenon DEF Execute
<1>3. \A i \in 1..Len(queue') : ~Waiting(i)'
    BY Zenon, <1>1, <1>2, Marked DEF OneEvent
<1>4. \A u \in Threads : ~Handling(u)'
    BY Zenon, <1>1 DEF Execute, Goto, Handling, Control, OneEvent
<1>5. assigned' = granted'
    <2>1. event[t].kind = join /\ join \in Rebalances /\ granted' = granted
        BY Zenon, <1>1 DEF Fits, Execute
    <2>2. CASE join = "assign"
        BY Zenon, <1>1, <2>1, <2>2 DEF Fits, Execute, Assign, Cooperative
    <2>3. CASE join = "revoke"
        BY Zenon, <1>1, <2>1, <2>3 DEF Fits, Execute, Assign, Cooperative
    <2> QED
        BY Zenon, <2>1, <2>2, <2>3 DEF Rebalances
<1> QED
    BY Zenon, <1>3, <1>4, <1>5 DEF OneEvent

LEMMA OneEventStep == Typed /\ Control /\ OneEvent /\ Next => OneEvent'
<1> SUFFICES ASSUME Typed, Control, OneEvent, Next PROVE OneEvent'
    OBVIOUS
<1>0. users \subseteq Threads /\ protocol' = protocol
    BY Zenon DEF Typed, Next, setup
<1>1. ASSUME NEW t \in users, Step(t) PROVE OneEvent'
    <2>0. t \in Threads
        BY Zenon, <1>0
    <2>1. CASE PollItem(t)
        <3>1. \A u \in Threads : Handling(u)' => Handling(u) /\ event'[u] = event[u]
            BY Zenon, <2>0, <2>1 DEF PollItem, Return, Goto, Handling, Control
        <3> QED
            BY Zenon, <1>0, <2>1, <3>1, RebalanceKept DEF PollItem, groupVars
    <2>2. CASE PollOutdated(t) \/ PollIgnored(t)
        <3>1. \A u \in Threads : Handling(u)' => Handling(u) /\ event'[u] = event[u]
            BY Zenon, <2>2 DEF PollOutdated, PollIgnored, Handling
        <3> QED
            BY Zenon, <1>0, <2>2, <3>1, RebalanceKept DEF PollOutdated, PollIgnored, groupVars
    <2>3. CASE PollClient(t)
        <3>1. \A u \in Threads : Handling(u)' => Handling(u) /\ event'[u] = event[u]
            BY <2>0, <2>3 DEF PollClient, Return, Goto, Handling, Control
        <3> QED
            BY Zenon, <1>0, <2>3, <3>1, RebalanceKept DEF PollClient, groupVars
    <2>4. CASE PollCommit(t)
        <3>1. \A u \in Threads : Handling(u)' => Handling(u) /\ event'[u] = event[u]
            BY Zenon, <2>0, <2>4 DEF PollCommit, Goto, Handling, Control
        <3> QED
            BY Zenon, <1>0, <2>4, <3>1, RebalanceKept DEF PollCommit, groupVars
    <2>5. CASE PollNone(t)
        <3>1. \A u \in Threads : Handling(u)' => Handling(u) /\ event'[u] = event[u]
            BY Zenon, <2>0, <2>5 DEF PollNone, Return, Goto, Handling, Control
        <3> QED
            BY Zenon, <1>0, <2>5, <3>1, RebalanceKept DEF PollNone, groupVars
    <2>6. CASE PollRebalance(t)
        BY Zenon, <1>0, <2>0, <2>6, RebalanceTaken
    <2>7. CASE PreReturns(t)
        <3>1. \A u \in Threads : Handling(u)' => Handling(u) /\ event'[u] = event[u]
            BY SMTT(30), <2>0, <2>7 DEF PreReturns, Goto, Handling, Control
        <3> QED
            BY Zenon, <1>0, <2>7, <3>1, RebalanceKept DEF PreReturns, groupVars
    <2>8. CASE Execute(t)
        BY <1>0, <2>0, <2>8, RebalanceExecuted
    <2>9. CASE PostReturns(t)
        <3>1. \A u \in Threads : Handling(u)' => Handling(u) /\ event'[u] = event[u]
            BY Zenon, <2>0, <2>9 DEF PostReturns, Goto, Handling, Control, Typed
        <3> QED
            BY Zenon, <1>0, <2>9, <3>1, RebalanceKept DEF PostReturns, groupVars
    <2>10. CASE Served(t)
        <3>1. \A u \in Threads : Handling(u)' => Handling(u) /\ event'[u] = event[u]
            BY <2>0, <2>10 DEF Served, Return, Goto, Handling, Control
        <3> QED
            BY Zenon, <1>0, <2>10, <3>1, RebalanceKept DEF Served, groupVars
    <2>11. CASE DropCloses(t) \/ DropPolls(t)
        <3>1. \A u \in Threads : Handling(u)' => Handling(u) /\ event'[u] = event[u]
            BY SMTT(30), <2>0, <2>11 DEF DropCloses, DropPolls, Goto, Handling, Control
        <3> QED
            BY Zenon, <1>0, <2>11, <3>1, RebalanceKept DEF DropCloses, DropPolls, groupVars
    <2>12. CASE Destroy(t)
        <3>1. \A u \in Threads : Handling(u)' => Handling(u) /\ event'[u] = event[u]
            BY Zenon, <2>0, <2>12 DEF Destroy, Goto, Handling, Control
        <3> QED
            BY Zenon, <1>0, <2>12, <3>1, RebalanceKept DEF Destroy, groupVars
    <2> QED
        BY SMTT(30), <1>1, <2>1, <2>2, <2>3, <2>4, <2>5, <2>6, <2>7, <2>8, <2>9, <2>10, <2>11,
           <2>12, ItemsMove
<1>2. ASSUME NEW t \in users, Call(t) \/ BeginDrop(t) PROVE OneEvent'
    <2>1. \A u \in Threads : Handling(u)' => Handling(u) /\ event'[u] = event[u]
        BY <1>0, <1>2 DEF Call, CallPoll, CloseQueue, BeginDrop, Goto, Handling, Control
    <2> QED
        BY Zenon, <1>0, <1>2, <2>1, RebalanceKept DEF Call, CallPoll, CloseQueue, BeginDrop, groupVars
<1>3. ASSUME NEW ps \in SUBSET Partitions, GroupAssigns(ps) PROVE OneEvent'
    <2> DEFINE e == Event("assign", ps)
    <2>1. e \in EventType /\ e.kind = "assign" /\ e.parts = ps
        BY Zenon DEF Event, EventType, Kinds
    <2>2. /\ Push(e) /\ join = "steady" /\ join' = "assign" /\ UNCHANGED <<at, event, assigned>>
          /\ granted' = granted \cup ps /\ (Cooperative \/ granted = {})
        BY Zenon, <1>3 DEF GroupAssigns
    <2> HIDE DEF e
    <2>3. Fits(e)'
        BY Zenon, <1>0, <2>1, <2>2 DEF OneEvent, Fits, Cooperative
    <2> QED
        BY Zenon, <2>1, <2>2, <2>3, RebalanceStarts DEF Rebalances
<1>4. ASSUME NEW ps \in SUBSET Partitions, GroupRevokes(ps) PROVE OneEvent'
    <2> DEFINE e == Event("revoke", ps)
    <2>1. e \in EventType /\ e.kind = "revoke" /\ e.parts = ps
        BY Zenon DEF Event, EventType, Kinds
    <2>2. /\ Push(e) /\ join = "steady" /\ join' = "revoke" /\ UNCHANGED <<at, event, assigned>>
          /\ granted' = granted \ ps /\ (Cooperative \/ ps = granted)
        BY Zenon, <1>4 DEF GroupRevokes
    <2> HIDE DEF e
    <2>3. Fits(e)'
        BY Zenon, <1>0, <2>1, <2>2 DEF OneEvent, Fits, Cooperative
    <2> QED
        BY Zenon, <2>1, <2>2, <2>3, RebalanceStarts DEF Rebalances
<1>5. ASSUME Leaves PROVE OneEvent'
    <2>1. \A u \in Threads : Handling(u)' => Handling(u) /\ event'[u] = event[u]
        BY Zenon, <1>5 DEF Leaves, Handling
    <2> QED
        BY Zenon, <1>0, <1>5, <2>1, RebalanceKept DEF Leaves, groupVars
<1>6. ASSUME NEW e \in EventType, e.kind \notin Rebalances, Push(e),
             UNCHANGED <<join, granted, assigned, at, event>>
      PROVE  OneEvent'
    BY Zenon, <1>0, <1>6, RebalanceKept DEF Handling
<1>7. ASSUME \/ FatalError
             \/ \E p \in Partitions : Fetches(p)
             \/ \E kind \in {"commit", "error", "client", "ignored"} : Emits(kind)
      PROVE  OneEvent'
    <2>1. /\ \A p \in Partitions : /\ Event("message", {p}) \in EventType
                                   /\ Event("message", {p}).kind \notin Rebalances
          /\ \A kind \in {"commit", "error", "client", "ignored"} :
                 /\ Event(kind, {}) \in EventType
                 /\ Event(kind, {}).kind \notin Rebalances
        BY Zenon DEF Event, EventType, Kinds, Rebalances
    <2> QED
        BY Zenon, <1>6, <1>7, <2>1 DEF FatalError, Fetches, Emits, groupVars
<1> QED
    BY Zenon, <1>1, <1>2, <1>3, <1>4, <1>5, <1>7 DEF Next, Group

-----------------------------------------------------------------------------
(* The member leaves before the client is destroyed *)

LEMMA LeftStep == Typed /\ Control /\ OneEvent /\ Left /\ Next => Left'
<1> SUFFICES ASSUME Typed, Control, OneEvent, Left, Next PROVE Left'
    OBVIOUS
<1>0. users \subseteq Threads
    BY Zenon DEF Typed
<1>1. ASSUME NEW t \in users, Step(t) PROVE Left'
    <2>0. t \in Threads
        BY Zenon, <1>0
    <2>1. CASE PollItem(t) \/ PollClient(t) \/ PollNone(t)
        BY <2>0, <2>1 DEF PollItem, PollClient, PollNone, Return, Goto, groupVars, Left, Control
    <2>2. CASE PollOutdated(t) \/ PollIgnored(t)
        BY <2>2 DEF PollOutdated, PollIgnored, groupVars, Left
    <2>3. CASE PollCommit(t) \/ PollRebalance(t)
        BY <2>0, <2>3 DEF PollCommit, PollRebalance, Goto, groupVars, Left, Control
    <2>4. CASE PreReturns(t) \/ PostReturns(t)
        BY <2>0, <2>4 DEF PreReturns, PostReturns, Goto, groupVars, Left, Control
    <2>5. CASE Execute(t)
        <3>1. join \in Rebalances
            BY Zenon, <2>0, <2>5 DEF Execute, OneEvent, Handling, Fits
        <3>2. native \notin {"closed", "down"}
            BY Zenon, <2>0, <2>5, <3>1 DEF Execute, Left, Control, Rebalances
        <3> QED
            BY Zenon, <2>0, <2>5, <3>2 DEF Execute, Goto, Left, Control
    <2>6. CASE Served(t)
        BY Zenon, <2>0, <2>6 DEF Served, Return, Goto, groupVars, Left, Control
    <2>7. CASE DropCloses(t)
        BY Zenon, <2>0, <2>7 DEF DropCloses, CloseNative, Goto, groupVars, Left, Control
    <2>8. CASE DropPolls(t)
        BY Zenon, <2>0, <2>8 DEF DropPolls, Goto, groupVars, Left, Control
    <2>9. CASE Destroy(t)
        BY Zenon, <2>0, <2>9 DEF Destroy, Goto, groupVars, Left, Control
    <2> QED
        BY <1>1, <2>1, <2>2, <2>3, <2>4, <2>5, <2>6, <2>7, <2>8, <2>9, ItemsMove
<1>2. ASSUME NEW t \in users, Call(t) PROVE Left'
    BY <1>0, <1>2 DEF Call, CloseQueue, CallPoll, CloseNative, Goto, groupVars, Left, Control
<1>3. ASSUME NEW t \in users, BeginDrop(t) PROVE Left'
    BY Zenon, <1>0, <1>3 DEF BeginDrop, Goto, groupVars, Left, Control
<1>4. ASSUME NEW ps \in SUBSET Partitions, GroupAssigns(ps) \/ GroupRevokes(ps) PROVE Left'
    BY <1>4 DEF GroupAssigns, GroupRevokes, Left
<1>5. ASSUME Leaves PROVE Left'
    BY Zenon, <1>5 DEF Leaves, groupVars, Left, OneEvent
<1>6. ASSUME FatalError PROVE Left'
    BY Zenon, <1>6 DEF FatalError, Left
<1>7. ASSUME \/ \E p \in Partitions : Fetches(p)
             \/ \E kind \in {"commit", "error", "client", "ignored"} : Emits(kind)
      PROVE  Left'
    <2>1. UNCHANGED <<join, granted, fatal, assigned, native, at>>
        BY <1>7, Zenon DEF Fetches, Emits, groupVars
    <2> QED
        BY Zenon, <2>1 DEF Left
<1> QED
    BY <1>1, <1>2, <1>3, <1>4, <1>5, <1>6, <1>7 DEF Next, Group

-----------------------------------------------------------------------------
(* The callbacks of a single poller *)

LEMMA ToldStep == Typed /\ Control /\ OneEvent /\ Told /\ Next => Told'
<1> SUFFICES ASSUME Typed, Control, OneEvent, Told, Next PROVE Told'
    OBVIOUS
<1>a. \A t, u \in Threads : users' = {t} /\ (Handling(u)' \/ at'[u] = "post") => u = t
    BY Zenon, ControlStep DEF Control, Handling
<1> SUFFICES ASSUME NEW t \in Threads, users' = {t}
             PROVE  /\ told' \subseteq assigned'
                    /\ Handling(t)' /\ event'[t].kind = "revoke"
                          => told' \cap event'[t].parts = {}
                    /\ at'[t] = "post" /\ event'[t].kind = "assign"
                          => event'[t].parts \subseteq assigned'
    BY Zenon, <1>a DEF Told, Handling
<1>0. users = {t} /\ protocol' = protocol
    BY Zenon DEF Next, setup
<1>1. /\ told \subseteq assigned
      /\ Handling(t) /\ event[t].kind = "revoke" => told \cap event[t].parts = {}
      /\ at[t] = "post" /\ event[t].kind = "assign" => event[t].parts \subseteq assigned
    BY Zenon, <1>0 DEF Told
<1>2. CASE Step(t)
    <2>1. CASE PollItem(t) \/ PollClient(t) \/ PollNone(t)
        BY SMTT(30), <1>1, <2>1 DEF PollItem, PollClient, PollNone, Return, Goto, Control, Handling
    <2>2. CASE PollOutdated(t) \/ PollIgnored(t)
        BY Zenon, <1>1, <2>2 DEF PollOutdated, PollIgnored, Handling
    <2>3. CASE PollCommit(t)
        BY Zenon, <1>1, <2>3 DEF PollCommit, Goto, Control, Handling
    <2>4. CASE PollRebalance(t)
        BY Zenon, <1>1, <2>4 DEF PollRebalance, Goto, Control, Typed, Handling
    <2>5. CASE PreReturns(t)
        BY Zenon, <1>1, <2>5 DEF PreReturns, Goto, Control, Handling
    <2>6. CASE Execute(t)
        <3>1. Handling(t) /\ event[t].kind \in Rebalances /\ Fits(event[t]) /\ at'[t] = "post"
            BY Zenon, <2>6 DEF Execute, Goto, Control, OneEvent, Handling
        <3>2. event[t].kind = join /\ told' = told /\ event' = event
            BY Zenon, <2>6, <3>1 DEF Fits, Execute
        <3>3. CASE join = "assign"
            BY SMTT(30), <1>1, <2>6, <3>1, <3>2, <3>3
               DEF Fits, Execute, Assign, Cooperative, Handling
        <3>4. CASE join = "revoke"
            BY <1>1, <2>6, <3>1, <3>2, <3>4 DEF Fits, Execute, Assign, Cooperative, Handling
        <3> QED
            BY Zenon, <3>1, <3>2, <3>3, <3>4 DEF Rebalances
    <2>7. CASE PostReturns(t)
        BY Zenon, <1>1, <2>7 DEF PostReturns, Goto, Control, Typed, Handling
    <2>8. CASE Served(t)
        BY <1>1, <2>8 DEF Served, Return, Goto, Control, Handling
    <2>9. CASE DropCloses(t) \/ DropPolls(t)
        BY Zenon, <1>1, <2>9 DEF DropCloses, DropPolls, Goto, Control, Handling
    <2>10. CASE Destroy(t)
        BY Zenon, <1>1, <2>10 DEF Destroy, Goto, Control, Handling
    <2> QED
        BY ZenonT(40), <1>0, <1>2, <2>1, <2>2, <2>3, <2>4, <2>5, <2>6, <2>7, <2>8, <2>9,
           <2>10, ItemsMove
<1>3. CASE Call(t) \/ BeginDrop(t)
    BY <1>1, <1>3 DEF Call, CallPoll, CloseQueue, BeginDrop, Goto, Control, Handling
<1>4. CASE Group
    BY Zenon, <1>1, <1>4 DEF Group, GroupAssigns, GroupRevokes, Leaves, Handling
<1>5. CASE \/ FatalError
           \/ \E p \in Partitions : Fetches(p)
           \/ \E kind \in {"commit", "error", "client", "ignored"} : Emits(kind)
    BY Zenon, <1>1, <1>5 DEF FatalError, Fetches, Emits, Handling
<1> QED
    BY Zenon, <1>0, <1>2, <1>3, <1>4, <1>5 DEF Next

-----------------------------------------------------------------------------
(* Theorems *)

\* In every behaviour there is one rebalance at a time, in the queue or in the
\* hands of one thread, and it asks for what the group has given to the member.
THEOREM ConsumerInvariance == Spec => []IInv
<1>1. Init => IInv
    BY Zenon, InitIInv
<1>2. IInv /\ [Next]_vars => IInv'
    <2> SUFFICES ASSUME IInv, [Next]_vars PROVE IInv'
        OBVIOUS
    <2>1. CASE Next
        BY Zenon, <2>1, TypedStep, ControlStep, OneEventStep, LeftStep, ToldStep DEF IInv
    <2>2. CASE UNCHANGED vars
        BY ZenonT(40), <2>2
           DEF vars, setup, groupVars, callVars, IInv, Typed, Control, OneEvent, Left, Told,
               Handling, Waiting, Fits, Cooperative
    <2> QED
        BY Zenon, <2>1, <2>2
<1> QED
    BY <1>1, <1>2, PTL DEF Spec

\* Between rebalances librdkafka fetches exactly what the group has given to the
\* member, whichever threads ran the handler of rebalance events.
THEOREM FetchesWhatIsGranted == Spec => []AssignmentIsGranted
<1>1. IInv => AssignmentIsGranted
    BY Zenon DEF IInv, OneEvent, AssignmentIsGranted
<1> QED
    BY <1>1, ConsumerInvariance, PTL

\* The callbacks of a consumer polled by one thread never tell the context that it
\* has a partition that is not assigned.
THEOREM CallbacksTellTheTruth == Spec => []ToldIsAssigned
<1>1. IInv => ToldIsAssigned
    <2> SUFFICES ASSUME IInv, Cardinality(users) = 1 PROVE told \subseteq assigned
        BY Zenon DEF ToldIsAssigned
    <2>1. users \subseteq Threads /\ IsFiniteSet(users)
        BY Zenon, ConsumerAssumption, FS_Subset DEF IInv, Typed
    <2>2. PICK t : users = {t}
        BY Zenon, <2>1, FS_Singleton
    <2> QED
        BY Zenon, <2>1, <2>2 DEF IInv, Told
<1> QED
    BY <1>1, ConsumerInvariance, PTL

\* drop() destroys the client of a member that has left the group and has nothing
\* assigned, unless a fatal error kept it from closing.
THEOREM LeavesBeforeDestroy == Spec => []DestroyedAfterLeaving
<1>1. IInv => DestroyedAfterLeaving
    BY Zenon DEF IInv, Left, DestroyedAfterLeaving
<1> QED
    BY <1>1, ConsumerInvariance, PTL

=============================================================================
