------------------------ MODULE ConsumerOffsetsProofs ------------------------
(***************************************************************************)
(* Proofs about ConsumerOffsets, for any number of members and messages    *)
(* and any number of faults: no message is lost by an application that     *)
(* acknowledges after processing, and none is processed twice as long as   *)
(* nothing fails; one that lets librdkafka store offsets on delivery loses *)
(* at most one message for every fault.                                    *)
(***************************************************************************)
EXTENDS ConsumerOffsets, FiniteSetTheorems, TLAPS

\* Every message before x is in P.
Covered(x, P) == \A o \in 0..End : o < x => o \in P

\* The message an application works on is the last one delivered to it, and it
\* keeps the partition as long as it works on it.
Held ==
    \A c \in Members :
        doing[c] # "idle" =>
            /\ Assigned(c)
            /\ hand[c] \in 0..(End - 1)
            /\ next[c] = hand[c] + 1
            /\ pos[c] = hand[c] + 1

\* Applications of the asynchronous style never acknowledge anything.
NeverCommits ==
    style = "async" =>
        /\ committed = NoOffset
        /\ \A c \in Members : stored[c] = NoOffset /\ pending[c] = <<>>

\* No offset a member has, or has sent, is past an unprocessed message, except
\* for its position while it works on the message before it.
Sound(c) ==
    /\ Covered(stored[c], processed)
    /\ \A i \in 1..Len(pending[c]) : Covered(pending[c][i], processed)
    /\ doing[c] = "idle" => Covered(next[c], processed) /\ Covered(pos[c], processed)
    /\ doing[c] = "work" => Covered(hand[c], processed)
    /\ doing[c] = "done" => Covered(hand[c] + 1, processed)

Acknowledges == style \in {"at_least_once", "explicit"}

AllSound ==
    Acknowledges =>
        /\ Covered(committed, processed)
        /\ \A c \in Members : Sound(c)

\* The part of TypeOK that the argument needs.
Typed ==
    /\ committed \in Offsets
    /\ faults \in Nat
    /\ life \in [Members -> {"off", "idle", "subscribed", "member", "manual"}]
    /\ doing \in [Members -> {"idle", "work", "done"}]
    /\ next \in [Members -> 0..End]
    /\ pos \in [Members -> Offsets]
    /\ stored \in [Members -> Offsets]
    /\ hand \in [Members -> Offsets]
    /\ pending \in [Members -> Seq(0..End)]

IInv == style \in Styles /\ Typed /\ Held /\ NeverCommits /\ AllSound

Before(x) == {o \in 0..End : o < x}

\* The message a member has not acknowledged yet, and has not processed yet.
Unacknowledged(c) == IF doing[c] = "idle" THEN next[c] ELSE hand[c]
Unprocessed(c) == IF doing[c] = "work" THEN hand[c] ELSE next[c]

\* As long as nothing fails, a member that has the partition is the one the
\* coordinator knows of; all it has received is processed, and all it has
\* processed is stored, up to the message in its hands.
Steady(c) ==
    /\ life[c] = "member" <=> owner = c
    /\ life[c] # "member" => stored[c] = NoOffset /\ pending[c] = <<>>
    /\ owner = c =>
         /\ processed = Before(Unprocessed(c))
         /\ IF stored[c] = NoOffset THEN Unacknowledged(c) = Start /\ pending[c] = <<>>
                                    ELSE Unacknowledged(c) = stored[c]

Handover ==
    style = "at_least_once" /\ faults = 0 =>
        /\ again = {}
        /\ tasks = [c \in Members |-> {}]
        /\ \A c \in Members : Steady(c) /\ life[c] # "manual"
        /\ owner = Nobody => processed = Before(Start)

\* A message an application is working on.
Working(o) == \E c \in Members : doing[c] = "work" /\ hand[c] = o

\* The messages that are processed or will be, unless a crash comes first, and
\* those of G.
Excused(G) == {o \in 0..End : o \in processed \/ Working(o) \/ o \in G}

\* The offsets of a member, stored, next and on their way, are not past a message
\* outside P.
Within(s, n, p, P) ==
    /\ Covered(s, P)
    /\ Covered(n, P)
    /\ \A i \in 1..Len(p) : Covered(p[i], P)

\* The messages an application that stores offsets on delivery has lost: those
\* of G, one for every crash at most.
Losses ==
    style = "simple" =>
        \E G \in SUBSET (0..End) :
            /\ Cardinality(G) <= faults
            /\ Covered(committed, Excused(G))
            /\ \A c \in Members : Within(stored[c], next[c], pending[c], Excused(G))

-----------------------------------------------------------------------------
(* The inductive invariant *)

LEMMA InitIInv == Init => IInv
<1> SUFFICES ASSUME Init PROVE IInv
    OBVIOUS
<1> USE OffsetsAssumption
<1>1. <<>> \in Seq(0..End)
    OBVIOUS
<1>2. Typed
    <2>1. pending \in [Members -> Seq(0..End)]
        BY <1>1, Zenon DEF Init
    <2> QED
        BY <2>1 DEF Init, Typed, Offsets, NoOffset
<1>3. Held /\ NeverCommits
    BY Zenon DEF Init, Held, NeverCommits
<1>4. AllSound
    BY DEF Init, AllSound, Sound, Covered, NoOffset, Acknowledges
<1> QED
    BY Zenon, <1>2, <1>3, <1>4 DEF IInv, Init

\* The offsets of commits on their way stay in their range.
LEMMA PendingTyped ==
    ASSUME NEW S, NEW s \in Seq(S), NEW x \in S
    PROVE  /\ Append(s, x) \in Seq(S)
           /\ Len(Append(s, x)) = Len(s) + 1
           /\ Append(s, x)[Len(s) + 1] = x
           /\ \A i \in 1..Len(s) : Append(s, x)[i] = s[i]
OBVIOUS

LEMMA PendingShrinks ==
    ASSUME NEW S, NEW s \in Seq(S), s # <<>>
    PROVE  /\ Tail(s) \in Seq(S)
           /\ Len(s) \in Nat \ {0}
           /\ Head(s) = s[1]
           /\ Head(s) \in S
           /\ Len(Tail(s)) = Len(s) - 1
           /\ \A i \in 1..Len(Tail(s)) : Tail(s)[i] = s[i + 1]
OBVIOUS

\* The steps of a member, with those taken together that are treated alike.
LEMMA StepCases ==
    ASSUME Typed, NEW c \in Members, Loop(c) \/ Interlude(c) \/ Environment(c)
    PROVE  \/ Restart(c) \/ Subscribe(c) \/ Assign(c) \/ GroupAssigns(c)
           \/ Recv(c) \/ RecvDetached(c) \/ Process(c)
           \/ \E offset \in 0..End : TaskEnds(c, offset)
           \/ StoreOffset(c) \/ StoreOffsets(c)
           \/ \E mode \in Modes : CommitMessage(c, mode) \/ Commit(c, mode)
           \/ \E mode \in Modes : CommitPosition(c, mode) \/ CommitConsumerState(c, mode)
           \/ Resume(c) \/ Pause(c) \/ \E offset \in 0..End : Rewind(c, offset)
           \/ \E then \in {"idle", "subscribed"} : GiveBack(c, then)
           \/ Close(c) \/ Crash(c) \/ LearnsLoss(c) \/ Evict(c)
           \/ CommitArrives(c) \/ AutoCommit(c)
<1>1. SeekToCommitted(c) => \E offset \in 0..End : Rewind(c, offset)
    <2> SUFFICES ASSUME SeekToCommitted(c) PROVE committed \in 0..End
        BY Zenon DEF SeekToCommitted
    <2> QED
        BY Zenon DEF SeekToCommitted, Typed, Offsets
<1>2. \A t : SeekToTime(c, t) => \E offset \in 0..End : Rewind(c, offset)
    BY Zenon DEF SeekToTime
<1>3. Unsubscribe(c) \/ Unassign(c) \/ GroupRevokes(c) =>
         \E then \in {"idle", "subscribed"} : GiveBack(c, then)
    BY Zenon DEF Unsubscribe, Unassign, GroupRevokes
<1> QED
    BY Zenon, <1>1, <1>2, <1>3 DEF Loop, Interlude, Environment, Acknowledge, Seek

LEMMA CommitByTyped ==
    ASSUME Typed, NEW c \in Members, NEW x \in 0..End, NEW mode, CommitBy(c, x, mode)
    PROVE  /\ committed' \in Offsets
           /\ faults' \in Nat
           /\ pending' \in [Members -> Seq(0..End)]
           /\ UNCHANGED <<owner, life, next, pos, stored>>
<1> USE DEF Typed, Offsets
<1>1. CASE CommitSync(c, x)
    BY <1>1 DEF CommitSync, Commits, Fault, clientVars
<1>2. CASE CommitAsync(c, x)
    <2>1. Append(pending[c], x) \in Seq(0..End)
        BY Zenon, PendingTyped
    <2>2. pending' \in [Members -> Seq(0..End)]
        BY Zenon, <1>2, <2>1 DEF CommitAsync
    <2> QED
        BY Zenon, <1>2, <2>2 DEF CommitAsync, brokerVars
<1> QED
    BY Zenon, <1>1, <1>2 DEF CommitBy

LEMMA ForgetTyped ==
    ASSUME Typed, NEW c \in Members, ForgetPartition(c)
    PROVE  /\ next' \in [Members -> 0..End]
           /\ pos' \in [Members -> Offsets]
           /\ stored' \in [Members -> Offsets]
           /\ pending' \in [Members -> Seq(0..End)]
<1>1. <<>> \in Seq(0..End)
    OBVIOUS
<1>2. pending' \in [Members -> Seq(0..End)]
    BY Zenon, <1>1 DEF ForgetPartition, Typed
<1> QED
    BY <1>2, OffsetsAssumption DEF ForgetPartition, Typed, Offsets

LEMMA FinalCommitTyped ==
    ASSUME Typed, NEW c \in Members, FinalCommit(c)
    PROVE  committed' \in Offsets /\ faults' \in Nat
BY DEF FinalCommit, Commits, Fault, Typed, Offsets

LEMMA TypeStep == Typed /\ Held /\ Next => Typed'
<1> SUFFICES ASSUME Typed, Held, NEW c \in Members,
                    Loop(c) \/ Interlude(c) \/ Environment(c)
             PROVE  Typed'
    BY Zenon DEF Next
<1> USE OffsetsAssumption DEF Typed, Offsets
<1>0. Start \in 0..End
    BY DEF Start, NoOffset
<1>1. CASE Restart(c) \/ Subscribe(c)
    BY Zenon, <1>1 DEF Restart, Subscribe, brokerVars, appVars, boundVars
<1>2. CASE Assign(c)
    BY Zenon, <1>2, <1>0 DEF Assign, TakePartition, appVars, boundVars
<1>3. CASE GroupAssigns(c)
    BY Zenon, <1>3, <1>0 DEF GroupAssigns, TakePartition, appVars, boundVars
<1>4. CASE Recv(c)
    BY <1>4 DEF Recv, Delivered, brokerVars, boundVars
<1>5. CASE RecvDetached(c)
    BY <1>5 DEF RecvDetached, Delivered, brokerVars, boundVars
<1>6. CASE Process(c) \/ \E offset \in 0..End : TaskEnds(c, offset)
    BY Zenon, <1>6 DEF Process, TaskEnds, brokerVars, clientVars, boundVars
<1>7. CASE StoreOffset(c) \/ StoreOffsets(c)
    <2>1. Store(c, hand[c] + 1) /\ Acknowledged(c)
        BY Zenon, <1>7 DEF StoreOffset, StoreOffsets
    <2>2. hand[c] + 1 \in 0..End
        <3>1. hand[c] \in 0..(End - 1)
            BY Zenon, <2>1 DEF Acknowledged, Held
        <3> QED
            BY <3>1
    <2>3. hand' \in [Members -> Offsets] /\ doing' \in [Members -> {"idle", "work", "done"}]
        BY <2>1 DEF Acknowledged, NoOffset
    <2>4. stored' \in [Members -> Offsets]
        BY Zenon, <2>1, <2>2 DEF Store
    <2> QED
        BY Zenon, <2>1, <2>3, <2>4 DEF Store, Acknowledged, brokerVars
<1>8. CASE \E mode \in Modes : CommitMessage(c, mode) \/ Commit(c, mode)
    <2> PICK mode \in Modes : CommitMessage(c, mode) \/ Commit(c, mode)
        BY Zenon, <1>8
    <2>1. CommitBy(c, hand[c] + 1, mode) /\ Acknowledged(c)
        BY Zenon DEF CommitMessage, Commit
    <2>2. hand[c] + 1 \in 0..End
        <3>1. hand[c] \in 0..(End - 1)
            BY Zenon, <2>1 DEF Acknowledged, Held
        <3> QED
            BY <3>1
    <2>3. hand' \in [Members -> Offsets] /\ doing' \in [Members -> {"idle", "work", "done"}]
        BY <2>1 DEF Acknowledged, NoOffset
    <2> QED
        BY Zenon, <2>1, <2>2, <2>3, CommitByTyped
<1>9. CASE \E mode \in Modes : CommitPosition(c, mode) \/ CommitConsumerState(c, mode)
    <2> PICK mode \in Modes : CommitPosition(c, mode) \/ CommitConsumerState(c, mode)
        BY <1>9
    <2>1. PICK x \in 0..End : CommitBy(c, x, mode)
        BY Zenon DEF CommitPosition, CommitConsumerState
    <2>2. UNCHANGED <<hand, doing>>
        BY Zenon DEF CommitPosition, CommitConsumerState, appVars
    <2> QED
        BY Zenon, <2>1, <2>2, CommitByTyped
<1>10. CASE Resume(c) \/ Pause(c) \/ \E offset \in 0..End : Rewind(c, offset)
    <2>1. CASE Resume(c)
        BY Zenon, <2>1 DEF Resume, brokerVars, appVars, boundVars
    <2>2. CASE Pause(c)
        BY Zenon, <2>2 DEF Pause, brokerVars, appVars, boundVars, UserCall
    <2>3. CASE \E offset \in 0..End : Rewind(c, offset)
        <3>1. PICK offset \in 0..End : Rewind(c, offset)
            BY Zenon, <2>3
        <3>2. next' \in [Members -> 0..End]
            BY Zenon, <3>1 DEF Rewind
        <3> QED
            BY Zenon, <3>1, <3>2 DEF Rewind, brokerVars, appVars, UserCall
    <2> QED
        BY Zenon, <1>10, <2>1, <2>2, <2>3
<1>11. CASE \E then \in {"idle", "subscribed"} : GiveBack(c, then)
    BY Zenon, <1>11, ForgetTyped, FinalCommitTyped DEF GiveBack, appVars
<1>12. CASE Close(c) \/ Crash(c)
    <2>1. /\ committed' \in Offsets
          /\ faults' \in Nat
          /\ ForgetPartition(c)
        BY <1>12, FinalCommitTyped DEF Close, Crash, Fault
    <2>2. life' = [life EXCEPT ![c] = "off"] /\ Abandon(c)
        BY Zenon, <1>12 DEF Close, Crash
    <2>3. /\ life' \in [Members -> {"off", "idle", "subscribed", "member", "manual"}]
          /\ hand' \in [Members -> Offsets]
          /\ doing' \in [Members -> {"idle", "work", "done"}]
        BY <2>2 DEF Abandon, NoOffset
    <2> QED
        BY Zenon, <2>1, <2>3, ForgetTyped
<1>13. CASE LearnsLoss(c)
    BY Zenon, <1>13, ForgetTyped DEF LearnsLoss, brokerVars, appVars, boundVars
<1>14. CASE Evict(c)
    BY <1>14 DEF Evict, Fault, clientVars, appVars
<1>15. CASE CommitArrives(c)
    <2>1. Tail(pending[c]) \in Seq(0..End) /\ Head(pending[c]) \in 0..End
        BY Zenon, <1>15, PendingShrinks DEF CommitArrives
    <2>2. committed' \in Offsets /\ faults' \in Nat
        BY <1>15, <2>1 DEF CommitArrives, Commits, Fault
    <2>3. pending' \in [Members -> Seq(0..End)]
        BY Zenon, <1>15, <2>1 DEF CommitArrives
    <2> QED
        BY Zenon, <1>15, <2>2, <2>3 DEF CommitArrives, appVars
<1>16. CASE AutoCommit(c)
    <2>1. stored[c] \in 0..End /\ CommitBy(c, stored[c], "Async")
        BY Zenon, <1>16 DEF AutoCommit, CommitBy
    <2> QED
        BY Zenon, <1>16, <2>1, CommitByTyped DEF AutoCommit, appVars
<1> QED
    BY Zenon, <1>1, <1>2, <1>3, <1>4, <1>5, <1>6, <1>7, <1>8, <1>9, <1>10, <1>11, <1>12, <1>13,
       <1>14, <1>15, <1>16, StepCases

LEMMA HeldStep == Typed /\ Held /\ Next => Held'
<1> SUFFICES ASSUME Typed, Held, NEW c \in Members,
                    Loop(c) \/ Interlude(c) \/ Environment(c)
             PROVE  Held'
    BY Zenon DEF Next
<1> USE OffsetsAssumption DEF Typed, Offsets, Held, Assigned
<1>1. CASE Restart(c) \/ Subscribe(c)
    BY Zenon, <1>1 DEF Restart, Subscribe, brokerVars, appVars, boundVars
<1>2. CASE Assign(c) \/ GroupAssigns(c)
    BY Zenon, <1>2 DEF Assign, GroupAssigns, TakePartition, appVars, boundVars
<1>3. CASE Recv(c)
    BY <1>3 DEF Recv, Delivered, Idle, brokerVars, boundVars
<1>4. CASE RecvDetached(c)
    BY Zenon, <1>4 DEF RecvDetached, Delivered, Idle, brokerVars, boundVars
<1>5. CASE Process(c) \/ \E offset \in 0..End : TaskEnds(c, offset)
    BY Zenon, <1>5 DEF Process, TaskEnds, brokerVars, clientVars, boundVars
<1>6. CASE StoreOffset(c) \/ StoreOffsets(c)
    BY Zenon, <1>6 DEF StoreOffset, StoreOffsets, Acknowledged, Store, brokerVars
<1>7. CASE \E mode \in Modes : CommitMessage(c, mode) \/ Commit(c, mode)
    BY Zenon, <1>7 DEF CommitMessage, Commit, Acknowledged, CommitBy, CommitSync, CommitAsync, clientVars
<1>8. CASE \E mode \in Modes : CommitPosition(c, mode) \/ CommitConsumerState(c, mode)
    BY Zenon, <1>8 DEF CommitPosition, CommitConsumerState, CommitBy, CommitSync, CommitAsync,
                clientVars, appVars
<1>9. CASE Resume(c) \/ Pause(c) \/ \E offset \in 0..End : Rewind(c, offset)
    BY Zenon, <1>9 DEF Resume, Pause, Rewind, Idle, brokerVars, appVars, boundVars, UserCall
<1>10. CASE \E then \in {"idle", "subscribed"} : GiveBack(c, then)
    BY Zenon, <1>10 DEF GiveBack, ForgetPartition, Idle, appVars
<1>11. CASE Close(c)
    BY Zenon, <1>11 DEF Close, ForgetPartition, Abandon
<1>12. CASE Crash(c)
    BY Zenon, <1>12 DEF Crash, ForgetPartition, Abandon
<1>13. CASE LearnsLoss(c)
    BY Zenon, <1>13 DEF LearnsLoss, ForgetPartition, Idle, brokerVars, appVars, boundVars
<1>14. CASE Evict(c)
    BY Zenon, <1>14 DEF Evict, clientVars, appVars
<1>15. CASE CommitArrives(c) \/ AutoCommit(c)
    BY Zenon, <1>15 DEF CommitArrives, AutoCommit, CommitAsync, appVars
<1> QED
    BY Zenon, <1>1, <1>2, <1>3, <1>4, <1>5, <1>6, <1>7, <1>8, <1>9, <1>10, <1>11, <1>12, <1>13,
       <1>14, <1>15, StepCases

\* No step changes what kind of application it is.
LEMMA StyleKept == Typed /\ Next => style' = style
<1> SUFFICES ASSUME Typed, NEW c \in Members, Loop(c) \/ Interlude(c) \/ Environment(c)
             PROVE  style' = style
    BY Zenon DEF Next
<1>1. CASE Restart(c) \/ Subscribe(c) \/ Assign(c) \/ GroupAssigns(c)
    BY Zenon, <1>1 DEF Restart, Subscribe, Assign, GroupAssigns, TakePartition
<1>2. CASE \/ Recv(c) \/ RecvDetached(c) \/ Process(c)
           \/ \E offset \in 0..End : TaskEnds(c, offset)
    BY Zenon, <1>2 DEF Recv, RecvDetached, Delivered, Process, TaskEnds
<1>3. CASE StoreOffset(c) \/ StoreOffsets(c)
    BY Zenon, <1>3 DEF StoreOffset, StoreOffsets, Acknowledged
<1>4. CASE \E mode \in Modes : \/ CommitMessage(c, mode) \/ Commit(c, mode)
                               \/ CommitPosition(c, mode) \/ CommitConsumerState(c, mode)
    BY Zenon, <1>4 DEF CommitMessage, Commit, CommitPosition, CommitConsumerState, Acknowledged
<1>5. CASE \/ Resume(c) \/ Pause(c) \/ LearnsLoss(c)
           \/ \E offset \in 0..End : Rewind(c, offset)
    BY Zenon, <1>5 DEF Resume, Pause, LearnsLoss, Rewind
<1>6. CASE Close(c) \/ \E then \in {"idle", "subscribed"} : GiveBack(c, then)
    BY Zenon, <1>6 DEF Close, GiveBack
<1>7. CASE Crash(c) \/ Evict(c) \/ CommitArrives(c) \/ AutoCommit(c)
    BY Zenon, <1>7 DEF Crash, Evict, CommitArrives, AutoCommit
<1> QED
    BY Zenon, <1>1, <1>2, <1>3, <1>4, <1>5, <1>6, <1>7, StepCases

LEMMA AsyncStep == Typed /\ NeverCommits /\ Next => NeverCommits'
<1> SUFFICES ASSUME Typed, NeverCommits, NEW c \in Members,
                    Loop(c) \/ Interlude(c) \/ Environment(c), style = "async"
             PROVE  /\ committed' = NoOffset
                    /\ \A d \in Members : stored'[d] = NoOffset /\ pending'[d] = <<>>
    BY Zenon, StyleKept DEF Next, NeverCommits
<1> USE DEF NeverCommits, Typed
<1>1. CASE Restart(c) \/ Subscribe(c) \/ Assign(c) \/ GroupAssigns(c)
    BY Zenon, <1>1 DEF Restart, Subscribe, Assign, GroupAssigns, TakePartition, brokerVars
<1>2. CASE Recv(c) \/ RecvDetached(c)
    BY Zenon, <1>2 DEF Recv, RecvDetached, Delivered, AutoStores, brokerVars
<1>3. CASE Process(c) \/ \E offset \in 0..End : TaskEnds(c, offset)
    BY Zenon, <1>3 DEF Process, TaskEnds, brokerVars, clientVars
<1>4. CASE StoreOffset(c) \/ StoreOffsets(c)
    BY Zenon, <1>4 DEF StoreOffset, StoreOffsets
<1>5. CASE \E mode \in Modes : CommitMessage(c, mode) \/ Commit(c, mode)
    BY Zenon, <1>5 DEF CommitMessage, Commit
<1>6. CASE \E mode \in Modes : CommitPosition(c, mode) \/ CommitConsumerState(c, mode)
    BY Zenon, <1>6 DEF CommitPosition, CommitConsumerState
<1>7. CASE Resume(c) \/ Pause(c) \/ \E offset \in 0..End : Rewind(c, offset)
    BY Zenon, <1>7 DEF Resume, Pause, Rewind, brokerVars
<1>8. CASE \E then \in {"idle", "subscribed"} : GiveBack(c, then)
    BY Zenon, <1>8 DEF GiveBack, FinalCommit, ForgetPartition, AutoCommits
<1>9. CASE Close(c)
    BY Zenon, <1>9 DEF Close, FinalCommit, ForgetPartition, AutoCommits
<1>10. CASE Crash(c)
    BY Zenon, <1>10 DEF Crash, ForgetPartition
<1>11. CASE LearnsLoss(c)
    BY Zenon, <1>11 DEF LearnsLoss, ForgetPartition, brokerVars
<1>12. CASE Evict(c)
    BY Zenon, <1>12 DEF Evict, clientVars
<1>13. CASE CommitArrives(c) \/ AutoCommit(c)
    BY Zenon, <1>13 DEF CommitArrives, AutoCommit, AutoCommits
<1> QED
    BY ZenonT(40), <1>1, <1>2, <1>3, <1>4, <1>5, <1>6, <1>7, <1>8, <1>9, <1>10, <1>11, <1>12, <1>13,
       StepCases

LEMMA CoveredFacts ==
    ASSUME NEW P, NEW Q, P \subseteq Q
    PROVE  /\ Covered(NoOffset, P) /\ Covered(0, P)
           /\ \A x \in Offsets : Covered(x, P) => Covered(x, Q)
           /\ \A x, y \in 0..End : x <= y /\ Covered(y, P) => Covered(x, P)
           /\ \A x \in 0..End : Covered(x, P) => Covered(x + 1, P \cup {x})
BY OffsetsAssumption DEF Covered, Offsets, NoOffset

LEMMA PendingOffsets ==
    ASSUME Typed, NEW d \in Members
    PROVE  \A i \in 1..Len(pending[d]) : pending[d][i] \in Offsets
<1>1. pending[d] \in Seq(0..End)
    BY Zenon DEF Typed
<1>2. ASSUME NEW S, NEW s \in Seq(S), NEW i \in 1..Len(s) PROVE s[i] \in S
    OBVIOUS
<1>3. \A i \in 1..Len(pending[d]) : pending[d][i] \in 0..End
    BY Zenon, <1>1, <1>2
<1> QED
    BY Zenon, <1>3 DEF Offsets

\* Members that take no part in a step stay sound, as processed only grows.
LEMMA SoundStays ==
    ASSUME Typed, NEW d \in Members, Sound(d), processed \subseteq processed',
           next'[d] = next[d], pos'[d] = pos[d], stored'[d] = stored[d],
           pending'[d] = pending[d], hand'[d] = hand[d], doing'[d] = doing[d],
           doing[d] # "idle" => hand[d] \in 0..(End - 1)
    PROVE  Sound(d)'
<1>1. \A x \in Offsets : Covered(x, processed) => Covered(x, processed')
    BY Zenon, CoveredFacts
<1>2. \A i \in 1..Len(pending[d]) : pending[d][i] \in Offsets
    BY Zenon, PendingOffsets
<1>3. next[d] \in Offsets /\ pos[d] \in Offsets /\ stored[d] \in Offsets
    BY Zenon DEF Typed, Offsets
<1>4. doing[d] # "idle" => hand[d] \in Offsets /\ hand[d] + 1 \in Offsets
    BY OffsetsAssumption DEF Offsets
<1> QED
    BY Zenon, <1>1, <1>2, <1>3, <1>4 DEF Sound

\* A commit of a covered offset, on its way or done.
LEMMA SoundCommit ==
    ASSUME Typed, NEW c \in Members, NEW x \in 0..End, NEW mode, CommitBy(c, x, mode),
           Covered(committed, processed), Covered(x, processed),
           \A i \in 1..Len(pending[c]) : Covered(pending[c][i], processed)
    PROVE  /\ Covered(committed', processed)
           /\ \A i \in 1..Len(pending'[c]) : Covered(pending'[c][i], processed)
           /\ \A d \in Members \ {c} : pending'[d] = pending[d]
<1>1. CASE CommitSync(c, x)
    BY Zenon, <1>1 DEF CommitSync, Commits, clientVars
<1>2. CASE CommitAsync(c, x)
    <2>1. pending' = [pending EXCEPT ![c] = Append(@, x)] /\ committed' = committed
        BY Zenon, <1>2 DEF CommitAsync, brokerVars
    <2>2. pending[c] \in Seq(0..End) /\ pending'[c] = Append(pending[c], x)
        BY Zenon, <2>1 DEF Typed
    <2>3. /\ Len(pending'[c]) = Len(pending[c]) + 1
          /\ pending'[c][Len(pending[c]) + 1] = x
          /\ \A i \in 1..Len(pending[c]) : pending'[c][i] = pending[c][i]
        BY <2>2, PendingTyped
    <2>4. Len(pending[c]) \in Nat
        BY <2>2
    <2> QED
        BY <2>1, <2>3, <2>4 DEF Typed
<1> QED
    BY Zenon, <1>1, <1>2 DEF CommitBy

LEMMA SoundForget ==
    ASSUME Typed, NEW c \in Members, ForgetPartition(c), doing'[c] = "idle",
           UNCHANGED processed
    PROVE  Sound(c)' /\ \A d \in Members \ {c} :
               /\ next'[d] = next[d] /\ pos'[d] = pos[d]
               /\ stored'[d] = stored[d] /\ pending'[d] = pending[d]
<1>1. Covered(0, processed) /\ Covered(NoOffset, processed)
    BY Zenon, CoveredFacts
<1>2. next'[c] = 0 /\ pos'[c] = NoOffset /\ stored'[c] = NoOffset /\ pending'[c] = <<>>
    BY Zenon DEF ForgetPartition, Typed
<1> QED
    BY <1>1, <1>2 DEF Sound, ForgetPartition, Typed

LEMMA FinalCommitSound ==
    ASSUME NEW c \in Members, FinalCommit(c), Covered(committed, processed),
           Covered(stored[c], processed)
    PROVE  Covered(committed', processed)
BY Zenon DEF FinalCommit, Commits

LEMMA SoundStep == Typed /\ Held /\ AllSound /\ Next => AllSound'
<1> SUFFICES ASSUME Typed, Held, AllSound, NEW c \in Members,
                    Loop(c) \/ Interlude(c) \/ Environment(c), Acknowledges
             PROVE  Covered(committed', processed') /\ \A d \in Members : Sound(d)'
    BY Zenon, StyleKept DEF Next, AllSound, Acknowledges
<1>0. Covered(committed, processed) /\ \A d \in Members : Sound(d)
    BY Zenon DEF AllSound
<1>h. \A d \in Members : doing[d] # "idle" => hand[d] \in 0..(End - 1)
    BY Zenon DEF Held
<1>s. ASSUME Covered(committed', processed'), processed \subseteq processed', Sound(c)',
             \A d \in Members \ {c} :
                 /\ next'[d] = next[d] /\ pos'[d] = pos[d] /\ stored'[d] = stored[d]
                 /\ pending'[d] = pending[d] /\ hand'[d] = hand[d] /\ doing'[d] = doing[d]
      PROVE  Covered(committed', processed') /\ \A d \in Members : Sound(d)'
    BY Zenon, <1>0, <1>h, <1>s, SoundStays
<1>1. CASE Restart(c) \/ Subscribe(c) \/ Evict(c)
    BY Zenon, <1>1, <1>0, <1>h, SoundStays
       DEF Restart, Subscribe, Evict, brokerVars, clientVars, appVars
<1>2. CASE Assign(c) \/ GroupAssigns(c)
    <2>1. TakePartition(c, "manual") \/ TakePartition(c, "member")
        BY Zenon, <1>2 DEF Assign, GroupAssigns
    <2>2. doing[c] = "idle"
        BY Zenon, <1>2 DEF Assign, GroupAssigns, Idle, Held, Assigned
    <2>3. Covered(Start, processed)
        BY Zenon, <1>0, CoveredFacts DEF Start
    <2>4. /\ next' = [next EXCEPT ![c] = Start]
          /\ UNCHANGED <<committed, pos, stored, pending, hand, doing, processed>>
        BY Zenon, <2>1 DEF TakePartition, appVars
    <2>5. Sound(c)'
        BY Zenon, <1>0, <2>2, <2>3, <2>4 DEF Sound, Typed
    <2> QED
        BY Zenon, <1>0, <1>s, <2>4, <2>5 DEF Typed
<1>3. CASE Recv(c)
    <2>1. /\ next' = [next EXCEPT ![c] = @ + 1] /\ pos' = [pos EXCEPT ![c] = next[c] + 1]
          /\ hand' = [hand EXCEPT ![c] = next[c]] /\ doing' = [doing EXCEPT ![c] = "work"]
          /\ UNCHANGED <<committed, stored, pending, processed>>
          /\ doing[c] = "idle"
        BY Zenon, <1>3 DEF Recv, Delivered, AutoStores, Idle, Acknowledges, brokerVars
    <2>2. Sound(c)'
        BY Zenon, <1>0, <2>1 DEF Sound, Typed
    <2> QED
        BY Zenon, <1>0, <1>s, <2>1, <2>2 DEF Typed
<1>4. CASE RecvDetached(c)
    BY Zenon, <1>4 DEF RecvDetached, Acknowledges
<1>5. CASE Process(c)
    <2>1. /\ processed' = processed \cup {hand[c]}
          /\ doing[c] = "work" /\ doing' = [doing EXCEPT ![c] = "done"]
          /\ UNCHANGED <<committed, next, pos, stored, pending, hand>>
        BY Zenon, <1>5 DEF Process, Processed, brokerVars, clientVars
    <2>2. hand[c] \in 0..End /\ Covered(hand[c], processed)
        BY <1>0, <1>h, <2>1, OffsetsAssumption DEF Sound
    <2>3. Covered(hand[c] + 1, processed')
        BY Zenon, <2>1, <2>2, CoveredFacts
    <2>4. \A x \in Offsets : Covered(x, processed) => Covered(x, processed')
        BY Zenon, <2>1, CoveredFacts
    <2>5. Sound(c)'
        <3>1. \A i \in 1..Len(pending[c]) : pending[c][i] \in Offsets
            BY Zenon, PendingOffsets
        <3>2. stored[c] \in Offsets
            BY Zenon DEF Typed
        <3>3. doing'[c] = "done"
            BY Zenon, <2>1 DEF Typed
        <3> QED
            BY Zenon, <1>0, <2>1, <2>3, <2>4, <3>1, <3>2, <3>3 DEF Sound
    <2>6. Covered(committed', processed')
        BY Zenon, <1>0, <2>1, <2>4 DEF Typed
    <2> QED
        BY Zenon, <1>s, <2>1, <2>5, <2>6 DEF Typed
<1>6. CASE \E offset \in 0..End : TaskEnds(c, offset)
    <2>1. processed \subseteq processed' /\ UNCHANGED <<committed, next, pos, stored, pending, hand, doing>>
        BY Zenon, <1>6 DEF TaskEnds, Processed, brokerVars, clientVars
    <2>2. Covered(committed', processed')
        BY Zenon, <1>0, <2>1, CoveredFacts DEF Typed
    <2> QED
        BY Zenon, <1>0, <1>h, <2>1, <2>2, SoundStays
<1>7. CASE StoreOffset(c) \/ StoreOffsets(c)
    <2>1. /\ stored' = [stored EXCEPT ![c] = hand[c] + 1] \/ stored' = stored
          /\ doing[c] = "done" /\ doing' = [doing EXCEPT ![c] = "idle"]
          /\ hand' = [hand EXCEPT ![c] = NoOffset]
          /\ UNCHANGED <<committed, next, pos, pending, processed>>
        BY Zenon, <1>7 DEF StoreOffset, StoreOffsets, Acknowledged, Store, brokerVars
    <2>2. Covered(hand[c] + 1, processed) /\ next[c] = hand[c] + 1 /\ pos[c] = hand[c] + 1
        BY Zenon, <1>0, <2>1 DEF Sound, Held
    <2>3. Sound(c)'
        BY Zenon, <1>0, <2>1, <2>2 DEF Sound, Typed
    <2> QED
        BY Zenon, <1>0, <1>s, <2>1, <2>3 DEF Typed
<1>8. CASE \E mode \in Modes : CommitMessage(c, mode) \/ Commit(c, mode)
    <2> PICK mode \in Modes : CommitMessage(c, mode) \/ Commit(c, mode)
        BY Zenon, <1>8
    <2>1. /\ CommitBy(c, hand[c] + 1, mode)
          /\ doing[c] = "done" /\ doing' = [doing EXCEPT ![c] = "idle"]
          /\ hand' = [hand EXCEPT ![c] = NoOffset]
          /\ UNCHANGED processed
        BY Zenon DEF CommitMessage, Commit, Acknowledged
    <2>2. Covered(hand[c] + 1, processed) /\ next[c] = hand[c] + 1 /\ pos[c] = hand[c] + 1
        BY Zenon, <1>0, <2>1 DEF Sound, Held
    <2>3. hand[c] + 1 \in 0..End
        BY Zenon, <2>2 DEF Typed
    <2>4. UNCHANGED <<next, pos, stored>>
        BY Zenon, <2>1, <2>3, CommitByTyped
    <2>5. /\ Covered(committed', processed)
          /\ \A i \in 1..Len(pending'[c]) : Covered(pending'[c][i], processed)
          /\ \A d \in Members \ {c} : pending'[d] = pending[d]
        BY ZenonT(40), <1>0, <2>1, <2>2, <2>3, SoundCommit DEF Sound
    <2>6. Sound(c)'
        BY ZenonT(40), <1>0, <2>1, <2>2, <2>4, <2>5 DEF Sound, Typed
    <2> QED
        BY Zenon, <1>s, <2>1, <2>4, <2>5, <2>6 DEF Typed
<1>9. CASE \E mode \in Modes : CommitPosition(c, mode) \/ CommitConsumerState(c, mode)
    <2> PICK mode \in Modes : CommitPosition(c, mode) \/ CommitConsumerState(c, mode)
        BY <1>9
    <2>1. PICK x \in 0..End : CommitBy(c, x, mode) /\ Covered(x, processed)
        BY Zenon, <1>0 DEF CommitPosition, CommitConsumerState, Sound, Idle, Typed, Offsets
    <2>2. UNCHANGED <<hand, doing, processed>>
        BY Zenon DEF CommitPosition, CommitConsumerState, appVars
    <2>4. UNCHANGED <<next, pos, stored>>
        BY Zenon, <2>1, CommitByTyped
    <2>5. /\ Covered(committed', processed)
          /\ \A i \in 1..Len(pending'[c]) : Covered(pending'[c][i], processed)
          /\ \A d \in Members \ {c} : pending'[d] = pending[d]
        BY Zenon, <1>0, <2>1, SoundCommit DEF Sound
    <2>6. Sound(c)'
        BY ZenonT(40), <1>0, <2>2, <2>4, <2>5 DEF Sound
    <2> QED
        BY Zenon, <1>s, <2>2, <2>4, <2>5, <2>6
<1>10. CASE Resume(c) \/ Pause(c)
    BY Zenon, <1>10, <1>0, <1>h, SoundStays DEF Resume, Pause, brokerVars, appVars
<1>11. CASE \E offset \in 0..End : Rewind(c, offset)
    <2> PICK offset \in 0..End : Rewind(c, offset)
        BY Zenon, <1>11
    <2>1. /\ next' = [next EXCEPT ![c] = offset] /\ offset \in 0..next[c] /\ doing[c] = "idle"
          /\ UNCHANGED <<committed, pos, stored, pending, hand, doing, processed>>
        BY Zenon DEF Rewind, Idle, brokerVars, appVars
    <2>2. Covered(offset, processed)
        <3>1. next[c] \in 0..End /\ offset <= next[c] /\ Covered(next[c], processed)
            BY <1>0, <2>1 DEF Sound, Typed
        <3>2. \A x, y \in 0..End : x <= y /\ Covered(y, processed) => Covered(x, processed)
            BY Zenon, CoveredFacts
        <3> QED
            BY Zenon, <3>1, <3>2
    <2>3. Sound(c)'
        BY Zenon, <1>0, <2>1, <2>2 DEF Sound, Typed
    <2> QED
        BY Zenon, <1>0, <1>s, <2>1, <2>3 DEF Typed
<1>12. CASE \/ \E then \in {"idle", "subscribed"} : GiveBack(c, then)
            \/ Close(c) \/ Crash(c) \/ LearnsLoss(c)
    <2>1. ForgetPartition(c) /\ doing'[c] = "idle" /\ UNCHANGED processed
        BY Zenon, <1>12 DEF GiveBack, Close, Crash, LearnsLoss, Abandon, Idle, appVars, Typed
    <2>2. \A d \in Members \ {c} : hand'[d] = hand[d] /\ doing'[d] = doing[d]
        BY Zenon, <1>12 DEF GiveBack, Close, Crash, LearnsLoss, Abandon, appVars, Typed
    <2>3. FinalCommit(c) \/ UNCHANGED committed
        BY Zenon, <1>12 DEF GiveBack, Close, Crash, LearnsLoss, brokerVars
    <2>4. Covered(committed', processed')
        BY Zenon, <1>0, <2>1, <2>3, FinalCommitSound DEF Sound
    <2> QED
        BY Zenon, <1>s, <2>1, <2>2, <2>4, SoundForget
<1>13. CASE CommitArrives(c)
    <2>1. /\ pending[c] # <<>> /\ pending' = [pending EXCEPT ![c] = Tail(@)]
          /\ Commits(c, Head(pending[c])) \/ UNCHANGED committed
          /\ UNCHANGED <<next, pos, stored, hand, doing, processed>>
        BY Zenon, <1>13 DEF CommitArrives, appVars
    <2>2. pending[c] \in Seq(0..End) /\ pending'[c] = Tail(pending[c])
        BY Zenon, <2>1 DEF Typed
    <2>3. /\ Len(pending[c]) \in Nat \ {0}
          /\ Head(pending[c]) = pending[c][1]
          /\ Len(pending'[c]) = Len(pending[c]) - 1
          /\ \A i \in 1..Len(pending'[c]) : pending'[c][i] = pending[c][i + 1]
        <3> DEFINE s == pending[c]
        <3>1. s \in Seq(0..End) /\ s # <<>>
            BY Zenon, <2>1, <2>2
        <3> HIDE DEF s
        <3>2. /\ Len(s) \in Nat \ {0} /\ Head(s) = s[1] /\ Len(Tail(s)) = Len(s) - 1
              /\ \A i \in 1..Len(Tail(s)) : Tail(s)[i] = s[i + 1]
            BY Zenon, <3>1, PendingShrinks
        <3> QED
            BY Zenon, <2>2, <3>2 DEF s
    <2>4. Covered(committed', processed')
        BY <1>0, <2>1, <2>3 DEF Commits, Sound
    <2>5. Sound(c)'
        BY SMTT(30), <1>0, <2>1, <2>3 DEF Sound
    <2> QED
        BY Zenon, <1>s, <2>1, <2>4, <2>5 DEF Typed
<1>14. CASE AutoCommit(c)
    <2>1. stored[c] \in 0..End /\ CommitBy(c, stored[c], "Async")
        BY Zenon, <1>14 DEF AutoCommit, CommitBy, Typed, Offsets
    <2>2. UNCHANGED <<next, pos, stored, hand, doing, processed>>
        BY Zenon, <1>14, <2>1, CommitByTyped DEF AutoCommit, appVars
    <2>3. /\ Covered(committed', processed)
          /\ \A i \in 1..Len(pending'[c]) : Covered(pending'[c][i], processed)
          /\ \A d \in Members \ {c} : pending'[d] = pending[d]
        BY Zenon, <1>0, <2>1, SoundCommit DEF Sound
    <2>4. Sound(c)'
        BY Zenon, <1>0, <2>2, <2>3 DEF Sound
    <2> QED
        BY Zenon, <1>s, <2>2, <2>3, <2>4
<1> QED
    BY Zenon, <1>1, <1>2, <1>3, <1>4, <1>5, <1>6, <1>7, <1>8, <1>9, <1>10, <1>11, <1>12, <1>13,
       <1>14, StepCases

-----------------------------------------------------------------------------
(* Nothing is processed twice while nothing fails *)

LEMMA InitHandover == Init => Handover
BY OffsetsAssumption DEF Init, Handover, Steady, Before, Start, NoOffset

\* The members that do not have the partition stay as they are.
LEMMA SteadyOthers ==
    ASSUME NEW d \in Members, Steady(d), owner # d, owner' # d,
           life'[d] = life[d], stored'[d] = stored[d], pending'[d] = pending[d]
    PROVE  Steady(d)'
BY Zenon DEF Steady

LEMMA SteadySame ==
    ASSUME NEW d \in Members, Steady(d), owner' = owner, Start' = Start, processed' = processed,
           UNCHANGED <<life[d], stored[d], pending[d], next[d], hand[d], doing[d]>>
    PROVE  Steady(d)'
BY Zenon DEF Steady, Unacknowledged, Unprocessed, Before

\* The messages before the one after o are o and those before it.
LEMMA BeforeNext ==
    ASSUME NEW o \in 0..(End - 1)
    PROVE  o \notin Before(o) /\ Before(o) \cup {o} = Before(o + 1)
BY OffsetsAssumption DEF Before

LEMMA FaultsKept ==
    ASSUME Typed, NEW c \in Members, Loop(c) \/ Interlude(c) \/ Environment(c)
    PROVE  faults' = faults \/ Fault
<1>1. CASE Restart(c) \/ Subscribe(c) \/ Assign(c) \/ GroupAssigns(c)
    BY Zenon, <1>1 DEF Restart, Subscribe, Assign, GroupAssigns, TakePartition, boundVars
<1>2. CASE \/ Recv(c) \/ RecvDetached(c) \/ Process(c)
           \/ \E offset \in 0..End : TaskEnds(c, offset)
    BY Zenon, <1>2 DEF Recv, RecvDetached, Delivered, Process, TaskEnds, boundVars
<1>3. CASE StoreOffset(c) \/ StoreOffsets(c)
    BY Zenon, <1>3 DEF StoreOffset, StoreOffsets, Store
<1>4. CASE \E mode \in Modes : \/ CommitMessage(c, mode) \/ Commit(c, mode)
                               \/ CommitPosition(c, mode) \/ CommitConsumerState(c, mode)
    BY Zenon, <1>4 DEF CommitMessage, Commit, CommitPosition, CommitConsumerState, CommitBy,
                CommitSync, CommitAsync
<1>5. CASE \/ Resume(c) \/ Pause(c) \/ LearnsLoss(c)
           \/ \E offset \in 0..End : Rewind(c, offset)
    BY Zenon, <1>5 DEF Resume, Pause, LearnsLoss, Rewind, boundVars
<1>6. CASE Close(c) \/ \E then \in {"idle", "subscribed"} : GiveBack(c, then)
    BY ZenonT(40), <1>6 DEF Close, GiveBack, FinalCommit
<1>7. CASE Crash(c) \/ Evict(c) \/ CommitArrives(c) \/ AutoCommit(c)
    BY Zenon, <1>7 DEF Crash, Evict, CommitArrives, AutoCommit, CommitAsync
<1> QED
    BY Zenon, <1>1, <1>2, <1>3, <1>4, <1>5, <1>6, <1>7, StepCases

LEMMA HandoverStep == Typed /\ Held /\ Handover /\ Next => Handover'
<1> SUFFICES ASSUME Typed, Held, Handover, NEW c \in Members,
                    Loop(c) \/ Interlude(c) \/ Environment(c),
                    style = "at_least_once", faults' = 0
             PROVE  /\ again' = {}
                    /\ tasks' = [d \in Members |-> {}]
                    /\ \A d \in Members : Steady(d)' /\ life'[d] # "manual"
                    /\ owner' = Nobody => processed' = Before(Start)'
    BY Zenon, StyleKept DEF Next, Handover
<1>f. ~Fault
    BY DEF Fault, Typed
<1>z. faults = 0
    BY Zenon, <1>f, FaultsKept
<1>0. /\ again = {}
      /\ tasks = [d \in Members |-> {}]
      /\ \A d \in Members : Steady(d) /\ life[d] # "manual"
      /\ owner = Nobody => processed = Before(Start)
    BY Zenon, <1>z DEF Handover
<1>m. life[c] = "member" <=> owner = c
    BY Zenon, <1>0 DEF Steady
<1>s. ASSUME owner = c \/ owner = Nobody, owner' = c \/ owner' = Nobody, Steady(c)',
             \A d \in Members \ {c} :
                 life'[d] = life[d] /\ stored'[d] = stored[d] /\ pending'[d] = pending[d]
      PROVE  \A d \in Members : Steady(d)'
    BY Zenon, <1>0, <1>s, SteadyOthers, OffsetsAssumption
<1>1. CASE Restart(c) \/ Subscribe(c)
    <2>1. /\ life[c] # "member" /\ life'[c] # "member" /\ life'[c] # "manual"
          /\ \A d \in Members \ {c} : life'[d] = life[d]
          /\ UNCHANGED <<committed, owner, next, stored, pending, hand, doing, tasks, processed, again>>
        BY Zenon, <1>1 DEF Restart, Subscribe, brokerVars, appVars, Typed
    <2>2. Start' = Start
        BY Zenon, <2>1 DEF Start
    <2> QED
        BY Zenon, <1>0, <2>1, <2>2 DEF Steady, Unacknowledged, Unprocessed, Before
<1>2. CASE GroupAssigns(c)
    <2>1. /\ owner = Nobody /\ owner' = c /\ doing[c] = "idle" /\ life[c] # "member"
          /\ life' = [life EXCEPT ![c] = "member"] /\ next' = [next EXCEPT ![c] = Start]
          /\ UNCHANGED <<committed, stored, pending, hand, doing, tasks, processed, again>>
        BY Zenon, <1>2 DEF GroupAssigns, TakePartition, Idle, appVars
    <2>2. next'[c] = Start /\ Start' = Start /\ life'[c] = "member"
        BY Zenon, <2>1 DEF Start, Typed
    <2>3. stored[c] = NoOffset /\ pending[c] = <<>> /\ processed = Before(Start)
        BY Zenon, <1>0, <2>1 DEF Steady
    <2>4. Steady(c)'
        BY Zenon, <2>1, <2>2, <2>3 DEF Steady, Unacknowledged, Unprocessed, Before
    <2>5. \A d \in Members : Steady(d)'
        BY Zenon, <1>s, <2>1, <2>4 DEF Typed
    <2> QED
        BY Zenon, <1>0, <2>1, <2>5, OffsetsAssumption DEF Typed
<1>3. CASE Recv(c)
    <2>1. /\ next' = [next EXCEPT ![c] = @ + 1]
          /\ hand' = [hand EXCEPT ![c] = next[c]] /\ doing' = [doing EXCEPT ![c] = "work"]
          /\ UNCHANGED <<committed, owner, life, stored, pending, tasks, processed, again>>
          /\ doing[c] = "idle" /\ life[c] = "member"
        BY Zenon, <1>3, <1>0 DEF Recv, Delivered, AutoStores, Idle, Assigned, brokerVars
    <2>2. hand'[c] = next[c] /\ doing'[c] = "work" /\ Start' = Start /\ owner = c
        BY Zenon, <1>m, <2>1 DEF Start, Typed
    <2>3. Steady(c)'
        BY Zenon, <1>0, <2>1, <2>2 DEF Steady, Unacknowledged, Unprocessed, Before
    <2> QED
        BY Zenon, <1>0, <1>s, <2>1, <2>2, <2>3, OffsetsAssumption
<1>4. CASE Process(c)
    <2>1. /\ doing[c] = "work" /\ doing' = [doing EXCEPT ![c] = "done"] /\ Processed(hand[c])
          /\ UNCHANGED <<committed, owner, life, next, stored, pending, hand, tasks>>
        BY Zenon, <1>4 DEF Process, brokerVars, clientVars
    <2>2. /\ doing'[c] = "done" /\ Start' = Start /\ owner = c
          /\ next[c] = hand[c] + 1 /\ hand[c] \in 0..(End - 1)
        BY Zenon, <1>0, <1>m, <2>1 DEF Start, Typed, Held, Assigned
    <2>3. processed = Before(hand[c])
        BY Zenon, <1>0, <2>1, <2>2 DEF Steady, Unprocessed
    <2>4. again' = {} /\ processed' = Before(next[c])
        BY Zenon, <1>0, <2>1, <2>2, <2>3, BeforeNext DEF Processed
    <2>5. Steady(c)'
        BY Zenon, <1>0, <2>1, <2>2, <2>4 DEF Steady, Unacknowledged, Unprocessed, Before
    <2> QED
        BY Zenon, <1>0, <1>s, <2>1, <2>2, <2>4, <2>5, OffsetsAssumption
<1>5. CASE StoreOffset(c)
    <2>1. /\ doing[c] = "done" /\ doing' = [doing EXCEPT ![c] = "idle"]
          /\ Store(c, hand[c] + 1)
          /\ UNCHANGED <<tasks, processed, again>>
        BY Zenon, <1>5 DEF StoreOffset, Acknowledged
    <2>2. /\ Assigned(c) /\ owner = c /\ next[c] = hand[c] + 1 /\ hand[c] \in 0..(End - 1)
        BY ZenonT(40), <1>0, <1>m, <2>1 DEF Held, Assigned
    <2>3. /\ stored' = [stored EXCEPT ![c] = next[c]]
          /\ UNCHANGED <<committed, owner, life, next, pending>>
        BY Zenon, <2>1, <2>2 DEF Store, brokerVars
    <2>4. stored'[c] = next[c] /\ doing'[c] = "idle" /\ stored'[c] # NoOffset
        BY <2>1, <2>2, <2>3 DEF Typed, NoOffset
    <2>5. Steady(c)'
        BY Zenon, <1>0, <2>1, <2>2, <2>3, <2>4 DEF Steady, Unacknowledged, Unprocessed, Before
    <2> QED
        BY Zenon, <1>0, <1>s, <2>1, <2>2, <2>3, <2>5, OffsetsAssumption DEF Typed
<1>6. CASE \/ \E then \in {"idle", "subscribed"} : GiveBack(c, then)
           \/ Close(c)
    <2>1. /\ FinalCommit(c) /\ ForgetPartition(c) /\ UNCHANGED <<processed, again>>
          /\ owner' = IF owner = c THEN Nobody ELSE owner
          /\ doing[c] = "idle" \/ doing[c] = "work"
          /\ \E then \in {"off", "idle", "subscribed"} : life' = [life EXCEPT ![c] = then]
          /\ tasks' = tasks \/ tasks' = [tasks EXCEPT ![c] = {}]
        <3>1. CASE Close(c)
            BY Zenon, <3>1 DEF Close, Abandon, Idle
        <3>2. CASE \E then \in {"idle", "subscribed"} : GiveBack(c, then)
            BY ZenonT(40), <3>2 DEF GiveBack, Idle, appVars
        <3> QED
            BY Zenon, <1>6, <3>1, <3>2
    <2>t. tasks' = [d \in Members |-> {}]
        BY Zenon, <1>0, <2>1
    <2>2. /\ life'[c] # "member" /\ life'[c] # "manual"
          /\ stored'[c] = NoOffset /\ pending'[c] = <<>>
          /\ \A d \in Members \ {c} :
                 life'[d] = life[d] /\ stored'[d] = stored[d] /\ pending'[d] = pending[d]
        BY <2>1 DEF ForgetPartition, Typed
    <2>3. Steady(c)'
        BY Zenon, <2>1, <2>2, OffsetsAssumption DEF Steady
    <2>4. CASE owner = c
        <3>1. committed' = IF stored[c] # NoOffset THEN stored[c] ELSE committed
            BY ZenonT(40), <1>f, <1>m, <2>1, <2>4 DEF FinalCommit, Commits, AutoCommits
        <3>2. Start' = Unacknowledged(c)
            BY ZenonT(40), <1>0, <2>4, <3>1 DEF Start, Steady
        <3>3. processed = Before(Unacknowledged(c))
            BY Zenon, <1>0, <2>1, <2>4 DEF Steady, Unacknowledged, Unprocessed
        <3>4. processed' = Before(Start)'
            BY Zenon, <2>1, <3>2, <3>3 DEF Before
        <3> QED
            BY ZenonT(40), <1>0, <1>s, <2>t, <2>1, <2>2, <2>3, <2>4, <3>4
    <2>5. CASE owner # c
        <3>1. committed' = committed /\ owner' = owner
            BY Zenon, <1>f, <1>m, <2>1, <2>5 DEF FinalCommit
        <3>2. Start' = Start
            BY Zenon, <3>1 DEF Start
        <3>3. \A d \in Members \ {c} : UNCHANGED <<next[d], hand[d], doing[d]>>
            BY Zenon, <1>6 DEF GiveBack, Close, Abandon, ForgetPartition, appVars, Typed
        <3>4. \A d \in Members \ {c} : Steady(d)'
            BY Zenon, <1>0, <2>1, <2>2, <3>1, <3>2, <3>3, SteadySame
        <3> QED
            BY ZenonT(40), <1>0, <2>t, <2>1, <2>2, <2>3, <3>1, <3>2, <3>4 DEF Before
    <2> QED
        BY Zenon, <2>4, <2>5
<1>7. CASE CommitArrives(c)
    <2>1. /\ pending[c] # <<>> /\ pending' = [pending EXCEPT ![c] = Tail(@)]
          /\ UNCHANGED <<owner, life, next, stored, hand, doing, tasks, processed, again>>
        BY Zenon, <1>7 DEF CommitArrives, appVars
    <2>2. owner = c /\ stored[c] # NoOffset
        BY Zenon, <1>0, <1>m, <2>1 DEF Steady
    <2>3. Steady(c)'
        BY ZenonT(40), <1>0, <2>1, <2>2 DEF Steady, Unacknowledged, Unprocessed, Before
    <2> QED
        BY Zenon, <1>0, <1>s, <2>1, <2>2, <2>3, OffsetsAssumption DEF Typed
<1>8. CASE AutoCommit(c)
    <2>1. /\ stored[c] # NoOffset /\ life[c] = "member"
          /\ pending' = [pending EXCEPT ![c] = Append(@, stored[c])]
          /\ UNCHANGED <<committed, owner, life, next, stored, hand, doing, tasks, processed, again>>
        BY ZenonT(40), <1>8, <1>0 DEF AutoCommit, CommitAsync, Assigned, brokerVars, appVars
    <2>2. Steady(c)'
        BY Zenon, <1>0, <1>m, <2>1 DEF Steady, Unacknowledged, Unprocessed, Before
    <2> QED
        BY Zenon, <1>0, <1>m, <1>s, <2>1, <2>2, OffsetsAssumption DEF Typed
<1>9. CASE Resume(c)
    <2>1. UNCHANGED <<committed, owner, life, next, stored, pending, hand, doing, tasks, processed, again>>
        BY Zenon, <1>9 DEF Resume, brokerVars, appVars
    <2> QED
        BY Zenon, <1>0, <2>1 DEF Steady, Unacknowledged, Unprocessed, Before, Start
<1>10. ~LearnsLoss(c) /\ ~Evict(c) /\ ~Crash(c)
    BY Zenon, <1>f, <1>m DEF LearnsLoss, Evict, Crash
<1>11. \A offset \in 0..End : ~TaskEnds(c, offset) /\ ~Rewind(c, offset)
    BY Zenon, <1>0 DEF TaskEnds, Rewind
<1>12. ~Assign(c) /\ ~RecvDetached(c) /\ ~StoreOffsets(c) /\ ~Pause(c)
    BY ZenonT(40) DEF Assign, RecvDetached, StoreOffsets, Pause
<1>13. \A mode \in Modes : /\ ~CommitMessage(c, mode) /\ ~Commit(c, mode)
                           /\ ~CommitPosition(c, mode) /\ ~CommitConsumerState(c, mode)
    BY Zenon DEF CommitMessage, Commit, CommitPosition, CommitConsumerState
<1> QED
    BY Zenon, <1>1, <1>2, <1>3, <1>4, <1>5, <1>6, <1>7, <1>8, <1>9, <1>10, <1>11, <1>12, <1>13,
       StepCases

-----------------------------------------------------------------------------
(* Theorems *)

LEMMA Stutter ==
    /\ IInv /\ UNCHANGED vars => IInv'
    /\ Handover /\ UNCHANGED vars => Handover'
<1> USE DEF vars, brokerVars, clientVars, appVars, boundVars
<1>1. IInv /\ UNCHANGED vars => IInv'
    BY Zenon DEF IInv, Typed, Held, Assigned, NeverCommits, AllSound, Acknowledges, Sound, Covered
<1>2. Handover /\ UNCHANGED vars => Handover'
    BY Zenon DEF Handover, Steady, Unacknowledged, Unprocessed, Before, Start
<1> QED
    BY Zenon, <1>1, <1>2

\* The invariant of every execution, for any group, partition and faults.
-----------------------------------------------------------------------------
(* Applications that let librdkafka store offsets on delivery *)

\* A larger set covers as much.
LEMMA WithinMore ==
    ASSUME NEW P, NEW Q, P \subseteq Q
    PROVE  /\ \A x : Covered(x, P) => Covered(x, Q)
           /\ \A s, n, p : Within(s, n, p, P) => Within(s, n, p, Q)
BY Zenon DEF Covered, Within

\* A commit of an offset within P.
LEMMA CommitWithin ==
    ASSUME Typed, NEW c \in Members, NEW P, NEW x \in 0..End, CommitAsync(c, x),
           Covered(x, P), Within(stored[c], next[c], pending[c], P)
    PROVE  /\ Within(stored'[c], next'[c], pending'[c], P)
           /\ \A d \in Members \ {c} : pending'[d] = pending[d]
           /\ UNCHANGED <<committed, stored, next>>
<1>1. pending' = [pending EXCEPT ![c] = Append(@, x)] /\ UNCHANGED <<committed, stored, next>>
    BY Zenon DEF CommitAsync, brokerVars
<1>2. pending[c] \in Seq(0..End) /\ pending'[c] = Append(pending[c], x)
    BY Zenon, <1>1 DEF Typed
<1>3. /\ Len(pending'[c]) = Len(pending[c]) + 1
      /\ pending'[c][Len(pending[c]) + 1] = x
      /\ \A i \in 1..Len(pending[c]) : pending'[c][i] = pending[c][i]
    BY <1>2, PendingTyped
<1>4. Len(pending[c]) \in Nat
    BY <1>2
<1>5. \A i \in 1..Len(pending'[c]) : i \in 1..Len(pending[c]) \/ i = Len(pending[c]) + 1
    BY <1>3, <1>4
<1>6. \A i \in 1..Len(pending'[c]) : Covered(pending'[c][i], P)
    BY Zenon, <1>3, <1>5 DEF Within
<1>7. \A d \in Members \ {c} : pending'[d] = pending[d]
    BY Zenon, <1>1 DEF Typed
<1> QED
    BY Zenon, <1>1, <1>6, <1>7 DEF Within

\* What a member forgets is within any set.
LEMMA ForgetWithin ==
    ASSUME Typed, NEW c \in Members, NEW P, ForgetPartition(c)
    PROVE  /\ Within(stored'[c], next'[c], pending'[c], P)
           /\ \A d \in Members \ {c} :
                  stored'[d] = stored[d] /\ next'[d] = next[d] /\ pending'[d] = pending[d]
<1>1. next'[c] = 0 /\ stored'[c] = NoOffset /\ pending'[c] = <<>>
    BY Zenon DEF ForgetPartition, Typed
<1>2. Covered(0, P) /\ Covered(NoOffset, P)
    BY Zenon, CoveredFacts
<1>3. \A i \in 1..Len(<<>>) : FALSE
    OBVIOUS
<1> QED
    BY Zenon, <1>1, <1>2, <1>3 DEF Within, ForgetPartition, Typed

\* The first commit on its way, and those after it.
LEMMA ArrivesWithin ==
    ASSUME Typed, NEW c \in Members, NEW P, CommitArrives(c),
           Within(stored[c], next[c], pending[c], P)
    PROVE  /\ Covered(Head(pending[c]), P)
           /\ Within(stored[c], next[c], pending'[c], P)
           /\ \A d \in Members \ {c} : pending'[d] = pending[d]
<1> DEFINE s == pending[c]
<1>1. s \in Seq(0..End) /\ s # <<>> /\ pending' = [pending EXCEPT ![c] = Tail(s)]
    BY Zenon DEF CommitArrives, Typed
<1>2. pending'[c] = Tail(s) /\ \A d \in Members \ {c} : pending'[d] = pending[d]
    BY Zenon, <1>1 DEF Typed
<1>3. \A i \in 1..Len(s) : Covered(s[i], P)
    BY Zenon DEF Within
<1> HIDE DEF s
<1>4. /\ Len(s) \in Nat \ {0} /\ Head(s) = s[1] /\ Len(Tail(s)) = Len(s) - 1
      /\ \A i \in 1..Len(Tail(s)) : Tail(s)[i] = s[i + 1]
    BY Zenon, <1>1, PendingShrinks
<1>5. 1 \in 1..Len(s) /\ \A i \in 1..Len(Tail(s)) : i + 1 \in 1..Len(s)
    BY <1>4
<1>6. Covered(Head(s), P) /\ \A i \in 1..Len(Tail(s)) : Covered(Tail(s)[i], P)
    BY Zenon, <1>3, <1>4, <1>5
<1> QED
    BY Zenon, <1>2, <1>6 DEF Within, s

\* No step makes an offset that is past a message outside Q, if none is past one
\* outside P, and Q also has the message that is delivered.
LEMMA WithinStep ==
    ASSUME Typed, Held, style = "simple", NEW c \in Members,
           Loop(c) \/ Interlude(c) \/ Environment(c),
           NEW P, NEW Q, P \subseteq Q, Recv(c) => next[c] \in Q,
           Covered(committed, P),
           \A d \in Members : Within(stored[d], next[d], pending[d], P)
    PROVE  /\ Covered(committed', Q)
           /\ \A d \in Members : Within(stored'[d], next'[d], pending'[d], Q)
<1>0. Covered(committed, Q) /\ \A d \in Members : Within(stored[d], next[d], pending[d], Q)
    BY Zenon, WithinMore
<1>s. ASSUME Covered(committed', Q), Within(stored'[c], next'[c], pending'[c], Q),
             \A d \in Members \ {c} :
                 stored'[d] = stored[d] /\ next'[d] = next[d] /\ pending'[d] = pending[d]
      PROVE  /\ Covered(committed', Q)
             /\ \A d \in Members : Within(stored'[d], next'[d], pending'[d], Q)
    BY Zenon, <1>0, <1>s
<1>1. CASE \/ Restart(c) \/ Subscribe(c) \/ Evict(c) \/ Resume(c) \/ Process(c)
           \/ \E offset \in 0..End : TaskEnds(c, offset)
    <2>1. UNCHANGED <<committed, stored, next, pending>>
        BY Zenon, <1>1 DEF Restart, Subscribe, Evict, Resume, Process, TaskEnds, brokerVars, clientVars
    <2> QED
        BY Zenon, <1>0, <2>1
<1>2. CASE GroupAssigns(c)
    <2>1. /\ next' = [next EXCEPT ![c] = Start]
          /\ UNCHANGED <<committed, stored, pending>>
        BY Zenon, <1>2 DEF GroupAssigns, TakePartition
    <2>2. Covered(Start, Q)
        BY Zenon, <1>0, CoveredFacts DEF Start
    <2>3. Within(stored'[c], next'[c], pending'[c], Q)
        BY Zenon, <1>0, <2>1, <2>2 DEF Within, Typed
    <2> QED
        BY Zenon, <1>0, <1>s, <2>1, <2>3 DEF Typed
<1>3. CASE Recv(c)
    <2>1. /\ next' = [next EXCEPT ![c] = next[c] + 1]
          /\ stored' = [stored EXCEPT ![c] = next[c] + 1]
          /\ UNCHANGED <<committed, pending>>
        BY Zenon, <1>3 DEF Recv, Delivered, AutoStores, brokerVars
    <2>2. Covered(next[c] + 1, Q)
        <3>1. next[c] \in 0..End /\ Covered(next[c], Q) /\ Q \cup {next[c]} = Q
            BY <1>0, <1>3 DEF Typed, Within
        <3>2. Covered(next[c] + 1, Q \cup {next[c]})
            BY Zenon, <3>1, CoveredFacts
        <3> QED
            BY Zenon, <3>1, <3>2
    <2>3. Within(stored'[c], next'[c], pending'[c], Q)
        BY Zenon, <1>0, <2>1, <2>2 DEF Within, Typed
    <2> QED
        BY Zenon, <1>0, <1>s, <2>1, <2>3 DEF Typed
<1>4. CASE \E mode \in Modes : CommitMessage(c, mode)
    <2>1. CommitAsync(c, hand[c] + 1) /\ doing[c] = "done"
        BY Zenon, <1>4 DEF CommitMessage, CommitBy, Acknowledged
    <2>2. hand[c] + 1 = next[c] /\ next[c] \in 0..End
        BY Zenon, <2>1 DEF Held, Typed
    <2>3. Covered(hand[c] + 1, Q)
        BY Zenon, <1>0, <2>2 DEF Within
    <2> QED
        BY Zenon, <1>0, <1>s, <2>1, <2>2, <2>3, CommitWithin
<1>5. CASE AutoCommit(c)
    <2>1. stored[c] \in 0..End /\ CommitAsync(c, stored[c])
        BY Zenon, <1>5 DEF AutoCommit, Typed, Offsets
    <2>2. Covered(stored[c], Q)
        BY Zenon, <1>0 DEF Within
    <2> QED
        BY Zenon, <1>0, <1>s, <2>1, <2>2, CommitWithin
<1>6. CASE CommitArrives(c)
    <2>1. /\ Covered(Head(pending[c]), Q)
          /\ Within(stored[c], next[c], pending'[c], Q)
          /\ \A d \in Members \ {c} : pending'[d] = pending[d]
        BY Zenon, <1>0, <1>6, ArrivesWithin
    <2>2. Covered(committed', Q)
        BY Zenon, <1>0, <1>6, <2>1 DEF CommitArrives, Commits
    <2>3. UNCHANGED <<stored, next>>
        BY Zenon, <1>6 DEF CommitArrives
    <2> QED
        BY Zenon, <1>s, <2>1, <2>2, <2>3
<1>7. CASE \/ \E then \in {"idle", "subscribed"} : GiveBack(c, then)
           \/ Close(c) \/ Crash(c) \/ LearnsLoss(c)
    <2>1. ForgetPartition(c)
        BY Zenon, <1>7 DEF GiveBack, Close, Crash, LearnsLoss
    <2>2. FinalCommit(c) \/ UNCHANGED committed
        BY Zenon, <1>7 DEF GiveBack, Close, Crash, LearnsLoss, brokerVars
    <2>3. Covered(committed', Q)
        BY Zenon, <1>0, <2>2 DEF FinalCommit, Commits, Within
    <2> QED
        BY Zenon, <1>s, <2>1, <2>3, ForgetWithin
<1>8. CASE \/ Assign(c) \/ RecvDetached(c) \/ StoreOffset(c) \/ StoreOffsets(c) \/ Pause(c)
           \/ \E mode \in Modes : Commit(c, mode) \/ CommitPosition(c, mode) \/ CommitConsumerState(c, mode)
           \/ \E offset \in 0..End : Rewind(c, offset)
    BY Zenon, <1>8 DEF Assign, RecvDetached, StoreOffset, StoreOffsets, Pause, Commit, CommitPosition,
                       CommitConsumerState, Rewind
<1> QED
    BY Zenon, <1>1, <1>2, <1>3, <1>4, <1>5, <1>6, <1>7, <1>8, StepCases

\* A message that is processed or worked on stays so, except in a crash.
LEMMA ExcusedStep ==
    ASSUME Typed, style = "simple", NEW c \in Members,
           Loop(c) \/ Interlude(c) \/ Environment(c), ~Crash(c), NEW o \in 0..End
    PROVE  /\ o \in processed \/ Working(o) => o \in processed' \/ Working(o)'
           /\ Recv(c) /\ o = next[c] => Working(o)'
<1>s. ASSUME processed \subseteq processed',
             doing[c] = "work" => hand[c] \in processed' \/ (doing'[c] = "work" /\ hand'[c] = hand[c]),
             \A d \in Members \ {c} : doing'[d] = doing[d] /\ hand'[d] = hand[d]
      PROVE  o \in processed \/ Working(o) => o \in processed' \/ Working(o)'
    BY Zenon, <1>s DEF Working
<1>1. CASE \/ Restart(c) \/ Subscribe(c) \/ Evict(c) \/ Resume(c) \/ GroupAssigns(c) \/ LearnsLoss(c)
           \/ AutoCommit(c) \/ CommitArrives(c) \/ \E then \in {"idle", "subscribed"} : GiveBack(c, then)
    <2>1. UNCHANGED <<processed, doing, hand>>
        BY Zenon, <1>1 DEF Restart, Subscribe, Evict, Resume, GroupAssigns, TakePartition, LearnsLoss,
                           AutoCommit, CommitArrives, GiveBack, appVars
    <2>2. Recv(c) => doing'[c] = "work" /\ doing[c] = "idle"
        BY Zenon DEF Recv, Delivered, Idle, Typed
    <2> QED
        BY Zenon, <1>s, <2>1, <2>2
<1>2. CASE Recv(c)
    <2>1. hand' = [hand EXCEPT ![c] = next[c]] /\ doing' = [doing EXCEPT ![c] = "work"]
          /\ doing[c] = "idle" /\ UNCHANGED processed
        BY Zenon, <1>2 DEF Recv, Delivered, Idle
    <2>2. hand'[c] = next[c] /\ doing'[c] = "work"
          /\ \A d \in Members \ {c} : doing'[d] = doing[d] /\ hand'[d] = hand[d]
        BY Zenon, <2>1 DEF Typed
    <2>3. o \in processed \/ Working(o) => o \in processed' \/ Working(o)'
        BY Zenon, <1>s, <2>1, <2>2
    <2>4. o = next[c] => Working(o)'
        BY Zenon, <2>2 DEF Working
    <2> QED
        BY Zenon, <2>3, <2>4
<1>3. CASE Process(c)
    <2>1. processed' = processed \cup {hand[c]} /\ doing' = [doing EXCEPT ![c] = "done"] /\ UNCHANGED hand
        BY Zenon, <1>3 DEF Process, Processed
    <2>2. o \in processed \/ Working(o) => o \in processed' \/ Working(o)'
        BY Zenon, <1>s, <2>1 DEF Typed
    <2>3. ~Recv(c)
        BY Zenon, <1>3 DEF Process, Recv, Delivered, Idle
    <2> QED
        BY Zenon, <2>2, <2>3
<1>4. CASE \E mode \in Modes : CommitMessage(c, mode)
    <2>1. /\ doing[c] = "done" /\ doing' = [doing EXCEPT ![c] = "idle"]
          /\ hand' = [hand EXCEPT ![c] = NoOffset] /\ UNCHANGED processed
        BY Zenon, <1>4 DEF CommitMessage, Acknowledged
    <2>2. o \in processed \/ Working(o) => o \in processed' \/ Working(o)'
        BY Zenon, <1>s, <2>1 DEF Typed
    <2>3. ~Recv(c)
        BY Zenon, <2>1 DEF Recv, Delivered, Idle
    <2> QED
        BY Zenon, <2>2, <2>3
<1>5. CASE Close(c)
    <2>1. /\ doing[c] = "idle" /\ doing' = [doing EXCEPT ![c] = "idle"]
          /\ hand' = [hand EXCEPT ![c] = NoOffset] /\ UNCHANGED processed
        BY Zenon, <1>5 DEF Close, Abandon, Idle
    <2>2. o \in processed \/ Working(o) => o \in processed' \/ Working(o)'
        BY Zenon, <1>s, <2>1 DEF Typed
    <2>3. ~Recv(c)
        <3>1. doing'[c] # "work"
            BY Zenon, <2>1 DEF Typed
        <3> QED
            BY Zenon, <3>1 DEF Recv, Typed
    <2> QED
        BY Zenon, <2>2, <2>3
<1>6. CASE \E offset \in 0..End : TaskEnds(c, offset)
    <2>1. processed \subseteq processed' /\ UNCHANGED <<doing, hand>>
        BY Zenon, <1>6 DEF TaskEnds, Processed
    <2>2. o \in processed \/ Working(o) => o \in processed' \/ Working(o)'
        BY Zenon, <1>s, <2>1
    <2>3. Recv(c) => doing'[c] = "work" /\ doing[c] = "idle"
        BY Zenon DEF Recv, Delivered, Idle, Typed
    <2> QED
        BY Zenon, <2>1, <2>2, <2>3
<1>7. CASE \/ Assign(c) \/ RecvDetached(c) \/ StoreOffset(c) \/ StoreOffsets(c) \/ Pause(c)
           \/ \E mode \in Modes : Commit(c, mode) \/ CommitPosition(c, mode) \/ CommitConsumerState(c, mode)
           \/ \E offset \in 0..End : Rewind(c, offset)
    BY Zenon, <1>7 DEF Assign, RecvDetached, StoreOffset, StoreOffsets, Pause, Commit, CommitPosition,
                       CommitConsumerState, Rewind
<1> QED
    BY Zenon, <1>1, <1>2, <1>3, <1>4, <1>5, <1>6, <1>7, StepCases

LEMMA InitLosses == Init => Losses
<1> SUFFICES ASSUME Init
             PROVE  \E G \in SUBSET (0..End) :
                        /\ Cardinality(G) <= faults
                        /\ Covered(committed, Excused(G))
                        /\ \A c \in Members : Within(stored[c], next[c], pending[c], Excused(G))
    BY Zenon DEF Losses
<1>1. Cardinality({}) <= faults
    BY FS_EmptySet DEF Init
<1>2. Covered(NoOffset, Excused({})) /\ Covered(0, Excused({}))
    BY Zenon, CoveredFacts
<1>3. \A i \in 1..Len(<<>>) : FALSE
    OBVIOUS
<1>4. \A c \in Members : stored[c] = NoOffset /\ next[c] = 0 /\ pending[c] = <<>>
    BY Zenon DEF Init
<1>5. committed = NoOffset
    BY Zenon DEF Init
<1> QED
    BY Zenon, <1>1, <1>2, <1>3, <1>4, <1>5 DEF Within

\* A crash costs at most the message the application was working on; nothing else
\* costs one.
LEMMA LossesStep == Typed /\ Held /\ Losses /\ Next => Losses'
<1> SUFFICES ASSUME Typed, Held, Losses, NEW c \in Members,
                    Loop(c) \/ Interlude(c) \/ Environment(c), style = "simple"
             PROVE  \E G \in SUBSET (0..End) :
                        /\ Cardinality(G) <= faults'
                        /\ Covered(committed', Excused(G)')
                        /\ \A d \in Members : Within(stored'[d], next'[d], pending'[d], Excused(G)')
    BY Zenon, StyleKept DEF Next, Losses
<1>g. PICK G \in SUBSET (0..End) :
          /\ Cardinality(G) <= faults
          /\ Covered(committed, Excused(G))
          /\ \A d \in Members : Within(stored[d], next[d], pending[d], Excused(G))
    BY Zenon DEF Losses
<1>f. IsFiniteSet(G) /\ Cardinality(G) \in Nat /\ faults \in Nat
    <2>1. IsFiniteSet(0..End)
        BY FS_Interval, OffsetsAssumption
    <2>2. IsFiniteSet(G)
        BY Zenon, <2>1, FS_Subset
    <2> QED
        BY Zenon, <2>2, FS_CardinalityType DEF Typed
<1>s. ASSUME NEW H \in SUBSET (0..End), Cardinality(H) <= faults',
             \A o \in Excused(G) : o \in Excused(H)',
             Recv(c) => next[c] \in Excused(H)'
      PROVE  \E K \in SUBSET (0..End) :
                 /\ Cardinality(K) <= faults'
                 /\ Covered(committed', Excused(K)')
                 /\ \A d \in Members : Within(stored'[d], next'[d], pending'[d], Excused(K)')
    <2>1. PICK P : P = Excused(G)
        BY Zenon
    <2>2. PICK Q : Q = Excused(H)'
        BY Zenon
    <2>3. /\ Covered(committed, P)
          /\ \A d \in Members : Within(stored[d], next[d], pending[d], P)
        BY Zenon, <1>g, <2>1
    <2>4. P \subseteq Q /\ (Recv(c) => next[c] \in Q)
        BY Zenon, <1>s, <2>1, <2>2
    <2>5. /\ Covered(committed', Q)
          /\ \A d \in Members : Within(stored'[d], next'[d], pending'[d], Q)
        BY Zenon, <2>3, <2>4, WithinStep
    <2> QED
        BY Zenon, <1>s, <2>2, <2>5
<1>1. CASE ~Crash(c)
    <2>1. Cardinality(G) <= faults'
        BY <1>g, <1>f, FaultsKept DEF Fault
    <2>2. \A o \in 0..End : o \in processed \/ Working(o) => o \in processed' \/ Working(o)'
        BY Zenon, <1>1, ExcusedStep
    <2>3. \A o \in Excused(G) : o \in Excused(G)'
        BY Zenon, <2>2 DEF Excused
    <2>4. Recv(c) => next[c] \in Excused(G)'
        <3>1. PICK n \in 0..End : n = next[c]
            BY Zenon DEF Typed
        <3>2. Recv(c) => Working(n)'
            BY Zenon, <1>1, <3>1, ExcusedStep
        <3>3. Recv(c) => n \in Excused(G)'
            BY Zenon, <3>2 DEF Excused
        <3> QED
            BY Zenon, <3>1, <3>3
    <2> QED
        BY Zenon, <1>s, <2>1, <2>3, <2>4
<1>2. CASE Crash(c)
    <2>1. /\ doing' = [doing EXCEPT ![c] = "idle"] /\ hand' = [hand EXCEPT ![c] = NoOffset]
          /\ UNCHANGED processed /\ faults' = faults + 1
        BY Zenon, <1>2 DEF Crash, Abandon, Fault
    <2>2. /\ doing'[c] = "idle"
          /\ \A d \in Members \ {c} : doing'[d] = doing[d] /\ hand'[d] = hand[d]
        BY Zenon, <2>1 DEF Typed
    <2>3. ~Recv(c)
        BY Zenon, <2>2 DEF Recv, Typed
    <2>4. CASE doing[c] = "work"
        <3>1. PICK H : H = G \cup {hand[c]}
            BY Zenon
        <3>2. hand[c] \in 0..End
            <4>1. hand[c] \in 0..(End - 1)
                BY Zenon, <2>4 DEF Held
            <4> QED
                BY <4>1, OffsetsAssumption
        <3>3. H \in SUBSET (0..End)
            BY Zenon, <3>1, <3>2
        <3>4. Cardinality(H) = Cardinality(G) \/ Cardinality(H) = Cardinality(G) + 1
            BY Zenon, <1>f, <3>1, FS_AddElement
        <3>5. Cardinality(H) <= faults'
            BY <1>f, <1>g, <2>1, <3>4
        <3>6. \A o \in 0..End : Working(o) => Working(o)' \/ o \in H
            BY Zenon, <2>2, <3>1 DEF Working
        <3>7. \A o \in Excused(G) : o \in Excused(H)'
            BY Zenon, <2>1, <3>1, <3>6 DEF Excused
        <3> QED
            BY Zenon, <1>s, <2>3, <3>3, <3>5, <3>7
    <2>5. CASE doing[c] # "work"
        <3>1. Cardinality(G) <= faults'
            BY <1>f, <1>g, <2>1
        <3>2. \A o \in 0..End : Working(o) => Working(o)'
            BY Zenon, <2>2, <2>5 DEF Working
        <3>3. \A o \in Excused(G) : o \in Excused(G)'
            BY Zenon, <2>1, <3>2 DEF Excused
        <3> QED
            BY Zenon, <1>s, <2>3, <3>1, <3>3
    <2> QED
        BY Zenon, <2>4, <2>5
<1> QED
    BY Zenon, <1>1, <1>2

\* A step of another part of the program loses nothing.
LEMMA LossesStutter == Losses /\ UNCHANGED vars => Losses'
<1> SUFFICES ASSUME Losses, UNCHANGED vars PROVE Losses'
    OBVIOUS
<1>1. UNCHANGED <<style, committed, stored, next, pending, processed, hand, doing, faults>>
    BY Zenon DEF vars, brokerVars, clientVars, appVars, boundVars
<1>2. \A G : Excused(G)' = Excused(G)
    BY <1>1 DEF Excused, Working
<1> QED
    BY Zenon, <1>1, <1>2 DEF Losses

\* The inductive invariant: what is stored, on the way or committed is not past a
\* message that was not processed; and, without faults, how the offsets of the
\* members follow each other.
THEOREM OffsetsInvariance == Spec => [](IInv /\ Handover)
<1>1. Init => IInv /\ Handover
    BY Zenon, InitIInv, InitHandover
<1>2. IInv /\ Handover /\ [Next]_vars => (IInv /\ Handover)'
    BY Zenon, StyleKept, TypeStep, HeldStep, AsyncStep, SoundStep, HandoverStep, Stutter DEF IInv
<1> QED
    BY <1>1, <1>2, PTL DEF Spec

\* An application that acknowledges a message after processing it, by whichever of
\* store_offset, store_offsets, commit, commit_message and commit_consumer_state,
\* loses none, whatever crashes, evictions and failed or late commits there are.
THEOREM NothingIsLost == Spec => []AtLeastOnce
<1>1. IInv => AtLeastOnce
    <2> SUFFICES ASSUME IInv, style # "simple" PROVE Lost = {}
        BY Zenon DEF AtLeastOnce
    <2>1. CASE style = "async"
        BY <2>1, OffsetsAssumption DEF IInv, NeverCommits, Lost, NoOffset
    <2>2. CASE Acknowledges
        BY Zenon, <2>2 DEF IInv, AllSound, Covered, Lost
    <2> QED
        BY Zenon, <2>1, <2>2, OffsetsAssumption DEF IInv, Acknowledges, AllStyles
<1> QED
    BY <1>1, OffsetsInvariance, PTL

\* Without a fault, the member that takes the partition over starts exactly after
\* the last message that was processed, in at_least_once.rs.
THEOREM NothingIsRepeated == Spec => []CleanHandover
<1>1. Handover => CleanHandover
    BY Zenon DEF Handover, CleanHandover
<1> QED
    BY <1>1, OffsetsInvariance, PTL

\* With enable.auto.offset.store, as in simple_consumer.rs, a message is lost only
\* by a crash of the application that works on it, and then only that one: for any
\* number of members, faults and commits on their way.
THEOREM OneLossPerFault == Spec => []OneLostPerFault
<1>1. Init => Losses
    BY Zenon, InitLosses
<1>2. IInv /\ Losses /\ [Next]_vars => Losses'
    BY Zenon, LossesStep, LossesStutter DEF IInv
<1>3. IInv /\ Losses => OneLostPerFault
    <2> SUFFICES ASSUME IInv, Losses, style = "simple"
                 PROVE  Cardinality(Lost \ {hand[c] : c \in Members}) <= faults
        BY Zenon DEF OneLostPerFault
    <2>1. PICK G \in SUBSET (0..End) : Cardinality(G) <= faults /\ Covered(committed, Excused(G))
        BY Zenon DEF Losses
    <2>2. PICK L : L = Lost \ {hand[c] : c \in Members}
        BY Zenon
    <2>3. \A o \in L : o \in G
        <3>1. \A o \in Lost : o \in 0..End /\ o \in Excused(G) /\ o \notin processed
            BY Zenon, <2>1 DEF Lost, Covered
        <3>2. \A o \in L : o \in Lost /\ ~Working(o)
            BY Zenon, <2>2 DEF Working
        <3> QED
            BY Zenon, <3>1, <3>2 DEF Excused
    <2>4. IsFiniteSet(G)
        <3>1. IsFiniteSet(0..End)
            BY FS_Interval, OffsetsAssumption
        <3> QED
            BY Zenon, <3>1, FS_Subset
    <2>5. L \subseteq G
        BY Zenon, <2>3
    <2>6. IsFiniteSet(L) /\ Cardinality(L) <= Cardinality(G)
        BY Zenon, <2>4, <2>5, FS_Subset
    <2>7. Cardinality(L) \in Nat /\ Cardinality(G) \in Nat /\ faults \in Nat
        BY Zenon, <2>4, <2>6, FS_CardinalityType DEF IInv, Typed
    <2>8. Cardinality(L) <= faults
        BY <2>1, <2>6, <2>7
    <2> QED
        BY Zenon, <2>2, <2>8
<1> QED
    BY <1>1, <1>2, <1>3, OffsetsInvariance, PTL DEF Spec

=============================================================================
