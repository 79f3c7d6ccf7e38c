------------------------ MODULE NativeObjectsProofs ------------------------
(***************************************************************************)
(* Proofs about NativeObjects, for any sets of events, headers and         *)
(* closures: no wrapper uses or frees what is not there, and nothing but   *)
(* the queue of the logs is lost.  The invariant says which objects are    *)
(* there: those that the stage of the client's life, and the wrappers that *)
(* are left, account for.                                                  *)
(***************************************************************************)
EXTENDS NativeObjects, TLAPS

\* The closures of a queue.
ClosureRecords ==
    [kept : Closures \cup {None}, enabled : Closures \cup {None}, running : Closures \cup {None}]

\* The types of the variables, with nothing dangling and only the known leak.
Typed ==
    /\ kind \in ClientKinds
    /\ at \in Stages
    /\ confMap \in [Keys -> Values]
    /\ mem \in [Objects -> {"free", "live"}]
    /\ lost \subseteq {"log queue"}
    /\ holders \in [Events -> SUBSET {"poll", "message", "future"}]
    /\ owner \in [Headers -> {"nobody", "user", "message", "record", "native"}]
    /\ arcs \subseteq {"user", "partition queue"}
    /\ split \in {"no", "yes", "dropped", "dropped last", "gone"}
    /\ closure \in [Queues -> ClosureRecords]
    /\ mockRef \in {"none", "owned", "borrowed"}

\* The stages at which there is a client, and a queue.
HasClient == {"client", "up", "dropping", "native"}
HasQueue == {"up", "dropping", "native", "context", "queue"}

\* The handles that are there, at each stage of the client's life.
HandlesDue ==
    /\ "conf" \in Live <=> at \in HasClient \cup {"native config"} \/ errors # {}
    /\ "client" \in Live <=> at \in HasClient \/ "log" \in errors
    /\ "context" \in Live <=> at \in HasClient \cup {"native config", "context"}
    /\ "queue" \in Live <=> kind # "mock" /\ at \in HasQueue
    /\ "partition queue" \in Live <=> split \in {"yes", "dropped", "dropped last"}
    /\ "mock" \in Live <=> IF kind = "mock" THEN at \in {"up", "dropping"}
                           ELSE /\ confMap["test.mock.num.brokers"] = "taken"
                                /\ at \in HasClient \/ "log" \in errors
    /\ "topic" \in Live => at \in {"up", "dropping", "native"}

\* What the stage says of the rest of the state.
Staged ==
    /\ errors # {} => at = "gone"
    /\ kind = "mock" => confMap["test.mock.num.brokers"] = "unset"
    /\ kind = "mock" /\ at = "up" => mockRef = "owned"
    /\ at = "queue" => kind # "mock"
    /\ mockRef = "borrowed" => kind # "mock" /\ at = "up" /\ "mock" \in Live
    /\ mockRef = "owned" => kind = "mock" /\ at \in {"up", "dropping"}
    /\ partitioning => at \in {"up", "dropping", "native"}
    /\ "partition queue" \in arcs <=> split = "yes"
    /\ split = "yes" => at = "up" /\ kind = "consumer"

\* An event is there as long as somebody holds it.
EventsDue ==
    \A e \in Events :
        /\ e \in Live <=> holders[e] # {}
        /\ holders[e] # {} => kind # "mock" /\ (kind # "admin" => at = "up")

\* Headers are there as long as they have an owner.
HeadersDue ==
    \A h \in Headers :
        /\ h \in Live <=> owner[h] # "nobody"
        /\ owner[h] = "native" => at \in {"up", "dropping", "native"}

\* A closure is there as long as a queue has it, kept or enabled; no two queues
\* have the same.
ClosuresDue ==
    /\ \A f \in Closures : f \in Live <=> \E q \in Queues : f \in {closure[q].kept, closure[q].enabled}
    /\ \A q \in Queues : closure[q].running \in {None, closure[q].enabled}
    /\ \A f \in Closures : ~ /\ f \in {closure["queue"].kept, closure["queue"].enabled}
                             /\ f \in {closure["partition queue"].kept, closure["partition queue"].enabled}
    /\ closure["queue"].enabled # None => kind = "consumer" /\ at = "up"
    /\ closure["queue"].kept # None => kind = "consumer" /\ at \in HasQueue
    /\ closure["partition queue"].enabled # None => split = "yes"
    /\ closure["partition queue"].kept # None => split \in {"yes", "dropped", "dropped last"}

IInv == Typed /\ HandlesDue /\ Staged /\ EventsDue /\ HeadersDue /\ ClosuresDue

-----------------------------------------------------------------------------
(* Lemmas about the memory *)

LEMMA ObjectSorts ==
    /\ Handles \subseteq Objects /\ Events \subseteq Objects
    /\ Headers \subseteq Objects /\ Closures \subseteq Objects
BY Zenon DEF Objects

LEMMA SortsApart ==
    ASSUME NEW o
    PROVE  /\ o \in Events => o \notin Handles /\ o \notin Headers /\ o \notin Closures
           /\ o \in Headers => o \notin Handles /\ o \notin Events /\ o \notin Closures
           /\ o \in Closures => o \notin Handles /\ o \notin Events /\ o \notin Headers
BY Zenon, ObjectsAssumption

\* A step that uses and frees only what is there leaves everything intact.
LEMMA MemoryStep ==
    ASSUME Typed, NEW new \in SUBSET Objects, NEW used, NEW gone,
           used \cup gone \subseteq new \cup Live, Memory(new, used, gone)
    PROVE  /\ mem' \in [Objects -> {"free", "live"}]
           /\ Live' = (Live \cup new) \ gone
           /\ lost' = lost \cup (new \cap Live)
<1>1. \A o \in Objects : mem'[o] = IF o \in gone THEN "free" ELSE IF o \in new THEN "live" ELSE mem[o]
    BY Zenon DEF Memory
<1>2. mem' \in [Objects -> {"free", "live"}]
    <2>1. mem' = [o \in Objects |-> mem'[o]]
        BY Zenon DEF Memory
    <2>2. \A o \in Objects : mem'[o] \in {"free", "live"}
        BY Zenon, <1>1 DEF Typed
    <2> QED
        BY Zenon, <2>1, <2>2
<1>3. Live' = (Live \cup new) \ gone
    <2>1. \A o \in Objects : mem'[o] = "live" <=> o \notin gone /\ (o \in new \/ mem[o] = "live")
        BY Zenon, <1>1
    <2> QED
        BY Zenon, <2>1 DEF Live
<1> QED
    BY Zenon, <1>2, <1>3 DEF Memory

-----------------------------------------------------------------------------
(* A step that leaves a part of the state alone *)

LEMMA EventsStay ==
    ASSUME EventsDue, UNCHANGED <<kind, holders>>,
           at' = at \/ kind = "admin" \/ (\A e \in Events : holders[e] = {}),
           \A e \in Events : e \in Live' <=> e \in Live
    PROVE  EventsDue'
BY Zenon DEF EventsDue

LEMMA HeadersStay ==
    ASSUME HeadersDue, UNCHANGED owner,
           at \in {"up", "dropping", "native"} => at' \in {"up", "dropping", "native"},
           \A h \in Headers : h \in Live' <=> h \in Live
    PROVE  HeadersDue'
BY Zenon DEF HeadersDue

LEMMA ClosuresStay ==
    ASSUME ClosuresDue, UNCHANGED <<kind, split, closure>>,
           at = "up" => at' = "up",
           at \in HasQueue => at' \in HasQueue \/ kind # "consumer",
           \A f \in Closures : f \in Live' <=> f \in Live
    PROVE  ClosuresDue'
BY Zenon DEF ClosuresDue

LEMMA HandlesStay ==
    ASSUME HandlesDue, Staged,
           UNCHANGED <<kind, at, confMap, errors, userVars, mockRef, partitioning>>,
           \A o \in Handles \ {"log queue", "snapshot", "cluster id"} : o \in Live' <=> o \in Live
    PROVE  HandlesDue' /\ Staged'
<1>1. \A o \in {"conf", "client", "context", "queue", "partition queue", "mock", "topic"} : o \in Live' <=> o \in Live
    BY Zenon DEF Handles, Queues
<1>2. HandlesDue'
    BY Zenon, <1>1 DEF HandlesDue, userVars
<1>3. Staged'
    BY Zenon, <1>1 DEF Staged, userVars
<1> QED
    BY Zenon, <1>2, <1>3

-----------------------------------------------------------------------------
(* Events *)

LEMMA OneEvent ==
    ASSUME IInv, NEW e \in Events, NEW hs \in SUBSET {"poll", "message", "future"},
           UNCHANGED <<kind, at, confMap, errors, owner, userVars, closure, mockRef, partitioning>>,
           holders' = [holders EXCEPT ![e] = hs],
           hs # {} => kind # "mock" /\ (kind # "admin" => at = "up"),
           mem' \in [Objects -> {"free", "live"}], lost' = lost,
           Live' = IF hs = {} THEN Live \ {e} ELSE Live \cup {e}
    PROVE  IInv'
<1>0. Typed /\ HandlesDue /\ Staged /\ EventsDue /\ HeadersDue /\ ClosuresDue
    BY Zenon DEF IInv
<1>1. \A o : o # e => (o \in Live' <=> o \in Live)
    BY Zenon
<1>2. Typed'
    BY Zenon, <1>0 DEF Typed, userVars
<1>3. HandlesDue' /\ Staged'
    BY Zenon, <1>0, <1>1, SortsApart, HandlesStay DEF userVars
<1>4. EventsDue'
    <2> SUFFICES ASSUME NEW d \in Events
                 PROVE  /\ d \in Live' <=> holders'[d] # {}
                        /\ holders'[d] # {} => kind' # "mock" /\ (kind' # "admin" => at' = "up")
        BY Zenon DEF EventsDue
    <2>1. CASE d = e
        <3>1. holders'[d] = hs
            BY Zenon, <1>0, <2>1 DEF Typed
        <3> QED
            BY Zenon, <2>1, <3>1
    <2>2. CASE d # e
        <3>1. holders'[d] = holders[d]
            BY Zenon, <1>0, <2>2 DEF Typed
        <3> QED
            BY Zenon, <1>0, <1>1, <2>2, <3>1 DEF EventsDue
    <2> QED
        BY Zenon, <2>1, <2>2
<1>5. HeadersDue'
    BY Zenon, <1>0, <1>1, SortsApart, HeadersStay
<1>6. ClosuresDue'
    BY Zenon, <1>0, <1>1, SortsApart, ClosuresStay DEF userVars
<1> QED
    BY Zenon, <1>2, <1>3, <1>4, <1>5, <1>6 DEF IInv

\* The holders of an event that is there change; nothing else that is used is gone.
LEMMA HoldStep ==
    ASSUME IInv, NEW e \in Events, holders[e] # {},
           NEW hs \in SUBSET {"poll", "message", "future"},
           NEW used, used \subseteq Live,
           UNCHANGED <<kind, at, confMap, errors, owner, userVars, closure, mockRef, partitioning>>,
           Hold(e, hs, used)
    PROVE  IInv'
<1> DEFINE gone == IF hs = {} THEN {e} ELSE {}
<1>0. Typed /\ EventsDue
    BY Zenon DEF IInv
<1>1. e \in Live /\ kind # "mock" /\ (kind # "admin" => at = "up")
    BY Zenon, <1>0 DEF EventsDue
<1>2. used \cup gone \subseteq {} \cup Live /\ Memory({}, used, gone)
    BY Zenon, <1>1 DEF Hold
<1>3. /\ mem' \in [Objects -> {"free", "live"}]
      /\ Live' = (Live \cup {}) \ gone
      /\ lost' = lost \cup ({} \cap Live)
    <2> HIDE DEF gone
    <2>1. {} \in SUBSET Objects
        OBVIOUS
    <2> QED
        BY Zenon, <1>0, <1>2, <2>1, MemoryStep
<1>4. Live' = IF hs = {} THEN Live \ {e} ELSE Live \cup {e}
    BY Zenon, <1>1, <1>3
<1>5. lost' = lost /\ holders' = [holders EXCEPT ![e] = hs]
    BY Zenon, <1>3 DEF Hold
<1> HIDE DEF gone
<1> QED
    BY Zenon, <1>1, <1>3, <1>4, <1>5, OneEvent

LEMMA EventIsHeld ==
    ASSUME IInv, NEW e \in Events, holders[e] # {}
    PROVE  e \in Live /\ (kind # "admin" => "context" \in Live)
BY Zenon DEF IInv, EventsDue, HandlesDue, HasClient

LEMMA PollQueueStep ==
    ASSUME IInv, NEW e \in Events, NEW q \in Queues, PollQueue(e, q)
    PROVE  IInv'
<1> DEFINE used == {q} \cup (IF kind = "admin" THEN {} ELSE {"client"})
<1>0. Typed /\ EventsDue /\ HandlesDue /\ Staged
    BY Zenon DEF IInv
<1>1. kind # "mock" /\ (at = "up" \/ (at = "dropping" /\ kind = "admin"))
    BY Zenon, <1>0 DEF PollQueue, InUse, Staged, Queues
<1>2. q \in Live /\ "client" \in Live /\ e \notin Live
    BY Zenon, <1>0, <1>1 DEF PollQueue, HandlesDue, EventsDue, Queues, HasClient, HasQueue
<1>3. used \cup {} \subseteq {e} \cup Live /\ {e} \in SUBSET Objects /\ Memory({e}, used, {})
    BY Zenon, <1>2, ObjectSorts DEF PollQueue
<1>4. /\ mem' \in [Objects -> {"free", "live"}]
      /\ Live' = (Live \cup {e}) \ {}
      /\ lost' = lost \cup ({e} \cap Live)
    <2> HIDE DEF used
    <2> QED
        BY Zenon, <1>0, <1>3, MemoryStep
<1>5. /\ lost' = lost
      /\ holders' = [holders EXCEPT ![e] = {"poll"}]
      /\ Live' = IF {"poll"} = {} THEN Live \ {e} ELSE Live \cup {e}
    BY Zenon, <1>2, <1>4 DEF PollQueue
<1> HIDE DEF used
<1>6. UNCHANGED <<kind, at, confMap, errors, owner, userVars, closure, mockRef, partitioning>>
    BY Zenon DEF PollQueue
<1> QED
    BY Zenon, <1>1, <1>4, <1>5, <1>6, OneEvent

LEMMA EventStepsStep ==
    ASSUME IInv, EventSteps
    PROVE  IInv'
<1>1. PICK e \in Events : \/ \E q \in Queues : PollQueue(e, q)
                          \/ Fetched(e) \/ Reported(e) \/ Answered(e) \/ DropHolder(e)
    BY Zenon DEF EventSteps
<1>2. CASE \E q \in Queues : PollQueue(e, q)
    BY Zenon, <1>2, PollQueueStep
<1>3. CASE Fetched(e)
    BY <1>3, EventIsHeld, HoldStep DEF Fetched
<1>4. CASE Reported(e)
    BY <1>4, EventIsHeld, HoldStep DEF Reported
<1>5. CASE Answered(e)
    BY <1>5, EventIsHeld, HoldStep DEF Answered
<1>6. CASE DropHolder(e)
    BY <1>6, EventIsHeld, HoldStep DEF DropHolder
<1> QED
    BY Zenon, <1>1, <1>2, <1>3, <1>4, <1>5, <1>6

-----------------------------------------------------------------------------
(* Headers *)

\* The headers in hs change hands, to those in `to`; the rest of the state stays.
LEMMA HeadersChange ==
    ASSUME IInv, NEW hs \in SUBSET Headers,
           UNCHANGED <<kind, at, confMap, errors, holders, userVars, closure, mockRef, partitioning>>,
           owner' \in [Headers -> {"nobody", "user", "message", "record", "native"}],
           mem' \in [Objects -> {"free", "live"}], lost' = lost,
           \A o : o \notin hs => (o \in Live' <=> o \in Live),
           \A h \in Headers \ hs : owner'[h] = owner[h],
           \A h \in hs : /\ h \in Live' <=> owner'[h] # "nobody"
                         /\ owner'[h] = "native" => at \in {"up", "dropping", "native"}
    PROVE  IInv'
<1>0. Typed /\ HandlesDue /\ Staged /\ EventsDue /\ HeadersDue /\ ClosuresDue
    BY Zenon DEF IInv
<1>1. \A o : o \notin Headers => (o \in Live' <=> o \in Live)
    BY Zenon
<1>2. Typed'
    BY Zenon, <1>0 DEF Typed, userVars
<1>3. HandlesDue' /\ Staged'
    BY Zenon, <1>0, <1>1, SortsApart, HandlesStay DEF userVars
<1>4. EventsDue'
    BY Zenon, <1>0, <1>1, SortsApart, EventsStay
<1>5. HeadersDue'
    BY Zenon, <1>0 DEF HeadersDue
<1>6. ClosuresDue'
    BY Zenon, <1>0, <1>1, SortsApart, ClosuresStay DEF userVars
<1> QED
    BY Zenon, <1>2, <1>3, <1>4, <1>5, <1>6 DEF IInv

LEMMA OneHeader ==
    ASSUME IInv, NEW h \in Headers, NEW who \in {"nobody", "user", "message", "record", "native"},
           UNCHANGED <<kind, at, confMap, errors, holders, userVars, closure, mockRef, partitioning>>,
           owner' = [owner EXCEPT ![h] = who],
           who = "native" => at \in {"up", "dropping", "native"},
           mem' \in [Objects -> {"free", "live"}], lost' = lost,
           Live' = IF who = "nobody" THEN Live \ {h} ELSE Live \cup {h}
    PROVE  IInv'
<1>0. owner \in [Headers -> {"nobody", "user", "message", "record", "native"}]
    BY Zenon DEF IInv, Typed
<1>1. owner' \in [Headers -> {"nobody", "user", "message", "record", "native"}] /\ owner'[h] = who
    BY Zenon, <1>0
<1>2. \A o : o \notin {h} => (o \in Live' <=> o \in Live)
    BY Zenon
<1>3. \A g \in Headers \ {h} : owner'[g] = owner[g]
    BY Zenon, <1>0
<1>4. \A g \in {h} : /\ g \in Live' <=> owner'[g] # "nobody"
                     /\ owner'[g] = "native" => at \in {"up", "dropping", "native"}
    BY Zenon, <1>1
<1>5. {h} \in SUBSET Headers
    OBVIOUS
<1> QED
    BY Zenon, <1>1, <1>2, <1>3, <1>4, <1>5, HeadersChange

\* New headers, copied from something that is there.
LEMMA NewHeadersStep ==
    ASSUME IInv, NEW h \in Headers, owner[h] = "nobody", NEW who \in {"user", "message"},
           NEW used \in SUBSET Live, Memory({h}, used, {}),
           owner' = [owner EXCEPT ![h] = who],
           UNCHANGED <<kind, at, confMap, errors, holders, userVars, closure, mockRef, partitioning>>
    PROVE  IInv'
<1>0. Typed /\ h \notin Live
    BY Zenon DEF IInv, HeadersDue
<1>1. {h} \in SUBSET Objects /\ used \cup {} \subseteq {h} \cup Live
    BY Zenon, ObjectSorts
<1>2. /\ mem' \in [Objects -> {"free", "live"}]
      /\ Live' = (Live \cup {h}) \ {}
      /\ lost' = lost \cup ({h} \cap Live)
    BY Zenon, <1>0, <1>1, MemoryStep
<1>3. lost' = lost /\ Live' = IF who = "nobody" THEN Live \ {h} ELSE Live \cup {h}
    BY Zenon, <1>0, <1>2
<1> QED
    BY Zenon, <1>2, <1>3, OneHeader

\* Headers that are there change hands or are freed.
LEMMA OldHeadersStep ==
    ASSUME IInv, NEW h \in Headers, owner[h] # "nobody",
           NEW who \in {"nobody", "user", "message", "record", "native"},
           who = "native" => at \in {"up", "dropping", "native"},
           NEW used \in SUBSET Live, Memory({}, used, IF who = "nobody" THEN {h} ELSE {}),
           owner' = [owner EXCEPT ![h] = who],
           UNCHANGED <<kind, at, confMap, errors, holders, userVars, closure, mockRef, partitioning>>
    PROVE  IInv'
<1> DEFINE gone == IF who = "nobody" THEN {h} ELSE {}
<1>0. Typed /\ h \in Live
    BY Zenon DEF IInv, HeadersDue
<1>1. {} \in SUBSET Objects /\ used \cup gone \subseteq {} \cup Live /\ Memory({}, used, gone)
    BY Zenon, <1>0
<1>2. /\ mem' \in [Objects -> {"free", "live"}]
      /\ Live' = (Live \cup {}) \ gone
      /\ lost' = lost \cup ({} \cap Live)
    <2> HIDE DEF gone
    <2> QED
        BY Zenon, <1>0, <1>1, MemoryStep
<1>3. lost' = lost /\ Live' = IF who = "nobody" THEN Live \ {h} ELSE Live \cup {h}
    BY Zenon, <1>0, <1>2
<1> HIDE DEF gone
<1> QED
    BY Zenon, <1>2, <1>3, OneHeader

LEMMA ReplaceHeadersStep ==
    ASSUME IInv, NEW h \in Headers, ReplaceHeaders(h)
    PROVE  IInv'
<1> DEFINE old == {g \in Headers : owner[g] = "message"}
           hs == old \cup {h}
           to(g) == CASE g = h -> "message" [] g \in old -> "nobody" [] OTHER -> owner[g]
<1>0. Typed /\ HeadersDue
    BY Zenon DEF IInv
<1>1. owner[h] = "user" /\ h \notin old /\ old \subseteq Live /\ h \in Live
    BY Zenon, <1>0 DEF ReplaceHeaders, HeadersDue
<1>2. {} \in SUBSET Objects /\ {h} \cup old \subseteq {} \cup Live /\ Memory({}, {h}, old)
    BY Zenon, <1>1 DEF ReplaceHeaders
<1>3. /\ mem' \in [Objects -> {"free", "live"}]
      /\ Live' = (Live \cup {}) \ old
      /\ lost' = lost \cup ({} \cap Live)
    <2> HIDE DEF old
    <2> QED
        BY Zenon, <1>0, <1>2, MemoryStep
<1>4. owner' = [g \in Headers |-> to(g)]
    BY Zenon DEF ReplaceHeaders
<1>5. /\ owner'[h] = "message"
      /\ \A g \in old : owner'[g] = "nobody"
      /\ \A g \in Headers \ hs : owner'[g] = owner[g]
    BY Zenon, <1>1, <1>4
<1>6. owner' \in [Headers -> {"nobody", "user", "message", "record", "native"}]
    <2>1. \A g \in Headers : owner'[g] \in {"nobody", "user", "message", "record", "native"}
        BY Zenon, <1>0, <1>5 DEF Typed
    <2> HIDE DEF to
    <2>2. owner' = [g \in Headers |-> owner'[g]]
        BY Zenon, <1>4
    <2> QED
        BY Zenon, <2>1, <2>2
<1>7. hs \in SUBSET Headers /\ lost' = lost
    BY Zenon, <1>3
<1>8. /\ \A o : o \notin hs => (o \in Live' <=> o \in Live)
      /\ \A g \in hs : /\ g \in Live' <=> owner'[g] # "nobody"
                       /\ owner'[g] = "native" => at \in {"up", "dropping", "native"}
    <2>1. \A o : o \notin hs => (o \in Live' <=> o \in Live)
        BY Zenon, <1>1, <1>3
    <2>2. \A g \in old : g \notin Live' /\ owner'[g] = "nobody"
        BY Zenon, <1>3, <1>5
    <2>3. h \in Live'
        BY Zenon, <1>1, <1>3
    <2> QED
        BY Zenon, <1>5, <2>1, <2>2, <2>3
<1>9. UNCHANGED <<kind, at, confMap, errors, holders, userVars, closure, mockRef, partitioning>>
    BY Zenon DEF ReplaceHeaders
<1> HIDE DEF hs, old, to
<1> QED
    BY Zenon, <1>3, <1>5, <1>6, <1>7, <1>8, <1>9, HeadersChange

LEMMA HeaderStepsStep ==
    ASSUME IInv, HeaderSteps
    PROVE  IInv'
<1>0. HeadersDue /\ EventsDue /\ HandlesDue /\ Typed
    BY Zenon DEF IInv
<1>1. PICK h \in Headers :
          \/ \E e \in Events : Detach(e, h)
          \/ \E g \in Headers : CloneHeaders(g, h)
          \/ NewHeaders(h) \/ DetachHeaders(h) \/ ReplaceHeaders(h)
          \/ PutInRecord(h) \/ Send(h) \/ Produced(h) \/ DropHeaders(h)
    BY Zenon DEF HeaderSteps
<1>2. CASE \E e \in Events : Detach(e, h)
    <2>1. PICK e \in Events : Detach(e, h)
        BY Zenon, <1>2
    <2>2. {e} \in SUBSET Live
        BY Zenon, <1>0, <2>1 DEF Detach, EventsDue
    <2> QED
        BY Zenon, <2>1, <2>2, NewHeadersStep DEF Detach, CopyHeaders
<1>3. CASE \E g \in Headers : CloneHeaders(g, h)
    <2>1. PICK g \in Headers : CloneHeaders(g, h)
        BY Zenon, <1>3
    <2>2. {g} \in SUBSET Live
        BY Zenon, <1>0, <2>1 DEF CloneHeaders, HeadersDue
    <2> QED
        BY Zenon, <2>1, <2>2, NewHeadersStep DEF CloneHeaders, CopyHeaders
<1>4. CASE NewHeaders(h)
    <2>1. {} \in SUBSET Live
        OBVIOUS
    <2> QED
        BY Zenon, <1>4, <2>1, NewHeadersStep DEF NewHeaders
<1>5. CASE DetachHeaders(h) \/ PutInRecord(h)
    <2>1. PICK who \in {"message", "record", "user"} : owner' = [owner EXCEPT ![h] = who]
        BY Zenon, <1>5 DEF DetachHeaders, PutInRecord
    <2>2. /\ UNCHANGED <<kind, at, confMap, mem, lost, errors, holders, userVars, closure, mockRef, partitioning>>
          /\ owner[h] # "nobody"
        BY Zenon, <1>5 DEF DetachHeaders, PutInRecord
    <2>3. h \in Live /\ Live' = Live /\ mem' \in [Objects -> {"free", "live"}]
        BY Zenon, <1>0, <2>2 DEF Live, HeadersDue, Typed
    <2>4. Live' = IF who = "nobody" THEN Live \ {h} ELSE Live \cup {h}
        BY Zenon, <2>3
    <2> QED
        BY Zenon, <2>1, <2>2, <2>3, <2>4, OneHeader
<1>6. CASE ReplaceHeaders(h)
    BY Zenon, <1>6, ReplaceHeadersStep
<1>7. CASE Send(h)
    <2>1. {h, "client"} \in SUBSET Live
        BY Zenon, <1>0, <1>7 DEF Send, HeadersDue, HandlesDue, InUse, HasClient
    <2>2. owner' = [owner EXCEPT ![h] = "native"] \/ owner' = [owner EXCEPT ![h] = "record"]
        <3>1. owner = [owner EXCEPT ![h] = owner[h]]
            BY Zenon, <1>0 DEF Typed
        <3> QED
            BY Zenon, <1>7, <3>1 DEF Send
    <2>3. Memory({}, {h, "client"}, IF "native" = "nobody" THEN {h} ELSE {})
        BY Zenon, <1>7 DEF Send
    <2>4. Memory({}, {h, "client"}, IF "record" = "nobody" THEN {h} ELSE {})
        BY Zenon, <1>7 DEF Send
    <2>5. at = "up" /\ owner[h] # "nobody"
          /\ UNCHANGED <<kind, at, confMap, errors, holders, userVars, closure, mockRef, partitioning>>
        BY Zenon, <1>7 DEF Send, InUse
    <2> QED
        BY Zenon, <2>1, <2>2, <2>3, <2>4, <2>5, OldHeadersStep
<1>8. CASE Produced(h) \/ DropHeaders(h)
    <2>1. {} \in SUBSET Live
        OBVIOUS
    <2>2. Memory({}, {}, IF "nobody" = "nobody" THEN {h} ELSE {})
        BY Zenon, <1>8 DEF Produced, DropHeaders
    <2> QED
        BY Zenon, <1>8, <2>1, <2>2, OldHeadersStep DEF Produced, DropHeaders
<1> QED
    BY Zenon, <1>1, <1>2, <1>3, <1>4, <1>5, <1>6, <1>7, <1>8

-----------------------------------------------------------------------------
(* Handles *)

\* Only handles are allocated and freed.
LEMMA OnlyHandles ==
    ASSUME IInv, NEW new \in SUBSET Handles, NEW used \in SUBSET (new \cup Live),
           NEW gone \in SUBSET Handles, gone \subseteq new \cup Live, Memory(new, used, gone)
    PROVE  /\ mem' \in [Objects -> {"free", "live"}]
           /\ Live' = (Live \cup new) \ gone
           /\ lost' = lost \cup (new \cap Live)
           /\ \A o : o \notin Handles => (o \in Live' <=> o \in Live)
<1>1. Typed /\ new \in SUBSET Objects /\ used \cup gone \subseteq new \cup Live
    BY Zenon, ObjectSorts DEF IInv
<1>2. /\ mem' \in [Objects -> {"free", "live"}]
      /\ Live' = (Live \cup new) \ gone
      /\ lost' = lost \cup (new \cap Live)
    BY Zenon, <1>1, MemoryStep
<1> QED
    BY Zenon, <1>2

\* The life of the client goes on; events, headers and closures stay.
LEMMA LifeStep ==
    ASSUME IInv, UNCHANGED <<kind, holders, owner, split, closure>>,
           mem' \in [Objects -> {"free", "live"}], lost' \subseteq {"log queue"},
           at' \in Stages, confMap' \in [Keys -> Values], mockRef' \in {"none", "owned", "borrowed"},
           arcs' \subseteq {"user", "partition queue"},
           \A o : o \notin Handles => (o \in Live' <=> o \in Live),
           at = "up" => at' = "up",
           at \in {"dropping", "native"} => at' \in {"dropping", "native"},
           at \in HasQueue => at' \in HasQueue \/ kind # "consumer",
           HandlesDue', Staged'
    PROVE  IInv'
<1>0. Typed /\ EventsDue /\ HeadersDue /\ ClosuresDue
    BY Zenon DEF IInv
<1>1. Typed'
    BY Zenon, <1>0 DEF Typed
<1>2. EventsDue'
    <2>1. at' = at \/ kind = "admin" \/ (\A e \in Events : holders[e] = {})
        BY Zenon, <1>0 DEF EventsDue
    <2> QED
        BY Zenon, <1>0, <2>1, SortsApart, EventsStay
<1>3. HeadersDue'
    BY Zenon, <1>0, SortsApart, HeadersStay
<1>4. ClosuresDue'
    BY Zenon, <1>0, SortsApart, ClosuresStay
<1> QED
    BY Zenon, <1>1, <1>2, <1>3, <1>4 DEF IInv

LEMMA QueryStep ==
    ASSUME IInv, NEW new \in SUBSET {"snapshot", "topic", "cluster id"}, new \cap Live = {},
           NEW used \in SUBSET Live, NEW gone \in SUBSET ({"snapshot"} \cap Live),
           Memory(new, used, gone), "topic" \in new => at = "up",
           UNCHANGED <<kind, at, confMap, errors, holders, owner, userVars, closure, partitioning>>,
           \/ mockRef' = mockRef
           \/ mockRef = "borrowed" /\ mockRef' = "none"
           \/ mockRef' = "borrowed" /\ kind # "mock" /\ at = "up" /\ "mock" \in Live
    PROVE  IInv'
<1>0. Typed /\ HandlesDue /\ Staged
    BY Zenon DEF IInv
<1>1. new \in SUBSET Handles /\ gone \in SUBSET Handles /\ gone \subseteq new \cup Live /\ used \in SUBSET (new \cup Live)
    BY Zenon DEF Handles
<1>2. /\ mem' \in [Objects -> {"free", "live"}]
      /\ Live' = (Live \cup new) \ gone
      /\ lost' = lost \cup (new \cap Live)
      /\ \A o : o \notin Handles => (o \in Live' <=> o \in Live)
    BY Zenon, <1>1, OnlyHandles
<1>3. /\ \A o \in {"conf", "client", "context", "queue", "partition queue", "mock"} : o \in Live' <=> o \in Live
      /\ "topic" \in Live' => "topic" \in Live \/ at = "up"
    BY Zenon, <1>2
<1>4. HandlesDue'
    BY Zenon, <1>0, <1>3 DEF HandlesDue, userVars
<1>5. Staged'
    BY Zenon, <1>0, <1>3 DEF Staged, userVars
<1>6. /\ lost' \subseteq {"log queue"} /\ at' \in Stages /\ confMap' \in [Keys -> Values]
      /\ arcs' \subseteq {"user", "partition queue"} /\ split' = split
      /\ mockRef' \in {"none", "owned", "borrowed"}
    BY Zenon, <1>0, <1>2 DEF Typed, userVars
<1> QED
    BY Zenon, <1>2, <1>4, <1>5, <1>6, LifeStep

LEMMA QueriesStep ==
    ASSUME IInv, Queries
    PROVE  IInv'
<1>0. HandlesDue /\ Staged
    BY Zenon DEF IInv
<1>1. at = "up" => {"client"} \in SUBSET Live
    BY Zenon, <1>0 DEF HandlesDue, HasClient
<1>2. {} \in SUBSET ({"snapshot"} \cap Live)
    OBVIOUS
<1>3. CASE FetchMetadata
    <2>1. PICK new \in {NativeTopic, {"snapshot"} \cup NativeTopic} : Memory(new, {"client"}, {})
        BY Zenon, <1>3 DEF FetchMetadata
    <2>2. new \in SUBSET {"snapshot", "topic", "cluster id"} /\ new \cap Live = {}
        BY Zenon, <1>3, <2>1 DEF FetchMetadata, NativeTopic
    <2> QED
        BY Zenon, <1>1, <1>2, <1>3, <2>1, <2>2, QueryStep DEF FetchMetadata, InUse
<1>4. CASE FetchGroupList \/ GroupMetadata \/ FetchClusterId
    <2>1. PICK new \in {{"snapshot"}, {"cluster id"}} : Memory(new, {"client"}, {}) /\ new \cap Live = {}
        BY Zenon, <1>4 DEF FetchGroupList, GroupMetadata, FetchClusterId
    <2>2. /\ new \in SUBSET {"snapshot", "topic", "cluster id"} /\ at = "up" /\ mockRef' = mockRef
          /\ UNCHANGED <<kind, at, confMap, errors, holders, owner, userVars, closure, partitioning>>
        BY Zenon, <1>4, <2>1 DEF FetchGroupList, GroupMetadata, FetchClusterId, InUse
    <2> QED
        BY Zenon, <1>1, <1>2, <2>1, <2>2, QueryStep
<1>5. CASE ReadSnapshot
    <2>1. {} \in SUBSET {"snapshot", "topic", "cluster id"} /\ {} \cap Live = {} /\ {"snapshot"} \in SUBSET Live
        BY Zenon, <1>5 DEF ReadSnapshot
    <2> QED
        BY Zenon, <1>2, <1>5, <2>1, QueryStep DEF ReadSnapshot
<1>6. CASE DropSnapshot
    <2>1. /\ {} \in SUBSET {"snapshot", "topic", "cluster id"} /\ {} \cap Live = {} /\ {} \in SUBSET Live
          /\ {"snapshot"} \in SUBSET ({"snapshot"} \cap Live)
        BY Zenon, <1>6 DEF DropSnapshot
    <2> QED
        BY Zenon, <1>6, <2>1, QueryStep DEF DropSnapshot
<1>7. CASE BorrowMock
    <2>1. /\ {} \in SUBSET {"snapshot", "topic", "cluster id"} /\ {} \cap Live = {}
          /\ {"client", "mock"} \in SUBSET Live
        BY Zenon, <1>1, <1>7 DEF BorrowMock, InUse
    <2>2. kind # "mock"
        BY Zenon, <1>0, <1>7 DEF BorrowMock, InUse, Staged
    <2> QED
        BY Zenon, <1>2, <1>7, <2>1, <2>2, QueryStep DEF BorrowMock, InUse
<1>8. CASE MockOp \/ DropBorrowed
    <2>1. "mock" \in Live
        <3>1. CASE MockOp
            <4>1. at = "up" /\ mockRef \in {"owned", "borrowed"}
                BY Zenon, <1>8, <3>1 DEF MockOp, IInv, Typed
            <4> QED
                BY Zenon, <1>0, <4>1 DEF Staged, HandlesDue
        <3>2. CASE DropBorrowed
            BY Zenon, <1>0, <3>2 DEF DropBorrowed, Staged
        <3> QED
            BY Zenon, <1>8, <3>1, <3>2
    <2>2. {} \in SUBSET {"snapshot", "topic", "cluster id"} /\ {} \cap Live = {} /\ {"mock"} \in SUBSET Live
        BY Zenon, <2>1
    <2> QED
        BY Zenon, <1>2, <1>8, <2>2, QueryStep DEF MockOp, DropBorrowed
<1> QED
    BY Zenon, <1>3, <1>4, <1>5, <1>6, <1>7, <1>8 DEF Queries

-----------------------------------------------------------------------------
(* The closures of the non-empty callback *)

\* What a queue refers to: the closure in its field, and the one librdkafka calls.
Slots(q) == {closure[q].kept, closure[q].enabled}

LEMMA ClosureFields ==
    ASSUME Typed, NEW q \in Queues
    PROVE  /\ closure[q].kept \in Closures \cup {None}
           /\ closure[q].enabled \in Closures \cup {None}
           /\ closure[q].running \in Closures \cup {None}
BY Zenon DEF Typed, ClosureRecords

\* A field of the closures of a queue is set, and the rest stays.
LEMMA SetKept ==
    ASSUME Typed, NEW q \in Queues, NEW f \in Closures \cup {None},
           closure' = [closure EXCEPT ![q].kept = f]
    PROVE  /\ closure'[q].kept = f
           /\ closure'[q].enabled = closure[q].enabled /\ closure'[q].running = closure[q].running
           /\ \A p \in Queues \ {q} : closure'[p] = closure[p]
           /\ closure' \in [Queues -> ClosureRecords]
<1>1. closure \in [Queues -> ClosureRecords] /\ closure[q] \in ClosureRecords
    BY Zenon DEF Typed
<1>2. /\ [closure[q] EXCEPT !.kept = f] \in ClosureRecords
      /\ [closure[q] EXCEPT !.kept = f].kept = f
      /\ [closure[q] EXCEPT !.kept = f].enabled = closure[q].enabled
      /\ [closure[q] EXCEPT !.kept = f].running = closure[q].running
    BY Zenon, <1>1 DEF ClosureRecords
<1>3. closure' = [closure EXCEPT ![q] = [closure[q] EXCEPT !.kept = f]]
    OBVIOUS
<1>4. closure'[q] = [closure[q] EXCEPT !.kept = f]
    BY Zenon, <1>1, <1>3
<1>5. closure' \in [Queues -> ClosureRecords]
    BY Zenon, <1>1, <1>2, <1>3
<1>6. \A p \in Queues \ {q} : closure'[p] = closure[p]
    BY Zenon, <1>1, <1>3
<1> QED
    BY Zenon, <1>2, <1>4, <1>5, <1>6

LEMMA SetEnabled ==
    ASSUME Typed, NEW q \in Queues, NEW f \in Closures \cup {None},
           closure' = [closure EXCEPT ![q].enabled = f]
    PROVE  /\ closure'[q].enabled = f
           /\ closure'[q].kept = closure[q].kept /\ closure'[q].running = closure[q].running
           /\ \A p \in Queues \ {q} : closure'[p] = closure[p]
           /\ closure' \in [Queues -> ClosureRecords]
<1>1. closure \in [Queues -> ClosureRecords] /\ closure[q] \in ClosureRecords
    BY Zenon DEF Typed
<1>2. /\ [closure[q] EXCEPT !.enabled = f] \in ClosureRecords
      /\ [closure[q] EXCEPT !.enabled = f].enabled = f
      /\ [closure[q] EXCEPT !.enabled = f].kept = closure[q].kept
      /\ [closure[q] EXCEPT !.enabled = f].running = closure[q].running
    BY Zenon, <1>1 DEF ClosureRecords
<1>3. closure' = [closure EXCEPT ![q] = [closure[q] EXCEPT !.enabled = f]]
    OBVIOUS
<1>4. closure'[q] = [closure[q] EXCEPT !.enabled = f]
    BY Zenon, <1>1, <1>3
<1>5. closure' \in [Queues -> ClosureRecords]
    BY Zenon, <1>1, <1>2, <1>3
<1>6. \A p \in Queues \ {q} : closure'[p] = closure[p]
    BY Zenon, <1>1, <1>3
<1> QED
    BY Zenon, <1>2, <1>4, <1>5, <1>6

LEMMA SetRunning ==
    ASSUME Typed, NEW q \in Queues, NEW f \in Closures \cup {None},
           closure' = [closure EXCEPT ![q].running = f]
    PROVE  /\ closure'[q].running = f
           /\ closure'[q].kept = closure[q].kept /\ closure'[q].enabled = closure[q].enabled
           /\ \A p \in Queues \ {q} : closure'[p] = closure[p]
           /\ closure' \in [Queues -> ClosureRecords]
<1>1. closure \in [Queues -> ClosureRecords] /\ closure[q] \in ClosureRecords
    BY Zenon DEF Typed
<1>2. /\ [closure[q] EXCEPT !.running = f] \in ClosureRecords
      /\ [closure[q] EXCEPT !.running = f].running = f
      /\ [closure[q] EXCEPT !.running = f].kept = closure[q].kept
      /\ [closure[q] EXCEPT !.running = f].enabled = closure[q].enabled
    BY Zenon, <1>1 DEF ClosureRecords
<1>3. closure' = [closure EXCEPT ![q] = [closure[q] EXCEPT !.running = f]]
    OBVIOUS
<1>4. closure'[q] = [closure[q] EXCEPT !.running = f]
    BY Zenon, <1>1, <1>3
<1>5. closure' \in [Queues -> ClosureRecords]
    BY Zenon, <1>1, <1>2, <1>3
<1>6. \A p \in Queues \ {q} : closure'[p] = closure[p]
    BY Zenon, <1>1, <1>3
<1> QED
    BY Zenon, <1>2, <1>4, <1>5, <1>6

\* Only the closures of q change: old ones are freed, new ones allocated.
LEMMA OneQueue ==
    ASSUME ClosuresDue, NEW q \in Queues, NEW new \in SUBSET Closures, NEW gone,
           \A p \in Queues \ {q} : closure'[p] = closure[p],
           \A f \in Closures : f \in Live' <=> (f \in Live \/ f \in new) /\ f \notin gone,
           new \cap Live = {},
           \A f \in Closures : f \in Slots(q)' <=> (f \in Slots(q) \/ f \in new) /\ f \notin gone,
           gone \cap Closures \subseteq Slots(q) \cup new,
           closure'[q].running \in {None, closure'[q].enabled},
           closure'["queue"].enabled # None => kind' = "consumer" /\ at' = "up",
           closure'["queue"].kept # None => kind' = "consumer" /\ at' \in HasQueue,
           closure'["partition queue"].enabled # None => split' = "yes",
           closure'["partition queue"].kept # None => split' \in {"yes", "dropped", "dropped last"}
    PROVE  ClosuresDue'
<1>1. PICK p \in Queues : p # q /\ Queues = {p, q}
    BY Zenon DEF Queues
<1>2. Slots(p)' = Slots(p)
    BY Zenon, <1>1 DEF Slots
<1>3. /\ \A f \in Closures : f \in Live <=> f \in Slots(p) \/ f \in Slots(q)
      /\ \A f \in Closures : ~(f \in Slots(p) /\ f \in Slots(q))
    BY Zenon, <1>1 DEF ClosuresDue, Slots, Queues
<1>4. \A f \in Closures : f \in Live' <=> f \in Slots(p)' \/ f \in Slots(q)'
    BY Zenon, <1>2, <1>3
<1>5. \A f \in Closures : ~(f \in Slots(p)' /\ f \in Slots(q)')
    BY Zenon, <1>2, <1>3
<1>6. \A r \in Queues : closure'[r].running \in {None, closure'[r].enabled}
    BY Zenon, <1>1 DEF ClosuresDue
<1>7. \A f \in Closures : f \in Live' <=> \E r \in Queues : f \in {closure'[r].kept, closure'[r].enabled}
    BY Zenon, <1>1, <1>4 DEF Slots
<1>8. \A f \in Closures : ~ /\ f \in {closure'["queue"].kept, closure'["queue"].enabled}
                            /\ f \in {closure'["partition queue"].kept, closure'["partition queue"].enabled}
    BY Zenon, <1>1, <1>5 DEF Slots, Queues
<1> QED
    BY Zenon, <1>6, <1>7, <1>8 DEF ClosuresDue

\* A step that changes only the closures of one queue.
LEMMA CallbackStep ==
    ASSUME IInv, NEW q \in Queues, NEW new \in SUBSET Closures, new \cap Live = {},
           NEW used \in SUBSET Live, NEW gone \in SUBSET (Closures \cap Live),
           Memory(new, used, gone),
           UNCHANGED <<kind, at, confMap, errors, holders, owner, userVars, mockRef, partitioning>>,
           closure' \in [Queues -> ClosureRecords],
           \A p \in Queues \ {q} : closure'[p] = closure[p],
           \A f \in Closures : f \in Slots(q)' <=> (f \in Slots(q) \/ f \in new) /\ f \notin gone,
           gone \subseteq Slots(q),
           closure'[q].running \in {None, closure'[q].enabled},
           closure'[q].enabled # None \/ closure'[q].kept # None =>
               closure[q].enabled # None
                   \/ (kind = "consumer" /\ at = "up" /\ (q = "partition queue" => split = "yes"))
    PROVE  IInv'
<1>0. Typed /\ HandlesDue /\ Staged /\ EventsDue /\ HeadersDue /\ ClosuresDue
    BY Zenon DEF IInv
<1>1. new \in SUBSET Objects /\ used \cup gone \subseteq new \cup Live
    BY Zenon, ObjectSorts
<1>2. /\ mem' \in [Objects -> {"free", "live"}]
      /\ Live' = (Live \cup new) \ gone
      /\ lost' = lost \cup (new \cap Live)
    BY Zenon, <1>0, <1>1, MemoryStep
<1>3. lost' = lost
    BY Zenon, <1>2
<1>4. \A o : o \notin Closures => (o \in Live' <=> o \in Live)
    BY Zenon, <1>2
<1>5. Typed'
    BY Zenon, <1>0, <1>2, <1>3 DEF Typed, userVars
<1>6. HandlesDue' /\ Staged'
    BY Zenon, <1>0, <1>4, SortsApart, HandlesStay
<1>7. EventsDue'
    BY Zenon, <1>0, <1>4, SortsApart, EventsStay
<1>8. HeadersDue'
    BY Zenon, <1>0, <1>4, SortsApart, HeadersStay
<1>9. ClosuresDue'
    <2>1. \A f \in Closures : f \in Live' <=> (f \in Live \/ f \in new) /\ f \notin gone
        BY Zenon, <1>2
    <2>2. split' = split /\ kind' = kind /\ at' = at
        BY Zenon DEF userVars
    <2>3. gone \cap Closures \subseteq Slots(q) \cup new
        BY Zenon
    <2>4. CASE q = "queue"
        <3>1. closure'["partition queue"] = closure["partition queue"]
            BY Zenon, <2>4 DEF Queues
        <3>2. closure'[q].enabled # None \/ closure'[q].kept # None => kind = "consumer" /\ at = "up"
            BY Zenon, <1>0, <2>4 DEF ClosuresDue
        <3>3. /\ closure["partition queue"].enabled # None => split = "yes"
              /\ closure["partition queue"].kept # None => split \in {"yes", "dropped", "dropped last"}
            BY Zenon, <1>0 DEF ClosuresDue
        <3> QED
            BY Zenon, <1>0, <2>1, <2>2, <2>3, <2>4, <3>1, <3>2, <3>3, OneQueue DEF HasQueue
    <2>5. CASE q = "partition queue"
        <3>1. closure'["queue"] = closure["queue"]
            BY Zenon, <2>5 DEF Queues
        <3>2. closure'[q].enabled # None \/ closure'[q].kept # None => split = "yes"
            BY Zenon, <1>0, <2>5 DEF ClosuresDue
        <3>3. /\ closure["queue"].enabled # None => kind = "consumer" /\ at = "up"
              /\ closure["queue"].kept # None => kind = "consumer" /\ at \in HasQueue
            BY Zenon, <1>0 DEF ClosuresDue
        <3> QED
            BY Zenon, <1>0, <2>1, <2>2, <2>3, <2>5, <3>1, <3>2, <3>3, OneQueue
    <2> QED
        BY Zenon, <2>4, <2>5 DEF Queues
<1> QED
    BY Zenon, <1>5, <1>6, <1>7, <1>8, <1>9 DEF IInv

LEMMA EnableCallbackStep ==
    ASSUME IInv, NEW q \in Queues, NEW f \in Closures, EnableCallback(q, f)
    PROVE  IInv'
<1>0. Typed /\ HandlesDue /\ Staged
    BY Zenon DEF IInv
<1>1. /\ closure'[q].enabled = f /\ closure'[q].kept = closure[q].kept
      /\ closure'[q].running = closure[q].running
      /\ \A p \in Queues \ {q} : closure'[p] = closure[p]
      /\ closure' \in [Queues -> ClosureRecords]
    BY Zenon, <1>0, SetEnabled DEF EnableCallback
<1>2. \A g \in Closures : g \in Slots(q)' <=> (g \in Slots(q) \/ g \in {f}) /\ g \notin {}
    BY Zenon, <1>1 DEF Slots, EnableCallback
<1>3. {f} \in SUBSET Closures /\ {f} \cap Live = {}
    BY Zenon DEF EnableCallback
<1>4. {q} \in SUBSET Live
    BY Zenon, <1>0 DEF EnableCallback, HandlesDue, Queues, HasQueue
<1>5. {} \in SUBSET (Closures \cap Live) /\ {} \subseteq Slots(q)
    OBVIOUS
<1>6. kind = "consumer" /\ at = "up" /\ (q = "partition queue" => split = "yes")
    BY Zenon DEF EnableCallback
<1> QED
    BY Zenon, <1>1, <1>2, <1>3, <1>4, <1>5, <1>6, CallbackStep DEF EnableCallback

LEMMA KeepCallbackStep ==
    ASSUME IInv, NEW q \in Queues, KeepCallback(q)
    PROVE  IInv'
<1> DEFINE gone == {closure[q].kept} \ {None}
<1>0. Typed /\ ClosuresDue /\ Staged
    BY Zenon DEF IInv
<1>1. /\ closure[q].kept \in Closures \cup {None}
      /\ closure[q].enabled \in Closures \cup {None}
    BY Zenon, <1>0, ClosureFields
<1>2. /\ closure'[q].kept = closure[q].enabled /\ closure'[q].enabled = closure[q].enabled
      /\ closure'[q].running = closure[q].running
      /\ \A p \in Queues \ {q} : closure'[p] = closure[p]
      /\ closure' \in [Queues -> ClosureRecords]
    BY Zenon, <1>0, <1>1, SetKept DEF KeepCallback
<1>3. gone \in SUBSET (Closures \cap Live) /\ gone \subseteq Slots(q)
    BY Zenon, <1>0, <1>1 DEF ClosuresDue, Slots
<1>4. \A g \in Closures : g \in Slots(q)' <=> (g \in Slots(q) \/ g \in {}) /\ g \notin gone
    BY Zenon, <1>2, ObjectsAssumption DEF Slots, KeepCallback
<1>5. {} \in SUBSET Closures /\ {} \cap Live = {} /\ {} \in SUBSET Live
    OBVIOUS
<1>6. /\ closure'[q].running \in {None, closure'[q].enabled}
      /\ closure'[q].enabled # None \/ closure'[q].kept # None => closure[q].enabled # None
    BY Zenon, <1>0, <1>2 DEF ClosuresDue
<1>7. /\ Memory({}, {}, gone)
      /\ UNCHANGED <<kind, at, confMap, errors, holders, owner, userVars, mockRef, partitioning>>
    BY Zenon DEF KeepCallback
<1> HIDE DEF gone
<1> QED
    BY Zenon, <1>2, <1>3, <1>4, <1>5, <1>6, <1>7, CallbackStep

LEMMA CallbackRunsStep ==
    ASSUME IInv, NEW q \in Queues, CallbackRuns(q) \/ CallbackEnds(q)
    PROVE  IInv'
<1>0. Typed /\ ClosuresDue
    BY Zenon DEF IInv
<1>1. PICK f \in Closures \cup {None} : closure' = [closure EXCEPT ![q].running = f] /\ f \in {None, closure[q].enabled}
    BY Zenon, <1>0, ClosureFields DEF CallbackRuns, CallbackEnds
<1>2. /\ closure'[q].running = f /\ closure'[q].kept = closure[q].kept
      /\ closure'[q].enabled = closure[q].enabled
      /\ \A p \in Queues \ {q} : closure'[p] = closure[p]
      /\ closure' \in [Queues -> ClosureRecords]
    BY Zenon, <1>0, <1>1, SetRunning
<1>3. PICK g : /\ g = closure[q].enabled /\ g # None /\ Memory({}, {g}, {})
               /\ UNCHANGED <<kind, at, confMap, errors, holders, owner, userVars, mockRef, partitioning>>
    BY Zenon, <1>0 DEF CallbackRuns, CallbackEnds, ClosuresDue
<1>4. {g} \in SUBSET Live
    BY Zenon, <1>0, <1>3, ClosureFields DEF ClosuresDue
<1>5. \A h \in Closures : h \in Slots(q)' <=> (h \in Slots(q) \/ h \in {}) /\ h \notin {}
    BY Zenon, <1>2 DEF Slots
<1>6. /\ {} \in SUBSET Closures /\ {} \cap Live = {}
      /\ {} \in SUBSET (Closures \cap Live) /\ {} \subseteq Slots(q)
    OBVIOUS
<1>7. closure'[q].running \in {None, closure'[q].enabled}
    BY Zenon, <1>1, <1>2
<1> QED
    BY Zenon, <1>2, <1>3, <1>4, <1>5, <1>6, <1>7, CallbackStep

LEMMA PartitionerStep ==
    ASSUME IInv, PartitionerRuns \/ PartitionerEnds
    PROVE  IInv'
<1>0. Typed /\ HandlesDue /\ Staged
    BY Zenon DEF IInv
<1>1. at \in {"up", "dropping", "native"}
    BY Zenon, <1>0 DEF PartitionerRuns, PartitionerEnds, Staged
<1>2. /\ {} \in SUBSET Handles /\ {"context"} \in SUBSET ({} \cup Live)
      /\ {} \subseteq {} \cup Live /\ Memory({}, {"context"}, {})
    BY Zenon, <1>0, <1>1 DEF HandlesDue, HasClient, PartitionerRuns, PartitionerEnds
<1>3. /\ mem' \in [Objects -> {"free", "live"}]
      /\ Live' = (Live \cup {}) \ {}
      /\ lost' = lost \cup ({} \cap Live)
      /\ \A o : o \notin Handles => (o \in Live' <=> o \in Live)
    BY Zenon, <1>2, OnlyHandles
<1>4. Live' = Live /\ lost' = lost
    BY Zenon, <1>3
<1>5. UNCHANGED <<kind, at, confMap, errors, holders, owner, userVars, closure, mockRef>>
    BY Zenon DEF PartitionerRuns, PartitionerEnds
<1>6. HandlesDue'
    BY Zenon, <1>0, <1>4, <1>5 DEF HandlesDue, userVars
<1>7. Staged'
    BY Zenon, <1>0, <1>1, <1>4, <1>5 DEF Staged, userVars
<1> QED
    BY Zenon, <1>0, <1>3, <1>4, <1>5, <1>6, <1>7, LifeStep DEF Typed, userVars

LEMMA CallbacksStep ==
    ASSUME IInv, Callbacks
    PROVE  IInv'
BY Zenon, EnableCallbackStep, KeepCallbackStep, CallbackRunsStep, PartitionerStep DEF Callbacks

-----------------------------------------------------------------------------
(* From the configuration to the client *)

\* A step of the creation: only handles, the stage and the errors change.
LEMMA CreationMoves ==
    ASSUME IInv, at \in {"config", "native config", "client"},
           NEW new \in SUBSET Handles, NEW used \in SUBSET (new \cup Live),
           NEW gone \in SUBSET Handles, gone \subseteq new \cup Live,
           Memory(new, used, gone), new \cap Live \subseteq {"log queue"},
           UNCHANGED <<kind, confMap, holders, owner, userVars, closure, partitioning>>,
           at' \in Stages, mockRef' \in {"none", "owned", "borrowed"},
           Live' = (Live \cup new) \ gone => HandlesDue' /\ Staged'
    PROVE  IInv'
<1>0. Typed
    BY Zenon DEF IInv
<1>1. /\ mem' \in [Objects -> {"free", "live"}]
      /\ Live' = (Live \cup new) \ gone
      /\ lost' = lost \cup (new \cap Live)
      /\ \A o : o \notin Handles => (o \in Live' <=> o \in Live)
    BY Zenon, OnlyHandles
<1>2. lost' \subseteq {"log queue"}
    BY Zenon, <1>0, <1>1 DEF Typed
<1>3. at \notin HasQueue /\ at \notin {"dropping", "native"} /\ at # "up"
    BY Zenon DEF HasQueue
<1>4. /\ confMap' \in [Keys -> Values] /\ arcs' \subseteq {"user", "partition queue"} /\ split' = split
    BY Zenon, <1>0 DEF Typed, userVars
<1> QED
    BY Zenon, <1>1, <1>2, <1>3, <1>4, LifeStep

LEMMA SetStep ==
    ASSUME IInv, NEW k \in Keys, NEW v \in Values, Set(k, v)
    PROVE  IInv'
<1>0. Typed /\ HandlesDue /\ Staged
    BY Zenon DEF IInv
<1>1. /\ UNCHANGED <<kind, at, mem, lost, errors, holders, owner, userVars, closure, mockRef, partitioning>>
      /\ at = "config" /\ kind # "mock" /\ Live' = Live
    BY Zenon DEF Set, Live
<1>2. confMap' \in [Keys -> Values]
    BY Zenon, <1>0 DEF Typed, Set
<1>3. HandlesDue'
    BY Zenon, <1>0, <1>1 DEF HandlesDue, Staged, userVars, HasClient
<1>4. Staged'
    BY Zenon, <1>0, <1>1 DEF Staged, userVars
<1>5. /\ mem' \in [Objects -> {"free", "live"}] /\ lost' \subseteq {"log queue"} /\ at' \in Stages
      /\ mockRef' \in {"none", "owned", "borrowed"} /\ arcs' \subseteq {"user", "partition queue"}
      /\ split' = split
    BY Zenon, <1>0, <1>1 DEF Typed, userVars
<1> QED
    BY Zenon, <1>1, <1>2, <1>3, <1>4, <1>5, LifeStep

LEMMA CreateNativeConfigStep ==
    ASSUME IInv, CreateNativeConfig
    PROVE  IInv'
<1>0. HandlesDue /\ Staged /\ Typed
    BY Zenon DEF IInv
<1>1. /\ at = "config" /\ errors = {}
      /\ UNCHANGED <<kind, confMap, errors, holders, owner, userVars, closure, mockRef, partitioning>>
    BY Zenon, <1>0 DEF CreateNativeConfig, Staged
<1>2. /\ "conf" \notin Live /\ "client" \notin Live /\ "context" \notin Live /\ "queue" \notin Live
      /\ "mock" \notin Live /\ "topic" \notin Live
      /\ "partition queue" \in Live <=> split \in {"yes", "dropped", "dropped last"}
    BY Zenon, <1>0, <1>1 DEF HandlesDue, HasClient, HasQueue
<1>3. mockRef = "none" /\ ~partitioning /\ split # "yes" /\ "partition queue" \notin arcs
    BY Zenon, <1>0, <1>1 DEF Staged, Typed
<1>4. CASE Memory({"conf", "context"}, {}, {}) /\ at' = "native config"
    <2>1. /\ {"conf", "context"} \in SUBSET Handles /\ {"conf", "context"} \cap Live \subseteq {"log queue"}
          /\ {} \in SUBSET Handles /\ {} \in SUBSET ({"conf", "context"} \cup Live)
          /\ {} \subseteq {"conf", "context"} \cup Live
        BY Zenon, <1>2 DEF Handles
    <2>2. Live' = (Live \cup {"conf", "context"}) \ {} => HandlesDue'
        BY Zenon, <1>1, <1>2, <1>4 DEF HandlesDue, HasClient, HasQueue, userVars
    <2>3. Staged'
        BY Zenon, <1>0, <1>1, <1>3, <1>4 DEF Staged, userVars
    <2> QED
        BY Zenon, <1>1, <1>3, <1>4, <2>1, <2>2, <2>3, CreationMoves DEF Stages
<1>5. CASE Memory({"conf"}, {}, {"conf"}) /\ at' = "config"
    <2>1. /\ {"conf"} \in SUBSET Handles /\ {"conf"} \cap Live \subseteq {"log queue"}
          /\ {} \in SUBSET ({"conf"} \cup Live) /\ {"conf"} \subseteq {"conf"} \cup Live
        BY Zenon, <1>2 DEF Handles
    <2>2. Live' = (Live \cup {"conf"}) \ {"conf"} => HandlesDue'
        BY Zenon, <1>1, <1>2, <1>5 DEF HandlesDue, HasClient, HasQueue, userVars
    <2>3. Staged'
        BY Zenon, <1>0, <1>1, <1>3, <1>5 DEF Staged, userVars
    <2> QED
        BY Zenon, <1>1, <1>3, <1>5, <2>1, <2>2, <2>3, CreationMoves DEF Stages
<1> QED
    BY Zenon, <1>4, <1>5 DEF CreateNativeConfig

\* Where the creation is once the native configuration is made.
LEMMA Creating ==
    ASSUME HandlesDue, Staged, Typed, at \in {"native config", "client"}
    PROVE  /\ errors = {} /\ mockRef = "none" /\ ~partitioning /\ split # "yes"
           /\ "partition queue" \notin arcs
           /\ "conf" \in Live /\ "context" \in Live /\ "queue" \notin Live /\ "topic" \notin Live
           /\ "partition queue" \in Live <=> split \in {"yes", "dropped", "dropped last"}
           /\ "client" \in Live <=> at = "client"
           /\ "mock" \in Live <=> at = "client" /\ confMap["test.mock.num.brokers"] = "taken"
           /\ kind = "mock" => confMap["test.mock.num.brokers"] = "unset"
<1>1. errors = {} /\ mockRef = "none" /\ ~partitioning /\ split # "yes" /\ "partition queue" \notin arcs
    BY Zenon DEF Staged, Typed
<1>2. kind = "mock" => confMap["test.mock.num.brokers"] = "unset"
    BY Zenon DEF Staged
<1>3. /\ "conf" \in Live /\ "context" \in Live /\ "queue" \notin Live /\ "topic" \notin Live
      /\ "partition queue" \in Live <=> split \in {"yes", "dropped", "dropped last"}
    BY Zenon DEF HandlesDue, HasClient, HasQueue
<1>4. /\ "client" \in Live <=> at = "client"
      /\ "mock" \in Live <=> at = "client" /\ confMap["test.mock.num.brokers"] = "taken"
    BY Zenon, <1>1, <1>2 DEF HandlesDue, HasClient
<1> QED
    BY Zenon, <1>1, <1>2, <1>3, <1>4

LEMMA NewClientStep ==
    ASSUME IInv, NewClient
    PROVE  IInv'
<1>0. HandlesDue /\ Staged /\ Typed /\ HeadersDue
    BY Zenon DEF IInv
<1>1. /\ at = "native config" /\ {"conf"} \subseteq Live
      /\ UNCHANGED <<kind, confMap, holders, owner, userVars, closure, mockRef, partitioning>>
    BY Zenon, <1>0, Creating DEF NewClient
<1>2. /\ errors = {} /\ mockRef = "none" /\ ~partitioning /\ split # "yes"
      /\ "partition queue" \notin arcs
      /\ "conf" \in Live /\ "context" \in Live /\ "queue" \notin Live /\ "topic" \notin Live
      /\ "partition queue" \in Live <=> split \in {"yes", "dropped", "dropped last"}
      /\ "client" \notin Live /\ "mock" \notin Live
      /\ kind = "mock" => confMap["test.mock.num.brokers"] = "unset"
    BY Zenon, <1>0, <1>1, Creating
<1>3. /\ Made \in SUBSET Handles /\ Made \cap Live \subseteq {"log queue"}
      /\ "client" \in Made /\ "conf" \notin Made /\ "context" \notin Made /\ "queue" \notin Made
      /\ "topic" \notin Made /\ "partition queue" \notin Made
      /\ "mock" \in Made <=> confMap["test.mock.num.brokers"] = "taken"
    BY Zenon, <1>2 DEF Made, Handles
<1>4. \A new \in {{}, Made}, gone \in {{}, {"context"}, {"conf", "context"}} :
          /\ new \in SUBSET Handles /\ {"conf"} \in SUBSET (new \cup Live)
          /\ gone \in SUBSET Handles /\ gone \subseteq new \cup Live
          /\ new \cap Live \subseteq {"log queue"}
    BY Zenon, <1>2, <1>3 DEF Handles
<1>5. ASSUME at' \in {"config", "gone", "client"}, errors' # {} => at' = "gone"
      PROVE  Staged'
    BY Zenon, <1>0, <1>1, <1>2, <1>5 DEF Staged, userVars
<1>6. CASE Memory({}, {"conf"}, {"conf", "context"}) /\ at' = "config" /\ UNCHANGED errors
    <2>1. Live' = (Live \cup {}) \ {"conf", "context"} => HandlesDue'
        BY Zenon, <1>1, <1>2, <1>6 DEF HandlesDue, HasClient, HasQueue, userVars
    <2>2. Staged'
        BY Zenon, <1>2, <1>5, <1>6
    <2> QED
        BY Zenon, <1>1, <1>2, <1>4, <1>6, <2>1, <2>2, CreationMoves DEF Stages
<1>7. CASE Memory({}, {"conf"}, {"context"}) /\ at' = "gone" /\ errors' = {"new"}
    <2>1. Live' = (Live \cup {}) \ {"context"} => HandlesDue'
        BY Zenon, <1>1, <1>2, <1>7 DEF HandlesDue, HasClient, HasQueue, userVars
    <2>2. Staged'
        BY Zenon, <1>5, <1>7
    <2> QED
        BY Zenon, <1>1, <1>2, <1>4, <1>7, <2>1, <2>2, CreationMoves DEF Stages
<1>8. CASE Memory(Made, {"conf"}, {"context"}) /\ at' = "gone" /\ errors' = {"log"}
    <2>1. Live' = (Live \cup Made) \ {"context"} => HandlesDue'
        BY Zenon, <1>1, <1>2, <1>3, <1>8 DEF HandlesDue, HasClient, HasQueue, userVars
    <2>2. Staged'
        BY Zenon, <1>5, <1>8
    <2> QED
        BY Zenon, <1>1, <1>2, <1>4, <1>8, <2>1, <2>2, CreationMoves DEF Stages
<1>9. CASE Memory(Made, {"conf"}, {}) /\ at' = "client" /\ UNCHANGED errors
    <2>1. Live' = (Live \cup Made) \ {} => HandlesDue'
        BY Zenon, <1>1, <1>2, <1>3, <1>9 DEF HandlesDue, HasClient, HasQueue, userVars
    <2>2. Staged'
        BY Zenon, <1>2, <1>5, <1>9
    <2> QED
        BY Zenon, <1>1, <1>2, <1>4, <1>9, <2>1, <2>2, CreationMoves DEF Stages
<1> QED
    BY Zenon, <1>6, <1>7, <1>8, <1>9 DEF NewClient

LEMMA FinishClientStep ==
    ASSUME IInv, FinishClient
    PROVE  IInv'
<1>0. HandlesDue /\ Staged /\ Typed /\ HeadersDue
    BY Zenon DEF IInv
<1>1. /\ at = "client"
      /\ UNCHANGED <<kind, confMap, errors, holders, owner, userVars, closure, partitioning>>
    BY Zenon DEF FinishClient
<1>2. /\ errors = {} /\ mockRef = "none" /\ ~partitioning /\ split # "yes"
      /\ "partition queue" \notin arcs
      /\ "conf" \in Live /\ "context" \in Live /\ "queue" \notin Live /\ "topic" \notin Live
      /\ "partition queue" \in Live <=> split \in {"yes", "dropped", "dropped last"}
      /\ "client" \in Live
      /\ "mock" \in Live <=> confMap["test.mock.num.brokers"] = "taken"
      /\ kind = "mock" => confMap["test.mock.num.brokers"] = "unset"
    BY Zenon, <1>0, <1>1, Creating
<1>3. WithClient = {"client", "conf"} \cup ({"mock"} \cap Live)
    <2>1. {h \in Headers : owner[h] = "native"} = {}
        BY Zenon, <1>0, <1>1 DEF HeadersDue
    <2>2. kind = "mock" => {"mock"} \cap Live = {}
        BY Zenon, <1>2
    <2>3. {"topic"} \cap Live = {}
        BY Zenon, <1>2
    <2> QED
        BY Zenon, <2>1, <2>2, <2>3 DEF WithClient
<1>4. CASE Memory({}, {}, WithClient \cup {"context"}) /\ at' = "config" /\ UNCHANGED mockRef
    <2>1. /\ WithClient \cup {"context"} \in SUBSET Handles /\ {} \in SUBSET Handles
          /\ WithClient \cup {"context"} \subseteq {} \cup Live /\ {} \in SUBSET ({} \cup Live)
          /\ {} \cap Live \subseteq {"log queue"}
        BY Zenon, <1>2, <1>3 DEF Handles
    <2>2. Live' = (Live \cup {}) \ (WithClient \cup {"context"}) => HandlesDue'
        BY Zenon, <1>1, <1>2, <1>3, <1>4 DEF HandlesDue, HasClient, HasQueue, userVars
    <2>3. Staged'
        BY Zenon, <1>1, <1>2, <1>4 DEF Staged, userVars
    <2> QED
        BY Zenon, <1>1, <1>2, <1>4, <2>1, <2>2, <2>3, CreationMoves DEF Stages
<1>5. CASE NativeQueue /\ at' = "up" /\ UNCHANGED mockRef
    <2>1. /\ {"queue"} \in SUBSET Handles /\ {} \in SUBSET Handles
          /\ {"client"} \in SUBSET ({"queue"} \cup Live) /\ {} \subseteq {"queue"} \cup Live
          /\ {"queue"} \cap Live \subseteq {"log queue"}
        BY Zenon, <1>2 DEF Handles, Queues
    <2>2. Live' = (Live \cup {"queue"}) \ {} => HandlesDue'
        BY Zenon, <1>1, <1>2, <1>5 DEF HandlesDue, HasClient, HasQueue, userVars, NativeQueue
    <2>3. Staged'
        BY Zenon, <1>1, <1>2, <1>5 DEF Staged, userVars, NativeQueue
    <2> QED
        BY Zenon, <1>1, <1>2, <1>5, <2>1, <2>2, <2>3, CreationMoves DEF Stages, NativeQueue
<1>6. CASE kind = "mock" /\ Memory({"mock"}, {"client"}, {}) /\ at' = "up" /\ mockRef' = "owned"
    <2>1. /\ {"mock"} \in SUBSET Handles /\ {} \in SUBSET Handles
          /\ {"client"} \in SUBSET ({"mock"} \cup Live) /\ {} \subseteq {"mock"} \cup Live
          /\ {"mock"} \cap Live \subseteq {"log queue"}
        BY Zenon, <1>2, <1>6 DEF Handles
    <2>2. Live' = (Live \cup {"mock"}) \ {} => HandlesDue'
        BY Zenon, <1>1, <1>2, <1>6 DEF HandlesDue, HasClient, HasQueue, userVars
    <2>3. Staged'
        BY Zenon, <1>1, <1>2, <1>6 DEF Staged, userVars
    <2> QED
        BY Zenon, <1>1, <1>2, <1>6, <2>1, <2>2, <2>3, CreationMoves DEF Stages
<1> QED
    BY Zenon, <1>4, <1>5, <1>6 DEF FinishClient

LEMMA CreationStep ==
    ASSUME IInv, Creation
    PROVE  IInv'
BY Zenon, SetStep, CreateNativeConfigStep, NewClientStep, FinishClientStep DEF Creation

-----------------------------------------------------------------------------
(* The drop of the client *)

LEMMA BeginDropStep ==
    ASSUME IInv, BeginDrop
    PROVE  IInv'
<1> DEFINE used == {"client"} \cup (IF kind = "mock" THEN {} ELSE {"queue"})
<1>0. Typed /\ HandlesDue /\ Staged /\ EventsDue /\ HeadersDue /\ ClosuresDue
    BY Zenon DEF IInv
<1>1. /\ at = "up" /\ at' = "dropping" /\ arcs \subseteq {"user"} /\ arcs' = {} /\ mockRef # "borrowed"
      /\ UNCHANGED <<kind, confMap, errors, holders, owner, split, mockRef, partitioning>>
      /\ kind = "admin" \/ (\A e \in Events : holders[e] = {})
    BY Zenon DEF BeginDrop, Unborrowed
<1>2. used \in SUBSET ({} \cup Live) /\ {} \in SUBSET Handles /\ {} \subseteq {} \cup Live /\ Memory({}, used, {})
    BY Zenon, <1>0, <1>1 DEF HandlesDue, HasClient, HasQueue, BeginDrop
<1>3. /\ mem' \in [Objects -> {"free", "live"}]
      /\ Live' = (Live \cup {}) \ {}
      /\ lost' = lost \cup ({} \cap Live)
    <2> HIDE DEF used
    <2> QED
        BY Zenon, <1>2, OnlyHandles
<1> HIDE DEF used
<1>4. Live' = Live /\ lost' = lost
    BY Zenon, <1>3
<1>5. /\ closure'["queue"].enabled = None /\ closure'["queue"].kept = closure["queue"].kept
      /\ closure'["queue"].running = closure["queue"].running
      /\ closure'["partition queue"] = closure["partition queue"]
      /\ \A p \in Queues \ {"queue"} : closure'[p] = closure[p]
      /\ closure' \in [Queues -> ClosureRecords]
    <2>1. "queue" \in Queues /\ None \in Closures \cup {None} /\ "partition queue" \in Queues \ {"queue"}
        BY Zenon DEF Queues
    <2>2. closure' = [closure EXCEPT !["queue"].enabled = None]
        BY Zenon DEF BeginDrop
    <2> QED
        BY Zenon, <1>0, <2>1, <2>2, SetEnabled
<1>6. Typed'
    BY Zenon, <1>0, <1>1, <1>3, <1>4, <1>5 DEF Typed, Stages
<1>7. HandlesDue'
    BY Zenon, <1>0, <1>1, <1>4 DEF HandlesDue, HasClient, HasQueue
<1>8. Staged'
    <2>1. "partition queue" \notin arcs /\ "partition queue" \notin arcs'
        BY Zenon, <1>1
    <2> QED
        BY Zenon, <1>0, <1>1, <1>4, <2>1 DEF Staged
<1>9. EventsDue'
    BY Zenon, <1>0, <1>1, <1>4, EventsStay
<1>10. HeadersDue'
    BY Zenon, <1>0, <1>1, <1>4, HeadersStay
<1>11. ClosuresDue'
    <2>1. closure["queue"].running = None
        <3>1. kind # "consumer" => closure["queue"].enabled = None
            BY Zenon, <1>0 DEF ClosuresDue
        <3>2. closure["queue"].running \in {None, closure["queue"].enabled}
            BY Zenon, <1>0 DEF ClosuresDue, Queues
        <3> QED
            BY Zenon, <3>1, <3>2 DEF BeginDrop
    <2>2. \A f \in Closures : f \in Slots("queue")' <=> (f \in Slots("queue") \/ f \in {}) /\ f \notin {}
        BY Zenon, <1>5, ObjectsAssumption DEF Slots, BeginDrop
    <2>3. /\ closure["queue"].kept # None => kind = "consumer"
          /\ closure["partition queue"].enabled # None => split = "yes"
          /\ closure["partition queue"].kept # None => split \in {"yes", "dropped", "dropped last"}
        BY Zenon, <1>0 DEF ClosuresDue
    <2>4. /\ {} \in SUBSET Closures /\ {} \cap Live = {} /\ {} \cap Closures \subseteq Slots("queue") \cup {}
          /\ "queue" \in Queues
        BY Zenon DEF Queues
    <2>5. at' \in HasQueue
        BY Zenon, <1>1 DEF HasQueue
    <2> QED
        BY ZenonT(40), <1>0, <1>1, <1>4, <1>5, <2>1, <2>2, <2>3, <2>4, <2>5, OneQueue
<1> QED
    BY Zenon, <1>6, <1>7, <1>8, <1>9, <1>10, <1>11 DEF IInv

LEMMA EndDropStep ==
    ASSUME IInv, EndDrop
    PROVE  IInv'
<1> DEFINE gone == IF kind = "mock" THEN {"mock"} ELSE {}
<1>0. Typed /\ HandlesDue /\ Staged
    BY Zenon DEF IInv
<1>1. /\ at = "dropping" /\ at' = "native" /\ mockRef' = "none"
      /\ UNCHANGED <<kind, confMap, errors, holders, owner, userVars, closure, partitioning>>
    BY Zenon DEF EndDrop
<1>2. /\ {"client"} \in SUBSET ({} \cup Live) /\ {} \in SUBSET Handles /\ gone \in SUBSET Handles
      /\ gone \subseteq {} \cup Live /\ Memory({}, {"client"}, gone)
    BY Zenon, <1>0, <1>1 DEF HandlesDue, HasClient, EndDrop, Handles
<1>3. /\ mem' \in [Objects -> {"free", "live"}]
      /\ Live' = (Live \cup {}) \ gone
      /\ lost' = lost \cup ({} \cap Live)
      /\ \A o : o \notin Handles => (o \in Live' <=> o \in Live)
    <2> HIDE DEF gone
    <2> QED
        BY Zenon, <1>2, OnlyHandles
<1>4. HandlesDue'
    BY Zenon, <1>0, <1>1, <1>3 DEF HandlesDue, HasClient, HasQueue, userVars
<1>5. Staged'
    BY Zenon, <1>0, <1>1 DEF Staged, userVars
<1>6. /\ lost' \subseteq {"log queue"} /\ at' \in Stages /\ confMap' \in [Keys -> Values]
      /\ arcs' \subseteq {"user", "partition queue"} /\ split' = split /\ at' \in HasQueue
    BY Zenon, <1>0, <1>1, <1>3 DEF Typed, userVars, HasQueue, Stages
<1> HIDE DEF gone
<1> QED
    BY Zenon, <1>1, <1>3, <1>4, <1>5, <1>6, LifeStep

LEMMA DropNativeStep ==
    ASSUME IInv, DropNative
    PROVE  IInv'
<1> DEFINE sent == {h \in Headers : owner[h] = "native"}
           own(h) == IF owner[h] = "native" THEN "nobody" ELSE owner[h]
<1>0. Typed /\ HandlesDue /\ Staged /\ EventsDue /\ HeadersDue /\ ClosuresDue
    BY Zenon DEF IInv
<1>1. /\ at = "native" /\ at' = "context" /\ ~partitioning /\ errors = {} /\ mockRef = "none"
      /\ UNCHANGED <<kind, confMap, errors, holders, userVars, closure, mockRef, partitioning>>
      /\ owner' = [h \in Headers |-> own(h)]
    BY Zenon, <1>0 DEF DropNative, Staged, Typed
<1>2. /\ "client" \in Live /\ "conf" \in Live /\ "context" \in Live /\ sent \subseteq Live
      /\ "queue" \in Live <=> kind # "mock"
      /\ "mock" \in Live => kind # "mock"
      /\ "partition queue" \in Live <=> split \in {"yes", "dropped", "dropped last"}
    BY Zenon, <1>0, <1>1 DEF HandlesDue, HeadersDue, HasClient, HasQueue
<1>3. /\ WithClient = {"client", "conf"} \cup ({"topic", "mock"} \cap Live) \cup sent
      /\ WithClient \subseteq Live
    BY Zenon, <1>2 DEF WithClient
<1>4. /\ mem' \in [Objects -> {"free", "live"}]
      /\ Live' = (Live \cup {}) \ WithClient
      /\ lost' = lost \cup ({} \cap Live)
    <2>1. {} \in SUBSET Objects /\ {} \cup WithClient \subseteq {} \cup Live /\ Memory({}, {}, WithClient)
        BY Zenon, <1>3 DEF DropNative
    <2> QED
        BY Zenon, <1>0, <2>1, MemoryStep
<1>5. lost' = lost
    BY Zenon, <1>4
<1>6. \A o : o \notin Handles /\ o \notin sent => (o \in Live' <=> o \in Live)
    BY Zenon, <1>3, <1>4 DEF Handles
<1>7. Typed'
    <2>1. \A h \in Headers : own(h) \in {"nobody", "user", "message", "record", "native"}
        BY Zenon, <1>0 DEF Typed
    <2> HIDE DEF own
    <2>2. owner' \in [Headers -> {"nobody", "user", "message", "record", "native"}]
        BY Zenon, <1>1, <2>1
    <2> QED
        BY Zenon, <1>0, <1>1, <1>4, <1>5, <2>2 DEF Typed, Stages, userVars
<1>8. HandlesDue'
    <2>1. \A o \in Handles : o \notin sent
        BY Zenon, SortsApart
    <2>2. /\ "client" \notin Live' /\ "conf" \notin Live' /\ "context" \in Live' /\ "mock" \notin Live'
          /\ "topic" \notin Live'
          /\ "queue" \in Live' <=> "queue" \in Live
          /\ "partition queue" \in Live' <=> "partition queue" \in Live
        <3> HIDE DEF sent
        <3> QED
            BY Zenon, <1>2, <1>3, <1>4, <2>1 DEF Handles, Queues
    <2> QED
        BY Zenon, <1>1, <1>2, <2>2 DEF HandlesDue, HasClient, HasQueue, userVars
<1>9. Staged'
    BY Zenon, <1>0, <1>1 DEF Staged, userVars
<1>10. EventsDue'
    <2>1. kind = "admin" \/ (\A e \in Events : holders[e] = {})
        BY Zenon, <1>0, <1>1 DEF EventsDue
    <2>2. \A e \in Events : e \in Live' <=> e \in Live
        BY Zenon, <1>6, SortsApart
    <2> QED
        BY Zenon, <1>0, <1>1, <2>1, <2>2, EventsStay
<1>11. HeadersDue'
    <2>1. \A h \in Headers : owner'[h] = own(h)
        BY Zenon, <1>1
    <2>2. \A h \in sent : h \notin Live' /\ owner'[h] = "nobody"
        BY Zenon, <1>3, <1>4, <2>1
    <2>3. \A h \in Headers \ sent : owner'[h] = owner[h] /\ owner[h] # "native" /\ (h \in Live' <=> h \in Live)
        BY Zenon, <1>6, <2>1, SortsApart
    <2> QED
        BY Zenon, <1>0, <2>2, <2>3 DEF HeadersDue
<1>12. ClosuresDue'
    <2>1. \A f \in Closures : f \in Live' <=> f \in Live
        BY Zenon, <1>6, SortsApart
    <2> QED
        BY Zenon, <1>0, <1>1, <2>1, ClosuresStay DEF HasQueue, userVars
<1> QED
    BY Zenon, <1>7, <1>8, <1>9, <1>10, <1>11, <1>12 DEF IInv

LEMMA DropContextStep ==
    ASSUME IInv, DropContext
    PROVE  IInv'
<1>0. Typed /\ HandlesDue /\ Staged
    BY Zenon DEF IInv
<1>1. /\ at = "context" /\ at' = IF kind = "mock" THEN "gone" ELSE "queue"
      /\ UNCHANGED <<kind, confMap, errors, holders, owner, userVars, closure, mockRef, partitioning>>
    BY Zenon DEF DropContext
<1>2. /\ {"context"} \subseteq {} \cup Live /\ {} \in SUBSET Handles /\ {"context"} \in SUBSET Handles
      /\ {} \in SUBSET ({} \cup Live) /\ Memory({}, {}, {"context"})
    BY Zenon, <1>0, <1>1 DEF HandlesDue, DropContext, Handles
<1>3. /\ mem' \in [Objects -> {"free", "live"}]
      /\ Live' = (Live \cup {}) \ {"context"}
      /\ lost' = lost \cup ({} \cap Live)
      /\ \A o : o \notin Handles => (o \in Live' <=> o \in Live)
    BY Zenon, <1>2, OnlyHandles
<1>4. HandlesDue'
    BY Zenon, <1>0, <1>1, <1>3 DEF HandlesDue, HasClient, HasQueue, userVars
<1>5. Staged'
    BY Zenon, <1>0, <1>1 DEF Staged, userVars
<1>6. /\ lost' \subseteq {"log queue"} /\ at' \in Stages /\ confMap' \in [Keys -> Values]
      /\ arcs' \subseteq {"user", "partition queue"} /\ split' = split
      /\ at' \in HasQueue \/ kind # "consumer"
    BY Zenon, <1>0, <1>1, <1>3 DEF Typed, userVars, HasQueue, Stages
<1>7. mockRef' \in {"none", "owned", "borrowed"}
    BY Zenon, <1>0, <1>1 DEF Typed
<1> QED
    BY Zenon, <1>1, <1>3, <1>4, <1>5, <1>6, <1>7, LifeStep

LEMMA DropQueueStep ==
    ASSUME IInv, DropQueue
    PROVE  IInv'
<1> DEFINE kept == {closure["queue"].kept} \ {None}
<1>0. Typed /\ HandlesDue /\ Staged /\ EventsDue /\ HeadersDue /\ ClosuresDue
    BY Zenon DEF IInv
<1>1. /\ at = "queue" /\ at' = "gone"
      /\ UNCHANGED <<kind, confMap, errors, holders, owner, userVars, mockRef, partitioning>>
      /\ closure' = [closure EXCEPT !["queue"].kept = None]
    BY Zenon DEF DropQueue
<1>2. "queue" \in Queues /\ "partition queue" \in Queues /\ None \in Closures \cup {None}
    BY Zenon DEF Queues
<1>3. kept \subseteq Closures /\ kept \subseteq Live /\ kept \subseteq Slots("queue") /\ "queue" \in Live /\ kind # "mock"
    <2>1. closure["queue"].kept \in Closures \cup {None}
        BY Zenon, <1>0, <1>2, ClosureFields
    <2>2. "queue" \in Live /\ kind # "mock"
        BY Zenon, <1>0, <1>1 DEF HandlesDue, Staged, HasQueue
    <2> QED
        BY Zenon, <1>0, <1>2, <2>1, <2>2 DEF ClosuresDue, Slots
<1>4. /\ mem' \in [Objects -> {"free", "live"}]
      /\ Live' = (Live \cup {}) \ ({"queue"} \cup kept)
      /\ lost' = lost \cup ({} \cap Live)
    <2>1. Memory({}, {}, {"queue"} \cup kept)
        BY Zenon DEF DropQueue
    <2> HIDE DEF kept
    <2>2. {} \in SUBSET Objects /\ {} \cup ({"queue"} \cup kept) \subseteq {} \cup Live
        BY Zenon, <1>3
    <2> QED
        BY Zenon, <1>0, <2>1, <2>2, MemoryStep
<1>5. /\ closure'["queue"].kept = None /\ closure'["queue"].enabled = closure["queue"].enabled
      /\ closure'["queue"].running = closure["queue"].running
      /\ \A p \in Queues \ {"queue"} : closure'[p] = closure[p]
      /\ closure' \in [Queues -> ClosureRecords]
    BY Zenon, <1>0, <1>1, <1>2, SetKept
<1>6. closure["queue"].enabled = None /\ closure["queue"].running = None
    BY Zenon, <1>0, <1>1, <1>2 DEF ClosuresDue
<1>7. \A f \in Closures : f \in Slots("queue")' <=> (f \in Slots("queue") \/ f \in {}) /\ f \notin kept
    BY Zenon, <1>5, <1>6, ObjectsAssumption DEF Slots
<1> HIDE DEF kept
<1>8. lost' = lost
    BY Zenon, <1>4
<1>9. \A o : o # "queue" /\ o \notin kept => (o \in Live' <=> o \in Live)
    BY Zenon, <1>4
<1>10. Typed'
    BY Zenon, <1>0, <1>1, <1>4, <1>5, <1>8 DEF Typed, Stages, userVars
<1>11. HandlesDue'
    <2>1. \A o \in Handles \ {"queue"} : o \in Live' <=> o \in Live
        BY Zenon, <1>3, <1>9, SortsApart
    <2>2. "queue" \notin Live'
        BY Zenon, <1>4
    <2>3. \A o \in {"conf", "client", "context", "partition queue", "mock", "topic"} : o \in Live' <=> o \in Live
        BY Zenon, <2>1 DEF Handles, Queues
    <2> QED
        BY Zenon, <1>0, <1>1, <1>3, <2>2, <2>3 DEF HandlesDue, HasClient, HasQueue, userVars
<1>12. Staged'
    BY Zenon, <1>0, <1>1 DEF Staged, userVars
<1>13. EventsDue'
    <2>1. \A e \in Events : e \in Live' <=> e \in Live
        BY Zenon, <1>3, <1>9, SortsApart DEF Handles, Queues
    <2>2. kind = "admin" \/ (\A e \in Events : holders[e] = {})
        BY Zenon, <1>0, <1>1 DEF EventsDue
    <2> QED
        BY Zenon, <1>0, <1>1, <2>1, <2>2, EventsStay
<1>14. HeadersDue'
    <2>1. \A h \in Headers : h \in Live' <=> h \in Live
        BY Zenon, <1>3, <1>9, SortsApart DEF Handles, Queues
    <2> QED
        BY Zenon, <1>0, <1>1, <2>1, HeadersStay
<1>15. ClosuresDue'
    <2>1. \A f \in Closures : f \in Live' <=> (f \in Live \/ f \in {}) /\ f \notin kept
        <3>1. \A f \in Closures : f # "queue"
            BY Zenon, SortsApart DEF Handles, Queues
        <3> QED
            BY Zenon, <1>4, <3>1
    <2>2. /\ {} \in SUBSET Closures /\ {} \cap Live = {} /\ kept \cap Closures \subseteq Slots("queue") \cup {}
          /\ closure'["partition queue"] = closure["partition queue"] /\ split' = split
        BY Zenon, <1>1, <1>2, <1>3, <1>5 DEF userVars
    <2>3. /\ closure["partition queue"].enabled # None => split = "yes"
          /\ closure["partition queue"].kept # None => split \in {"yes", "dropped", "dropped last"}
        BY Zenon, <1>0 DEF ClosuresDue
    <2> QED
        BY Zenon, <1>0, <1>2, <1>5, <1>6, <1>7, <2>1, <2>2, <2>3, OneQueue
<1> QED
    BY Zenon, <1>10, <1>11, <1>12, <1>13, <1>14, <1>15 DEF IInv

LEMMA DropStep ==
    ASSUME IInv, Drop
    PROVE  IInv'
BY Zenon, BeginDropStep, EndDropStep, DropNativeStep, DropContextStep, DropQueueStep DEF Drop

-----------------------------------------------------------------------------
(* The queue of a partition *)

LEMMA SplitPartitionQueueStep ==
    ASSUME IInv, SplitPartitionQueue
    PROVE  IInv'
<1>0. Typed /\ HandlesDue /\ Staged /\ EventsDue /\ HeadersDue /\ ClosuresDue
    BY Zenon DEF IInv
<1>1. /\ at = "up" /\ kind = "consumer" /\ split = "no" /\ split' = "yes" /\ arcs' = arcs \cup {"partition queue"}
      /\ UNCHANGED <<kind, at, confMap, errors, holders, owner, closure, mockRef, partitioning>>
    BY Zenon DEF SplitPartitionQueue, InUse
<1>2. /\ {"partition queue"} \in SUBSET Handles /\ {} \in SUBSET Handles
      /\ {"client"} \in SUBSET ({"partition queue"} \cup Live) /\ {} \subseteq {"partition queue"} \cup Live
      /\ Memory({"partition queue"}, {"client"}, {}) /\ "partition queue" \notin Live
    BY Zenon, <1>0, <1>1 DEF HandlesDue, HasClient, Handles, Queues, SplitPartitionQueue
<1>3. /\ mem' \in [Objects -> {"free", "live"}]
      /\ Live' = (Live \cup {"partition queue"}) \ {}
      /\ lost' = lost \cup ({"partition queue"} \cap Live)
      /\ \A o : o \notin Handles => (o \in Live' <=> o \in Live)
    BY Zenon, <1>2, OnlyHandles
<1>4. lost' = lost
    BY Zenon, <1>2, <1>3
<1>5. Typed'
    BY Zenon, <1>0, <1>1, <1>3, <1>4 DEF Typed
<1>6. HandlesDue'
    BY Zenon, <1>0, <1>1, <1>3 DEF HandlesDue
<1>7. Staged'
    BY Zenon, <1>0, <1>1, <1>3 DEF Staged
<1>8. EventsDue'
    BY Zenon, <1>0, <1>1, <1>3, SortsApart, EventsStay
<1>9. HeadersDue'
    BY Zenon, <1>0, <1>1, <1>3, SortsApart, HeadersStay
<1>10. ClosuresDue'
    <2>1. \A f \in Closures : f \in Live' <=> f \in Live
        BY Zenon, <1>3, SortsApart
    <2> QED
        BY Zenon, <1>0, <1>1, <2>1 DEF ClosuresDue
<1> QED
    BY Zenon, <1>5, <1>6, <1>7, <1>8, <1>9, <1>10 DEF IInv

LEMMA DropArcStep ==
    ASSUME IInv, DropArc
    PROVE  IInv'
<1>0. Typed /\ HandlesDue /\ Staged
    BY Zenon DEF IInv
<1>1. /\ arcs = {"user", "partition queue"} /\ arcs' = {"partition queue"} /\ Memory({}, {}, {})
      /\ UNCHANGED <<kind, at, confMap, errors, holders, owner, split, closure, mockRef, partitioning>>
    BY Zenon DEF DropArc
<1>2. {} \in SUBSET Handles /\ {} \in SUBSET ({} \cup Live) /\ {} \subseteq {} \cup Live
    OBVIOUS
<1>3. /\ mem' \in [Objects -> {"free", "live"}]
      /\ Live' = (Live \cup {}) \ {}
      /\ lost' = lost \cup ({} \cap Live)
    BY Zenon, <1>1, <1>2, OnlyHandles
<1>4. Live' = Live /\ lost' = lost
    BY <1>3
<1>5. HandlesDue'
    BY Zenon, <1>0, <1>1, <1>4 DEF HandlesDue
<1>6. Staged'
    BY Zenon, <1>0, <1>1, <1>4 DEF Staged
<1> QED
    BY Zenon, <1>0, <1>1, <1>3, <1>4, <1>5, <1>6, LifeStep DEF Typed

\* The closures of the partition queue are given up; what refers to the rest stays.
LEMMA PartitionDrops ==
    ASSUME IInv, UNCHANGED <<kind, at, confMap, errors, holders, owner, mockRef, partitioning>>,
           mem' \in [Objects -> {"free", "live"}], lost' = lost,
           NEW kept \in SUBSET Closures, kept \subseteq Slots("partition queue"),
           \A o : o \notin kept /\ o # "partition queue" => (o \in Live' <=> o \in Live),
           kept \cap Live' = {},
           "partition queue" \in Live' <=> split' \in {"yes", "dropped", "dropped last"},
           split' \in {"dropped", "dropped last", "gone"},
           arcs' \subseteq {"user"},
           \A p \in Queues \ {"partition queue"} : closure'[p] = closure[p],
           closure' \in [Queues -> ClosureRecords],
           closure'["partition queue"].enabled = None, closure'["partition queue"].running = None,
           closure'["partition queue"].kept # None => split' # "gone",
           \A f \in Closures : f \in Slots("partition queue")' <=>
                               (f \in Slots("partition queue") \/ f \in {}) /\ f \notin kept
    PROVE  IInv'
<1>0. Typed /\ HandlesDue /\ Staged /\ EventsDue /\ HeadersDue /\ ClosuresDue
    BY Zenon DEF IInv
<1>1. Typed'
    BY Zenon, <1>0 DEF Typed
<1>2. \A o \in Handles \ {"partition queue"} : o \in Live' <=> o \in Live
    BY Zenon, SortsApart
<1>3. \A o \in {"conf", "client", "context", "queue", "mock", "topic"} : o \in Live' <=> o \in Live
    BY Zenon, <1>2 DEF Handles, Queues
<1>4. HandlesDue'
    BY Zenon, <1>0, <1>3 DEF HandlesDue
<1>5. Staged'
    <2>1. "partition queue" \notin arcs' /\ split' # "yes"
        BY Zenon
    <2> QED
        BY Zenon, <1>0, <1>3, <2>1 DEF Staged
<1>6. \A o : o \in Events \cup Headers \cup Closures => o # "partition queue"
    BY Zenon, SortsApart DEF Handles, Queues
<1>7. EventsDue'
    <2>1. \A e \in Events : e \in Live' <=> e \in Live
        BY Zenon, <1>6, SortsApart
    <2> QED
        BY Zenon, <1>0, <2>1, EventsStay
<1>8. HeadersDue'
    <2>1. \A h \in Headers : h \in Live' <=> h \in Live
        BY Zenon, <1>6, SortsApart
    <2> QED
        BY Zenon, <1>0, <2>1, HeadersStay
<1>9. ClosuresDue'
    <2>1. \A f \in Closures : f \in Live' <=> (f \in Live \/ f \in {}) /\ f \notin kept
        <3> SUFFICES ASSUME NEW f \in Closures
                     PROVE  f \in Live' <=> (f \in Live \/ f \in {}) /\ f \notin kept
            BY Zenon
        <3>1. CASE f \in kept
            BY Zenon, <3>1
        <3>2. CASE f \notin kept
            BY Zenon, <1>6, <3>2
        <3> QED
            BY Zenon, <3>1, <3>2
    <2>2. /\ {} \in SUBSET Closures /\ {} \cap Live = {}
          /\ kept \cap Closures \subseteq Slots("partition queue") \cup {}
          /\ "partition queue" \in Queues /\ closure'["queue"] = closure["queue"]
        BY Zenon DEF Queues
    <2>3. /\ closure["queue"].enabled # None => kind = "consumer" /\ at = "up"
          /\ closure["queue"].kept # None => kind = "consumer" /\ at \in HasQueue
        BY Zenon, <1>0 DEF ClosuresDue
    <2>4. /\ closure'["partition queue"].kept # None => split' \in {"yes", "dropped", "dropped last"}
          /\ closure'["partition queue"].enabled # None => split' = "yes"
        BY Zenon
    <2>5. closure'["partition queue"].running \in {None, closure'["partition queue"].enabled}
        BY Zenon
    <2> QED
        BY Zenon, <1>0, <2>1, <2>2, <2>3, <2>4, <2>5, OneQueue
<1> QED
    BY Zenon, <1>1, <1>4, <1>5, <1>7, <1>8, <1>9 DEF IInv

LEMMA DropPartitionArcStep ==
    ASSUME IInv, DropPartitionArc
    PROVE  IInv'
<1>0. Typed /\ HandlesDue /\ Staged
    BY Zenon DEF IInv
<1>1. /\ split = "yes" /\ split' = (IF "user" \in arcs THEN "dropped" ELSE "dropped last")
      /\ arcs' = arcs \ {"partition queue"} /\ Memory({}, {"partition queue"}, {})
      /\ UNCHANGED <<kind, at, confMap, errors, holders, owner, mockRef, partitioning>>
      /\ closure' = [closure EXCEPT !["partition queue"].enabled = None]
    BY Zenon DEF DropPartitionArc
<1>2. /\ {} \in SUBSET Handles /\ {"partition queue"} \in SUBSET ({} \cup Live) /\ {} \subseteq {} \cup Live
      /\ "partition queue" \in Queues /\ None \in Closures \cup {None} /\ "partition queue" \in Live
    BY Zenon, <1>0, <1>1 DEF HandlesDue, Queues
<1>3. /\ mem' \in [Objects -> {"free", "live"}]
      /\ Live' = (Live \cup {}) \ {}
      /\ lost' = lost \cup ({} \cap Live)
    BY Zenon, <1>1, <1>2, OnlyHandles
<1>4. Live' = Live /\ lost' = lost /\ arcs' \subseteq {"user"} /\ split' \in {"dropped", "dropped last", "gone"}
      /\ {} \in SUBSET Closures /\ {} \subseteq Slots("partition queue") /\ {} \cap Live' = {}
    BY Zenon, <1>0, <1>1, <1>3 DEF Typed
<1>5. /\ closure'["partition queue"].enabled = None
      /\ closure'["partition queue"].kept = closure["partition queue"].kept
      /\ closure'["partition queue"].running = closure["partition queue"].running
      /\ \A p \in Queues \ {"partition queue"} : closure'[p] = closure[p]
      /\ closure' \in [Queues -> ClosureRecords]
    BY Zenon, <1>0, <1>1, <1>2, SetEnabled
<1>6. \A f \in Closures : f \in Slots("partition queue")' <=>
                            (f \in Slots("partition queue") \/ f \in {}) /\ f \notin {}
    BY Zenon, <1>5, ObjectsAssumption DEF Slots, DropPartitionArc
<1>7. closure'["partition queue"].running = None /\ split' # "gone" /\ split' \in {"yes", "dropped", "dropped last"}
    BY Zenon, <1>1, <1>5 DEF DropPartitionArc
<1> QED
    BY Zenon, <1>1, <1>2, <1>3, <1>4, <1>5, <1>6, <1>7, PartitionDrops

LEMMA DropPartitionQueueStep ==
    ASSUME IInv, DropPartitionQueue
    PROVE  IInv'
<1> DEFINE kept == {closure["partition queue"].kept} \ {None}
<1>0. Typed /\ HandlesDue /\ Staged /\ ClosuresDue
    BY Zenon DEF IInv
<1>1. /\ split \in {"dropped", "dropped last"} /\ split' = "gone" /\ Memory({}, {}, {"partition queue"} \cup kept)
      /\ UNCHANGED <<kind, at, confMap, errors, holders, owner, arcs, mockRef, partitioning>>
      /\ closure' = [closure EXCEPT !["partition queue"].kept = None]
    BY Zenon DEF DropPartitionQueue
<1>2. "partition queue" \in Queues /\ None \in Closures \cup {None}
    BY Zenon DEF Queues
<1>3. /\ kept \in SUBSET Closures /\ kept \subseteq Live /\ kept \subseteq Slots("partition queue")
      /\ "partition queue" \in Live
    <2>1. closure["partition queue"].kept \in Closures \cup {None}
        BY Zenon, <1>0, <1>2, ClosureFields
    <2>2. "partition queue" \in Live
        BY Zenon, <1>0, <1>1 DEF HandlesDue
    <2> QED
        BY Zenon, <1>0, <1>2, <2>1, <2>2 DEF ClosuresDue, Slots
<1>4. /\ mem' \in [Objects -> {"free", "live"}]
      /\ Live' = (Live \cup {}) \ ({"partition queue"} \cup kept)
      /\ lost' = lost \cup ({} \cap Live)
    <2> HIDE DEF kept
    <2>1. {} \in SUBSET Objects /\ {} \cup ({"partition queue"} \cup kept) \subseteq {} \cup Live
        BY Zenon, <1>3
    <2> QED
        BY Zenon, <1>0, <1>1, <2>1, MemoryStep
<1>5. /\ closure'["partition queue"].kept = None
      /\ closure'["partition queue"].enabled = closure["partition queue"].enabled
      /\ closure'["partition queue"].running = closure["partition queue"].running
      /\ \A p \in Queues \ {"partition queue"} : closure'[p] = closure[p]
      /\ closure' \in [Queues -> ClosureRecords]
    BY Zenon, <1>0, <1>1, <1>2, SetKept
<1>6. closure["partition queue"].enabled = None /\ closure["partition queue"].running = None
    BY Zenon, <1>0, <1>1, <1>2 DEF ClosuresDue
<1>7. \A f \in Closures : f \in Slots("partition queue")' <=>
                            (f \in Slots("partition queue") \/ f \in {}) /\ f \notin kept
    BY Zenon, <1>5, <1>6, ObjectsAssumption DEF Slots
<1> HIDE DEF kept
<1>8. /\ lost' = lost /\ kept \cap Live' = {} /\ "partition queue" \notin Live'
      /\ \A o : o \notin kept /\ o # "partition queue" => (o \in Live' <=> o \in Live)
    BY Zenon, <1>4
<1>9. arcs' \subseteq {"user"} /\ split' \notin {"yes", "dropped", "dropped last"}
    BY Zenon, <1>0, <1>1 DEF Staged, Typed
<1> QED
    BY Zenon, <1>1, <1>3, <1>4, <1>5, <1>6, <1>7, <1>8, <1>9, PartitionDrops

LEMMA PartitionStep ==
    ASSUME IInv, Partition
    PROVE  IInv'
BY Zenon, SplitPartitionQueueStep, DropArcStep, DropPartitionArcStep, DropPartitionQueueStep DEF Partition

-----------------------------------------------------------------------------
(* The theorems *)

LEMMA InitIInv == Init => IInv
<1> SUFFICES ASSUME Init PROVE IInv
    OBVIOUS
<1>0. /\ at = "config" /\ errors = {} /\ split = "no" /\ mockRef = "none" /\ partitioning = FALSE /\ arcs = {"user"}
      /\ kind \in Kinds /\ lost = {} /\ confMap = [k \in Keys |-> "unset"] /\ mem = [o \in Objects |-> "free"]
      /\ holders = [e \in Events |-> {}] /\ owner = [h \in Headers |-> "nobody"]
    BY Zenon DEF Init
<1>1. Live = {}
    BY Zenon, <1>0 DEF Live
<1>2. \A q \in Queues : closure[q] = [kept |-> None, enabled |-> None, running |-> None]
    BY Zenon DEF Init
<1>3. \A q \in Queues : closure[q].kept = None /\ closure[q].enabled = None /\ closure[q].running = None
    BY <1>2
<1>4. confMap["test.mock.num.brokers"] = "unset"
    BY Zenon, <1>0 DEF Keys
<1>5. Typed
    <2>1. closure \in [Queues -> ClosureRecords]
        BY Zenon DEF Init, ClosureRecords
    <2>2. confMap \in [Keys -> Values] /\ mem \in [Objects -> {"free", "live"}]
        BY Zenon, <1>0 DEF Values
    <2>3. holders \in [Events -> SUBSET {"poll", "message", "future"}]
        BY Zenon, <1>0
    <2>4. owner \in [Headers -> {"nobody", "user", "message", "record", "native"}]
        BY Zenon, <1>0
    <2>5. kind \in ClientKinds /\ at \in Stages
        BY Zenon, <1>0, ObjectsAssumption DEF Stages
    <2> QED
        BY Zenon, <1>0, <2>1, <2>2, <2>3, <2>4, <2>5 DEF Typed
<1>6. HandlesDue
    BY Zenon, <1>0, <1>1, <1>4 DEF HandlesDue, HasClient, HasQueue
<1>7. Staged
    BY Zenon, <1>0, <1>4 DEF Staged
<1>8. EventsDue /\ HeadersDue
    BY Zenon, <1>0, <1>1 DEF EventsDue, HeadersDue
<1>9. ClosuresDue
    BY Zenon, <1>1, <1>3, ObjectsAssumption DEF ClosuresDue, Queues
<1> QED
    BY Zenon, <1>5, <1>6, <1>7, <1>8, <1>9 DEF IInv

LEMMA Stutter == IInv /\ UNCHANGED vars => IInv'
<1> SUFFICES ASSUME IInv, UNCHANGED vars PROVE IInv'
    OBVIOUS
<1>0. Typed /\ HandlesDue /\ Staged /\ EventsDue /\ HeadersDue /\ ClosuresDue
    BY Zenon DEF IInv
<1>1. /\ kind' = kind /\ at' = at /\ confMap' = confMap /\ mem' = mem /\ lost' = lost /\ errors' = errors
      /\ holders' = holders /\ owner' = owner /\ userVars' = userVars /\ closure' = closure
      /\ mockRef' = mockRef /\ partitioning' = partitioning
    BY Zenon DEF vars
<1>2. Live' = Live
    BY Zenon, <1>1 DEF Live
<1>3. HandlesDue' /\ Staged'
    BY Zenon, <1>0, <1>1, <1>2, HandlesStay
<1> QED
    BY Zenon, <1>0, <1>1, <1>2, <1>3, LifeStep DEF Typed, userVars

LEMMA NextIInv == IInv /\ [Next]_vars => IInv'
BY Zenon, CreationStep, EventStepsStep, HeaderStepsStep, QueriesStep, CallbacksStep, DropStep,
   PartitionStep, Stutter DEF Next

\* The inductive invariant: the objects that are there are those the stage of the
\* client's life and the wrappers account for.
THEOREM ObjectsInvariance == Spec => []IInv
BY InitIInv, NextIInv, PTL DEF Spec

\* No object of librdkafka, no context and no closure is used or freed after it was
\* freed, whatever the number of events, headers and closures.
THEOREM Intact == Spec => []NeverDangling
<1>1. IInv => NeverDangling
    BY Zenon DEF IInv, Typed, NeverDangling
<1> QED
    BY ObjectsInvariance, <1>1, PTL

\* No pointer is lost but that of the queue of the logs, and once the client and the
\* user's values are dropped, only what a failed creation has made, the string of the
\* cluster id and that queue are left.
THEOREM NothingElseLeaks == Spec => []OnlyKnownLeaks
<1>1. ASSUME IInv PROVE OnlyKnownLeaks
    <2>0. Typed /\ HandlesDue /\ Staged /\ EventsDue /\ HeadersDue /\ ClosuresDue
        BY Zenon, <1>1 DEF IInv
    <2>1. lost \subseteq KnownLeaks
        BY Zenon, <2>0 DEF Typed, KnownLeaks
    <2>2. ASSUME at = "gone", split \in {"no", "gone"}, \A e \in Events : holders[e] = {},
                 \A h \in Headers : owner[h] = "nobody", NEW o \in Live
          PROVE  o \in KnownLeaks \cup {"snapshot"}
        <3>1. o \in Objects
            BY Zenon DEF Live
        <3>2. o \notin Events /\ o \notin Headers
            BY Zenon, <2>0, <2>2 DEF EventsDue, HeadersDue
        <3>3. o \notin Closures
            <4>1. at \notin HasQueue /\ at # "up" /\ split \notin {"yes", "dropped", "dropped last"}
                BY Zenon, <2>2 DEF HasQueue
            <4>2. /\ closure["queue"].kept = None /\ closure["queue"].enabled = None
                  /\ closure["partition queue"].kept = None /\ closure["partition queue"].enabled = None
                BY Zenon, <2>0, <4>1 DEF ClosuresDue
            <4>3. \A q \in Queues : closure[q].kept = None /\ closure[q].enabled = None
                BY Zenon, <4>2 DEF Queues
            <4>4. \A f \in Closures : f \in Live => \E q \in Queues : f \in {closure[q].kept, closure[q].enabled}
                BY Zenon, <2>0 DEF ClosuresDue
            <4> QED
                BY Zenon, <4>3, <4>4, ObjectsAssumption
        <3>4. o \in Handles
            BY Zenon, <3>1, <3>2, <3>3 DEF Objects
        <3>5. o \notin {"context", "queue", "partition queue", "topic"}
            BY Zenon, <2>0, <2>2 DEF HandlesDue, HasClient, HasQueue
        <3>6. o = "conf" => errors # {}
            BY Zenon, <2>0, <2>2 DEF HandlesDue, HasClient
        <3>7. o \in {"client", "mock"} => "log" \in errors
            BY Zenon, <2>0, <2>2 DEF HandlesDue, HasClient
        <3> QED
            BY Zenon, <3>4, <3>5, <3>6, <3>7 DEF Handles, Queues, KnownLeaks
    <2> QED
        BY Zenon, <2>1, <2>2 DEF OnlyKnownLeaks
<1> QED
    BY ObjectsInvariance, <1>1, PTL

=============================================================================
