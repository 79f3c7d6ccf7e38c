------------------------- MODULE BaseProducerProofs -------------------------
(***************************************************************************)
(* Proofs about BaseProducer, for any set of threads, any finite set of    *)
(* records and any capacity of the producer queue.                         *)
(*                                                                         *)
(* The inductive invariant is Inv of BaseProducer.  OnePlace alone is not  *)
(* inductive: that the record a thread sends is in no queue yet follows    *)
(* from OpaqueHasOwner and Handled, that a destroyed client leaves no      *)
(* thread with an event follows from Control.                              *)
(***************************************************************************)
EXTENDS BaseProducer, FiniteSetTheorems, TLAPS

-----------------------------------------------------------------------------
(* The main queue and the events the threads hold, as sets of messages *)

\* Taking the first event off a queue of disjoint events (PollOther,
\* PollReport) takes its messages, and no other, out of the queue.
LEMMA TakeEvent ==
    ASSUME TypeOK, OnePlace, events # <<>>, events' = Tail(events)
    PROVE  /\ events' \in Seq(SUBSET Msgs)
           /\ Head(events) \in SUBSET Msgs
           /\ Head(events) \subseteq InEvents
           /\ InEvents' = InEvents \ Head(events)
           /\ \A i, j \in 1..Len(events') : i # j => events'[i] \cap events'[j] = {}
<1>1. /\ Len(events) \in Nat
      /\ Len(events) > 0
      /\ \A i \in 1..Len(events) : events[i] \in SUBSET Msgs
  BY DEF TypeOK
<1>2. /\ events' \in Seq(SUBSET Msgs)
      /\ Len(events') = Len(events) - 1
      /\ \A i \in 1..Len(events') : events'[i] = events[i + 1]
      /\ Head(events) = events[1]
  BY <1>1 DEF TypeOK
<1>3. \A i, j \in 1..Len(events) : i # j => events[i] \cap events[j] = {}
  BY Zenon DEF OnePlace
<1>4. Head(events) \subseteq InEvents
  BY <1>1, <1>2 DEF InEvents
<1>5. ASSUME NEW m \in Msgs
      PROVE  m \in InEvents' <=> m \in InEvents \ Head(events)
  <2>1. ASSUME NEW i \in 1..Len(events'), m \in events'[i]
        PROVE  m \in InEvents \ Head(events)
    <3>1. i + 1 \in 1..Len(events) /\ 1 \in 1..Len(events) /\ i + 1 # 1
      BY <1>1, <1>2
    <3>2. m \in events[i + 1]
      BY Zenon, <2>1, <1>2
    <3>3. m \notin events[1]
      BY Zenon, <3>1, <3>2, <1>3
    <3> QED
      BY Zenon, <3>1, <3>2, <3>3, <1>2 DEF InEvents
  <2>2. ASSUME NEW i \in 1..Len(events), m \in events[i], m \notin Head(events)
        PROVE  m \in InEvents'
    <3>1. i # 1
      BY Zenon, <2>2, <1>2
    <3>2. i - 1 \in 1..Len(events') /\ (i - 1) + 1 = i
      BY <3>1, <1>1, <1>2
    <3>3. m \in events'[i - 1]
      BY Zenon, <3>2, <1>2, <2>2
    <3> QED
      BY Zenon, <3>2, <3>3 DEF InEvents
  <2> QED
    BY Zenon, <2>1, <2>2 DEF InEvents
<1>6. InEvents' = InEvents \ Head(events)
  BY Zenon, <1>5 DEF InEvents
<1>7. ASSUME NEW i \in 1..Len(events'), NEW j \in 1..Len(events'), i # j
      PROVE  events'[i] \cap events'[j] = {}
  <2>1. i + 1 \in 1..Len(events) /\ j + 1 \in 1..Len(events) /\ i + 1 # j + 1
    BY <1>1, <1>2, <1>7
  <2> QED
    BY Zenon, <2>1, <1>2, <1>3
<1> QED
  BY <1>1, <1>2, <1>4, <1>6, <1>7

\* An event is appended whose messages are in no other event (Report,
\* EmitOther, PurgeNative).
LEMMA AddEvent ==
    ASSUME TypeOK, OnePlace,
           NEW ms \in SUBSET Msgs, ms \cap InEvents = {},
           events' = Append(events, ms)
    PROVE  /\ events' \in Seq(SUBSET Msgs)
           /\ InEvents' = InEvents \cup ms
           /\ \A i, j \in 1..Len(events') : i # j => events'[i] \cap events'[j] = {}
<1>1. /\ Len(events) \in Nat
      /\ events' \in Seq(SUBSET Msgs)
      /\ Len(events') = Len(events) + 1
      /\ \A i \in 1..Len(events) : events'[i] = events[i]
      /\ events'[Len(events) + 1] = ms
  BY DEF TypeOK
<1>2. \A i, j \in 1..Len(events) : i # j => events[i] \cap events[j] = {}
  BY Zenon DEF OnePlace
<1>3. 1..Len(events') = 1..Len(events) \cup {Len(events) + 1}
  BY <1>1
<1>4. InEvents' = InEvents \cup ms
  BY Zenon, <1>1, <1>3 DEF InEvents
<1>5. \A i \in 1..Len(events) : events[i] \cap ms = {}
  <2>1. \A i \in 1..Len(events) : events[i] \subseteq Msgs
    BY DEF TypeOK
  <2> QED
    BY Zenon, <2>1 DEF InEvents
<1>6. ASSUME NEW i \in 1..Len(events'), NEW j \in 1..Len(events'), i # j
      PROVE  events'[i] \cap events'[j] = {}
  <2>1. CASE i \in 1..Len(events) /\ j \in 1..Len(events)
    BY Zenon, <2>1, <1>1, <1>2, <1>6
  <2>2. CASE i \in 1..Len(events) /\ j = Len(events) + 1
    BY Zenon, <2>2, <1>1, <1>5
  <2>3. CASE i = Len(events) + 1 /\ j \in 1..Len(events)
    BY Zenon, <2>3, <1>1, <1>5
  <2> QED
    BY Zenon, <2>1, <2>2, <2>3, <1>3, <1>6
<1> QED
  BY Zenon, <1>1, <1>4, <1>6

-----------------------------------------------------------------------------
(* Steps that only move a thread *)

\* A thread that holds no event goes from one point of the code to another,
\* outside the dispatch of a delivery report.
LEMMA Move ==
    ASSUME Inv, NEW t \in Threads, NEW p, NEW o,
           UNCHANGED <<opaque, nativeVars, held, todo>>,
           held[t] = {},
           Goto(t, p), p \in Points \ {"deliver", "callback"},
           op' = [op EXCEPT ![t] = o], o \in Ops,
           never' \in [Threads -> BOOLEAN],
           p = "idle" <=> o = "none",
           p = "check" => o \in {"flush", "drop"},
           p = "destroy" => o = "drop",
           o = "drop" => op[t] = "drop",
           p # "idle" => native = "up" /\ \A u \in Threads \ {t} : op[u] # "drop"
    PROVE  Inv'
<1> USE DEF Inv, Goto, nativeVars
<1>1. TypeOK'
  BY Zenon DEF TypeOK
<1>2. /\ at' \in [Threads -> Points] /\ op' \in [Threads -> Ops]
      /\ at'[t] = p /\ op'[t] = o
      /\ \A u \in Threads \ {t} : at'[u] = at[u] /\ op'[u] = op[u]
      /\ native' = native /\ held' = held /\ todo' = todo /\ opaque' = opaque
  BY Zenon DEF TypeOK
<1>3. Control'
  <2> SUFFICES ASSUME NEW u \in Threads
               PROVE  /\ at'[u] = "idle" <=> op'[u] = "none"
                      /\ at'[u] = "check" => op'[u] \in {"flush", "drop"}
                      /\ at'[u] = "destroy" => op'[u] = "drop"
                      /\ todo[u] \subseteq held[u]
                      /\ held[u] # {} => at'[u] \in {"deliver", "callback"}
                      /\ op'[u] = "drop" => \A v \in Threads \ {u} : at'[v] = "idle"
                      /\ native = "down" => at'[u] = "idle"
    BY <1>2 DEF Control
  <2>1. CASE u = t
    BY <2>1, <1>2 DEF Control
  <2>2. CASE u # t
    BY <2>2, <1>2 DEF Control
  <2> QED
    BY Zenon, <2>1, <2>2
<1>4. InEvents' = InEvents /\ Held' = Held
  BY Zenon DEF InEvents, Held
<1>5. OnePlace' /\ OpaqueHasOwner'
  BY Zenon, <1>4 DEF OnePlace, OpaqueHasOwner
<1>6. Handled'
  <2>1. ASSUME NEW m \in Msgs, opaque[m] = "callback"
        PROVE  \E u \in Threads : at'[u] = "callback" /\ m \in held[u] \ todo[u]
    <3>1. PICK u \in Threads : at[u] = "callback" /\ m \in held[u] \ todo[u]
      BY Zenon, <2>1 DEF Handled
    <3>2. u # t
      BY Zenon, <3>1
    <3> QED
      BY Zenon, <3>1, <3>2, <1>2
  <2> QED
    BY <2>1, <1>2 DEF Handled
<1> QED
  BY Zenon, <1>1, <1>3, <1>5, <1>6

\* A thread that is inside the producer is alone with a drop in progress, and
\* the client is there.
LEMMA Inside ==
    ASSUME Inv, NEW t \in Threads, at[t] # "idle"
    PROVE  /\ native = "up"
           /\ \A u \in Threads \ {t} : op[u] # "drop"
           /\ op[t] \in Ops \ {"none"}
           /\ at[t] \in Points
           /\ never[t] \in BOOLEAN
BY Zenon DEF Inv, TypeOK, Control

\* A thread at any other point than the message loop holds no event.
LEMMA HoldsNothing ==
    ASSUME Inv, NEW t \in Threads, at[t] \notin {"deliver", "callback"}
    PROVE  held[t] = {} /\ todo[t] = {}
BY Zenon DEF Inv, Control

\* The moves inside poll and flush.
LEMMA MovesInv ==
    ASSUME Inv, NEW t \in Threads,
           \/ PollNone(t) \/ PollAgain(t) \/ PollReturns(t)
           \/ FlushOk(t) \/ FlushTimesOut(t) \/ FlushPolls(t)
    PROVE  Inv'
<1>1. op = [op EXCEPT ![t] = op[t]] /\ never \in [Threads -> BOOLEAN]
  BY Zenon DEF Inv, TypeOK
<1>2. ASSUME NEW p \in Points \ {"deliver", "callback", "idle", "check", "destroy"},
             at[t] \notin {"idle", "deliver", "callback"}, Goto(t, p),
             UNCHANGED <<opaque, nativeVars, op, never, held, todo>>
      PROVE  Inv'
  BY Zenon, <1>1, <1>2, Inside, HoldsNothing, Move DEF Inv
<1>3. CASE PollNone(t)
  BY Zenon, <1>2, <1>3 DEF PollNone, Points
<1>4. CASE PollAgain(t)
  BY Zenon, <1>2, <1>4 DEF PollAgain, Points
<1>5. CASE FlushPolls(t)
  BY Zenon, <1>2, <1>5 DEF FlushPolls, Points
<1>6. CASE PollReturns(t)
  <2>1. CASE op[t] = "poll"
    <3>1. Goto(t, "idle") /\ op' = [op EXCEPT ![t] = "none"]
      BY Zenon, <1>6, <2>1 DEF PollReturns, Inv, TypeOK
    <3> QED
      BY Zenon, <3>1, <1>1, <1>6, <2>1, HoldsNothing, Move DEF PollReturns, Points, Ops
  <2>2. CASE op[t] # "poll"
    <3>1. Goto(t, "check") /\ op' = [op EXCEPT ![t] = op[t]]
      BY Zenon, <1>6, <2>2 DEF PollReturns, Inv, TypeOK
    <3>2. op[t] \in {"flush", "drop"}
      BY Zenon, <1>6, <2>2, Inside DEF PollReturns, Ops
    <3> QED
      BY Zenon, <3>1, <3>2, <1>1, <1>6, Inside, HoldsNothing, Move
         DEF PollReturns, Points, Ops
  <2> QED
    BY Zenon, <2>1, <2>2
<1>7. CASE FlushOk(t) \/ FlushTimesOut(t)
  <2>1. at[t] = "check" /\ FlushReturn(t) /\ op[t] \in {"flush", "drop"}
    BY Zenon, <1>7 DEF FlushOk, FlushTimesOut, Inv, Control
  <2>2. CASE op[t] = "drop"
    <3>1. Goto(t, "destroy") /\ op' = [op EXCEPT ![t] = op[t]]
      BY Zenon, <2>1, <2>2 DEF FlushReturn, Inv, TypeOK
    <3> QED
      BY Zenon, <3>1, <1>1, <2>1, <2>2, Inside, HoldsNothing, Move
         DEF FlushReturn, Points, Ops
  <2>3. CASE op[t] = "flush"
    <3>1. Goto(t, "idle") /\ op' = [op EXCEPT ![t] = "none"]
      BY Zenon, <2>1, <2>3 DEF FlushReturn, Inv, TypeOK
    <3> QED
      BY Zenon, <3>1, <1>1, <2>1, <2>3, HoldsNothing, Move DEF FlushReturn, Points, Ops
  <2> QED
    BY Zenon, <2>1, <2>2, <2>3
<1> QED
  BY Zenon, <1>3, <1>4, <1>5, <1>6, <1>7

-----------------------------------------------------------------------------
(* The dispatch of an event *)

\* An event that reports no message is consumed.
LEMMA PollOtherInv ==
    ASSUME Inv, NEW t \in Threads, PollOther(t)
    PROVE  Inv'
<1> USE DEF PollOther, Goto, Inv
<1>1. /\ events' \in Seq(SUBSET Msgs)
      /\ InEvents' = InEvents
      /\ \A i, j \in 1..Len(events') : i # j => events'[i] \cap events'[j] = {}
  BY Zenon, TakeEvent
<1>2. held[t] = {} /\ native = "up" /\ op[t] # "none"
  BY Zenon, HoldsNothing, Inside
<1>3. TypeOK'
  BY Zenon, <1>1 DEF TypeOK, Points
<1>4. Held' = Held
  BY Zenon DEF Held
<1>5. OnePlace' /\ OpaqueHasOwner'
  BY Zenon, <1>1, <1>4 DEF OnePlace, OpaqueHasOwner
<1>6. /\ at'[t] = "elapsed"
      /\ \A u \in Threads \ {t} : at'[u] = at[u]
  BY Zenon DEF TypeOK
<1>7. Control'
  BY <1>2, <1>6 DEF Control
<1>8. Handled'
  <2>1. ASSUME NEW m \in Msgs, opaque[m] = "callback"
        PROVE  \E u \in Threads : at'[u] = "callback" /\ m \in held[u] \ todo[u]
    <3>1. PICK u \in Threads : at[u] = "callback" /\ m \in held[u] \ todo[u]
      BY Zenon, <2>1 DEF Handled
    <3> QED
      BY Zenon, <3>1, <1>2, <1>6
  <2> QED
    BY Zenon, <2>1 DEF Handled
<1> QED
  BY Zenon, <1>3, <1>5, <1>7, <1>8

\* A delivery report is taken off the main queue by one thread.
LEMMA PollReportInv ==
    ASSUME Inv, NEW t \in Threads, PollReport(t)
    PROVE  Inv'
<1> USE DEF PollReport, Goto, Inv
<1> DEFINE ms == Head(events)
<1>1. /\ events' \in Seq(SUBSET Msgs)
      /\ ms \in SUBSET Msgs
      /\ ms \subseteq InEvents
      /\ InEvents' = InEvents \ ms
      /\ \A i, j \in 1..Len(events') : i # j => events'[i] \cap events'[j] = {}
  BY Zenon, TakeEvent
<1>2. held[t] = {} /\ todo[t] = {} /\ native = "up" /\ op[t] # "none"
  BY Zenon, HoldsNothing, Inside
<1>3. TypeOK'
  BY Zenon, <1>1 DEF TypeOK, Points
<1>4. /\ at'[t] = "deliver" /\ held'[t] = ms /\ todo'[t] = ms
      /\ \A u \in Threads \ {t} :
            at'[u] = at[u] /\ held'[u] = held[u] /\ todo'[u] = todo[u]
      /\ opaque' = opaque /\ op' = op /\ native' = native
      /\ queued' = queued /\ inflight' = inflight
  BY Zenon DEF TypeOK
<1> HIDE DEF PollReport, Goto, ms
<1>5. Held' = Held \cup ms
  BY Zenon, <1>1, <1>2, <1>4 DEF Held
<1>6. OnePlace'
  <2>1. \A u \in Threads : held[u] \cap ms = {}
    BY Zenon, <1>1 DEF OnePlace, Held, TypeOK
  <2>2. \A u, v \in Threads : u # v => held'[u] \cap held'[v] = {}
    BY Zenon, <2>1, <1>4 DEF OnePlace
  <2>3. /\ queued' \cap inflight' = {}
        /\ (queued' \cup inflight') \cap (InEvents' \cup Held') = {}
        /\ InEvents' \cap Held' = {}
    BY Zenon, <1>1, <1>4, <1>5 DEF OnePlace
  <2> QED
    BY Zenon, <1>1, <2>2, <2>3 DEF OnePlace
<1>7. OpaqueHasOwner'
  <2>1. \A m \in Msgs : (\E u \in Threads : m \in todo'[u]) <=>
                            m \in ms \/ \E u \in Threads : m \in todo[u]
    BY Zenon, <1>2, <1>4
  <2> QED
    BY Zenon, <1>1, <1>2, <1>4, <2>1 DEF OpaqueHasOwner
<1>8. Control'
  BY <1>2, <1>4 DEF Control
<1>9. Handled'
  <2>1. ASSUME NEW m \in Msgs, opaque[m] = "callback"
        PROVE  \E u \in Threads : at'[u] = "callback" /\ m \in held'[u] \ todo'[u]
    <3>1. PICK u \in Threads : at[u] = "callback" /\ m \in held[u] \ todo[u]
      BY Zenon, <2>1 DEF Handled
    <3> QED
      BY Zenon, <3>1, <1>2, <1>4
  <2>2. \A m \in ms : opaque[m] = "raw"
    BY Zenon, <1>1, <1>2 DEF OpaqueHasOwner
  <2>3. ASSUME NEW u \in Threads, NEW m \in held'[u], NEW n \in held'[u],
               opaque[m] = "callback", opaque[n] = "callback"
        PROVE  m = n
    BY Zenon, <2>2, <2>3, <1>4 DEF Handled
  <2>4. ASSUME NEW u \in Threads, NEW m \in held'[u] \ todo'[u]
        PROVE  opaque[m] \in {"callback", "reported"}
    BY <2>4, <1>4 DEF Handled
  <2> QED
    BY <2>1, <2>3, <2>4, <1>4 DEF Handled
<1> QED
  BY Zenon, <1>3, <1>6, <1>7, <1>8, <1>9

\* A message a thread holds and has not handled is raw, and is nowhere else.
LEMMA TodoIsRaw ==
    ASSUME Inv, NEW t \in Threads, at[t] # "idle", NEW m \in todo[t]
    PROVE  /\ m \in Msgs
           /\ m \in held[t]
           /\ opaque[m] = "raw"
           /\ m \notin queued \cup inflight \cup InEvents
           /\ \A u \in Threads \ {t} : m \notin held[u] /\ m \notin todo[u]
<1>1. m \in Msgs /\ m \in held[t] /\ native = "up"
  BY Zenon, Inside DEF Inv, TypeOK, Control
<1>2. m \in Held
  BY Zenon, <1>1 DEF Held
<1>3. m \notin queued \cup inflight \cup InEvents
  BY Zenon, <1>2 DEF Inv, OnePlace
<1>4. \A u \in Threads \ {t} : m \notin held[u]
  BY Zenon, <1>1 DEF Inv, OnePlace
<1>5. \A u \in Threads \ {t} : m \notin todo[u]
  BY Zenon, <1>4 DEF Inv, Control
<1> QED
  BY Zenon, <1>1, <1>3, <1>4, <1>5 DEF Inv, OpaqueHasOwner

\* The opaque of one message of the event is rebuilt and handed to delivery().
LEMMA DeliverInv ==
    ASSUME Inv, NEW t \in Threads, NEW m \in Msgs, Deliver(t, m)
    PROVE  Inv'
<1> USE DEF Deliver, Goto, Inv, nativeVars
<1>1. /\ m \in held[t]
      /\ opaque[m] = "raw"
      /\ m \notin queued \cup inflight \cup InEvents
      /\ \A u \in Threads \ {t} : m \notin held[u] /\ m \notin todo[u]
  BY Zenon, TodoIsRaw
<1>2. native = "up" /\ op[t] # "none"
  BY Zenon, Inside
<1>3. TypeOK'
  BY Zenon DEF TypeOK, Points, Owners
<1>4. /\ at'[t] = "callback" /\ todo'[t] = todo[t] \ {m} /\ opaque'[m] = "callback"
      /\ \A u \in Threads \ {t} : at'[u] = at[u] /\ todo'[u] = todo[u]
      /\ \A n \in Msgs \ {m} : opaque'[n] = opaque[n]
      /\ held' = held /\ op' = op /\ native' = native
      /\ queued' = queued /\ inflight' = inflight /\ events' = events
      /\ at[t] = "deliver" /\ m \in todo[t]
  BY Zenon DEF TypeOK
<1>5. InEvents' = InEvents /\ Held' = Held
  BY Zenon, <1>4 DEF InEvents, Held
<1>6. OnePlace'
  BY Zenon, <1>4, <1>5 DEF OnePlace
<1> HIDE DEF Deliver, Goto
<1>7. OpaqueHasOwner'
  <2>1. ASSUME NEW n \in Msgs \ {m}
        PROVE  (\E u \in Threads : n \in todo'[u]) <=> (\E u \in Threads : n \in todo[u])
    BY Zenon, <1>4
  <2>2. ~ \E u \in Threads : m \in todo'[u]
    BY Zenon, <1>1, <1>4
  <2> QED
    BY <1>1, <1>2, <1>4, <1>5, <2>1, <2>2 DEF OpaqueHasOwner
<1>8. Control'
  BY <1>2, <1>4 DEF Control
<1>9. Handled'
  <2>1. ASSUME NEW n \in held[t] PROVE opaque[n] # "callback"
    <3>1. SUFFICES ASSUME opaque[n] = "callback" PROVE FALSE
      OBVIOUS
    <3>2. n \in Msgs
      BY Zenon DEF TypeOK
    <3>3. PICK u \in Threads : at[u] = "callback" /\ n \in held[u]
      BY Zenon, <3>1, <3>2 DEF Handled
    <3> QED
      BY Zenon, <3>3, <1>4 DEF OnePlace
  <2>2. ASSUME NEW u \in Threads, NEW n \in held[u] \ todo'[u]
        PROVE  opaque'[n] \in {"callback", "reported"}
    <3>1. n \in Msgs
      BY Zenon DEF TypeOK
    <3> QED
      BY Zenon, <3>1, <1>4 DEF Handled
  <2>3. ASSUME NEW u \in Threads, NEW n \in held[u], NEW k \in held[u],
               opaque'[n] = "callback", opaque'[k] = "callback"
        PROVE  n = k
    <3>1. n \in Msgs /\ k \in Msgs
      BY Zenon DEF TypeOK
    <3> QED
      BY <3>1, <2>1, <2>3, <1>1, <1>4 DEF Handled
  <2>4. ASSUME NEW n \in Msgs, opaque'[n] = "callback"
        PROVE  \E u \in Threads : at'[u] = "callback" /\ n \in held[u] \ todo'[u]
    <3>1. CASE n = m
      BY Zenon, <3>1, <1>1, <1>4
    <3>2. CASE n # m
      <4>1. PICK u \in Threads : at[u] = "callback" /\ n \in held[u] \ todo[u]
        BY Zenon, <3>2, <2>4, <1>4 DEF Handled
      <4> QED
        BY Zenon, <4>1, <1>4
    <3> QED
      BY Zenon, <3>1, <3>2
  <2> QED
    BY <2>2, <2>3, <2>4, <1>4 DEF Handled
<1> QED
  BY Zenon, <1>3, <1>6, <1>7, <1>8, <1>9

\* The callback returns: it was the only one of its thread.
LEMMA DeliveryReturnsInv ==
    ASSUME Inv, NEW t \in Threads, DeliveryReturns(t)
    PROVE  Inv'
<1> USE DEF DeliveryReturns, Goto, Inv, nativeVars
<1>1. native = "up" /\ op[t] # "none"
  BY Zenon, Inside
<1>2. TypeOK'
  BY Zenon DEF TypeOK, Points, Owners
<1>3. /\ at'[t] = "deliver" /\ at[t] = "callback"
      /\ \A u \in Threads \ {t} : at'[u] = at[u]
      /\ \A m \in Msgs : opaque'[m] = IF m \in held[t] \ todo[t] THEN "reported"
                                                                ELSE opaque[m]
      /\ held' = held /\ todo' = todo /\ op' = op /\ native' = native
      /\ queued' = queued /\ inflight' = inflight /\ events' = events
  BY Zenon DEF TypeOK
<1>4. InEvents' = InEvents /\ Held' = Held
  BY Zenon, <1>3 DEF InEvents, Held
<1>5. OnePlace'
  BY Zenon, <1>3, <1>4 DEF OnePlace
<1> HIDE DEF DeliveryReturns, Goto
<1>6. OpaqueHasOwner'
  <2>1. \A m \in held[t] \ todo[t] : m \in Msgs /\ opaque[m] # "raw"
    BY Zenon DEF Handled, TypeOK
  <2> QED
    BY Zenon, <1>1, <1>3, <1>4, <2>1 DEF OpaqueHasOwner
<1>7. Control'
  BY <1>1, <1>3 DEF Control
<1>8. Handled'
  <2>1. \A u \in Threads : held[u] \subseteq Msgs
    BY Zenon DEF TypeOK
  <2>2. ASSUME NEW m \in Msgs, opaque'[m] = "callback"
        PROVE  \E u \in Threads : at'[u] = "callback" /\ m \in held[u] \ todo[u]
    <3>1. m \notin held[t] \ todo[t] /\ opaque[m] = "callback"
      BY Zenon, <2>2, <1>3
    <3>2. PICK u \in Threads : at[u] = "callback" /\ m \in held[u] \ todo[u]
      BY Zenon, <3>1 DEF Handled
    <3> QED
      BY Zenon, <3>1, <3>2, <1>3
  <2>3. ASSUME NEW u \in Threads, NEW m \in held[u] \ todo[u]
        PROVE  opaque'[m] \in {"callback", "reported"}
    BY Zenon, <2>1, <1>3 DEF Handled
  <2>4. ASSUME NEW u \in Threads, NEW m \in held[u], NEW n \in held[u],
               opaque'[m] = "callback", opaque'[n] = "callback"
        PROVE  m = n
    BY <2>1, <2>4, <1>3 DEF Handled
  <2> QED
    BY <2>2, <2>3, <2>4, <1>3 DEF Handled
<1> QED
  BY <1>2, <1>5, <1>6, <1>7, <1>8

\* The loop is over and the event is destroyed.
LEMMA DestroyEventInv ==
    ASSUME Inv, NEW t \in Threads, DestroyEvent(t)
    PROVE  Inv'
<1> USE DEF DestroyEvent, Goto, Inv, nativeVars
<1>1. native = "up" /\ op[t] # "none"
  BY Zenon, Inside
<1>2. TypeOK'
  BY Zenon DEF TypeOK, Points
<1>3. /\ at'[t] = "elapsed" /\ at[t] = "deliver" /\ todo[t] = {} /\ held'[t] = {}
      /\ \A u \in Threads \ {t} : at'[u] = at[u] /\ held'[u] = held[u]
      /\ todo' = todo /\ op' = op /\ native' = native /\ opaque' = opaque
      /\ queued' = queued /\ inflight' = inflight /\ events' = events
  BY Zenon DEF TypeOK
<1>4. InEvents' = InEvents
  BY Zenon, <1>3 DEF InEvents
<1>5. Held' \subseteq Held
  BY Zenon, <1>3 DEF Held
<1>6. OnePlace'
  <2>1. \A u, v \in Threads : u # v => held'[u] \cap held'[v] = {}
    BY <1>3 DEF OnePlace
  <2> QED
    BY Zenon, <2>1, <1>3, <1>4, <1>5 DEF OnePlace
<1> HIDE DEF DestroyEvent, Goto
<1>7. OpaqueHasOwner'
  BY Zenon, <1>3, <1>4 DEF OpaqueHasOwner
<1>8. Control'
  BY <1>1, <1>3 DEF Control
<1>9. Handled'
  <2>1. ASSUME NEW m \in Msgs, opaque[m] = "callback"
        PROVE  \E u \in Threads : at'[u] = "callback" /\ m \in held'[u] \ todo[u]
    <3>1. PICK u \in Threads : at[u] = "callback" /\ m \in held[u] \ todo[u]
      BY <2>1 DEF Handled
    <3>2. u # t
      BY Zenon, <3>1, <1>3
    <3> QED
      BY Zenon, <3>1, <3>2, <1>3
  <2> QED
    BY <2>1, <1>3 DEF Handled
<1> QED
  BY <1>2, <1>6, <1>7, <1>8, <1>9

\* The client is destroyed by a thread that is alone in the producer.
LEMMA DestroyInv ==
    ASSUME Inv, NEW t \in Threads, Destroy(t)
    PROVE  Inv'
<1> USE DEF Destroy, Goto, Inv
<1>1. op[t] = "drop" /\ \A u \in Threads \ {t} : at[u] = "idle"
  BY Zenon DEF Control
<1>2. \A u \in Threads : held[u] = {} /\ todo[u] = {}
  BY Zenon, <1>1, HoldsNothing
<1>3. TypeOK'
  BY DEF TypeOK, Points, Ops
<1>4. /\ \A u \in Threads : at'[u] = "idle" /\ op'[u] = "none"
      /\ native' = "down" /\ queued' = {} /\ inflight' = {} /\ events' = <<>>
      /\ held' = held /\ todo' = todo /\ opaque' = opaque
  BY Zenon, <1>1 DEF TypeOK, Control
<1> HIDE DEF Destroy, Goto
<1>5. InEvents' = {} /\ Held' = {}
  BY <1>2, <1>4 DEF InEvents, Held
<1>6. OnePlace'
  BY <1>2, <1>4, <1>5 DEF OnePlace
<1>7. Control' /\ OpaqueHasOwner'
  BY Zenon, <1>2, <1>4 DEF Control, OpaqueHasOwner
<1>8. \A m \in Msgs : opaque[m] # "callback"
  BY Zenon, <1>2 DEF Handled
<1>9. Handled'
  BY Zenon, <1>2, <1>4, <1>8 DEF Handled
<1> QED
  BY Zenon, <1>3, <1>6, <1>7, <1>9

\* Every step a thread makes inside poll, flush or drop preserves Inv.
LEMMA StepInv ==
    ASSUME Inv, NEW t \in Threads, Step(t)
    PROVE  Inv'
BY Zenon, MovesInv, PollOtherInv, PollReportInv, DeliverInv, DeliveryReturnsInv,
   DestroyEventInv, DestroyInv DEF Step

-----------------------------------------------------------------------------
(* The calls *)

\* A record that is still the caller's is nowhere in the producer.
LEMMA RecordIsOutside ==
    ASSUME Inv, native = "up", NEW m \in Msgs, opaque[m] = "record"
    PROVE  /\ m \notin queued \cup inflight \cup InEvents \cup Held
           /\ \A t \in Threads : m \notin held[t] /\ m \notin todo[t]
<1>1. m \notin queued \cup inflight \cup InEvents
  BY Zenon DEF Inv, OpaqueHasOwner
<1>2. \A t \in Threads : m \notin todo[t]
  BY Zenon DEF Inv, OpaqueHasOwner
<1>3. \A t \in Threads : m \notin held[t]
  BY Zenon, <1>2 DEF Inv, Handled
<1> QED
  BY Zenon, <1>1, <1>2, <1>3 DEF Held

\* Messages that are not in the main queue yet move between the two queues of
\* librdkafka, and some of them into a new event.
LEMMA QueuesInv ==
    ASSUME Inv, NEW ms \in SUBSET (queued \cup inflight),
           queued' \subseteq Msgs, inflight' \subseteq Msgs,
           queued' \cap inflight' = {},
           queued' \cup inflight' = (queued \cup inflight) \ ms,
           events' = Append(events, ms) \/ (ms = {} /\ events' = events),
           UNCHANGED <<opaque, native, threadVars>>
    PROVE  Inv'
<1> USE DEF Inv, threadVars
<1>1. ms \in SUBSET Msgs /\ ms \cap InEvents = {}
  BY Zenon DEF TypeOK, OnePlace
<1>2. /\ events' \in Seq(SUBSET Msgs)
      /\ InEvents' = InEvents \cup ms
      /\ \A i, j \in 1..Len(events') : i # j => events'[i] \cap events'[j] = {}
  <2>1. CASE events' = Append(events, ms)
    BY Zenon, <2>1, <1>1, AddEvent
  <2>2. CASE ms = {} /\ events' = events
    BY Zenon, <2>2 DEF InEvents, TypeOK, OnePlace
  <2> QED
    BY Zenon, <2>1, <2>2
<1>3. TypeOK'
  BY Zenon, <1>2 DEF TypeOK
<1>4. Control' /\ Handled'
  BY DEF Control, Handled
<1>5. Held' = Held
  BY Zenon DEF Held
<1>6. OnePlace'
  BY Zenon, <1>2, <1>5 DEF OnePlace
<1>7. queued' \cup inflight' \cup InEvents' = queued \cup inflight \cup InEvents
  BY Zenon, <1>2
<1>8. OpaqueHasOwner'
  BY Zenon, <1>7 DEF OpaqueHasOwner
<1> QED
  BY Zenon, <1>3, <1>4, <1>6, <1>8

\* The steps of librdkafka's threads keep the invariant.
LEMMA BackgroundInv ==
    ASSUME Inv, Background
    PROVE  Inv'
<1>1. ASSUME NEW m \in Msgs, Transmit(m) PROVE Inv'
  <2>1. /\ queued' \subseteq Msgs /\ inflight' \subseteq Msgs
        /\ queued' \cap inflight' = {}
        /\ queued' \cup inflight' = (queued \cup inflight) \ {}
        /\ events' = events
    BY Zenon, <1>1 DEF Transmit, Inv, TypeOK, OnePlace
  <2> QED
    BY Zenon, <2>1, <1>1, QueuesInv DEF Transmit
<1>2. ASSUME NEW m \in Msgs, Retry(m) PROVE Inv'
  <2>1. /\ queued' \subseteq Msgs /\ inflight' \subseteq Msgs
        /\ queued' \cap inflight' = {}
        /\ queued' \cup inflight' = (queued \cup inflight) \ {}
        /\ events' = events
    BY Zenon, <1>2 DEF Retry, Inv, TypeOK, OnePlace
  <2> QED
    BY ZenonT(40), <2>1, <1>2, QueuesInv DEF Retry
<1>3. ASSUME NEW ms \in SUBSET Msgs, Report(ms) PROVE Inv'
  <2>1. /\ queued' \subseteq Msgs /\ inflight' \subseteq Msgs
        /\ queued' \cap inflight' = {}
        /\ queued' \cup inflight' = (queued \cup inflight) \ ms
    BY Zenon, <1>3 DEF Report, Inv, TypeOK, OnePlace
  <2> QED
    BY Zenon, <2>1, <1>3, QueuesInv DEF Report
<1>4. ASSUME EmitOther PROVE Inv'
  <2>1. /\ queued' \subseteq Msgs /\ inflight' \subseteq Msgs
        /\ queued' \cap inflight' = {}
        /\ queued' \cup inflight' = (queued \cup inflight) \ {}
    BY Zenon, <1>4 DEF EmitOther, Inv, TypeOK, OnePlace
  <2> QED
    BY ZenonT(40), <2>1, <1>4, QueuesInv DEF EmitOther
<1> QED
  BY Zenon, <1>1, <1>2, <1>3, <1>4 DEF Background

\* librdkafka takes a record that was the caller's.
LEMMA SendInv ==
    ASSUME Inv, native = "up", NEW m \in Msgs, opaque[m] = "record",
           SendAccepted(m) \/ SendReturned(m)
    PROVE  Inv'
<1> USE DEF Inv, nativeVars, threadVars
<1>1. CASE SendReturned(m)
  <2>1. opaque' = opaque
    BY Zenon, <1>1 DEF SendReturned, TypeOK
  <2>2. TypeOK' /\ Control' /\ Handled'
    BY <1>1, <2>1 DEF SendReturned, TypeOK, Control, Handled
  <2>3. InEvents' = InEvents /\ Held' = Held
    BY ZenonT(40), <1>1 DEF SendReturned, InEvents, Held
  <2>4. OnePlace' /\ OpaqueHasOwner'
    BY Zenon, <1>1, <2>1, <2>3 DEF SendReturned, OnePlace, OpaqueHasOwner
  <2> QED
    BY Zenon, <2>2, <2>4
<1>2. CASE SendAccepted(m)
  <2>1. /\ m \notin queued \cup inflight \cup InEvents \cup Held
        /\ \A t \in Threads : m \notin held[t] /\ m \notin todo[t]
    BY Zenon, RecordIsOutside
  <2>2. /\ queued' = queued \cup {m} /\ opaque'[m] = "raw"
        /\ \A n \in Msgs \ {m} : opaque'[n] = opaque[n]
        /\ UNCHANGED <<inflight, events, native, at, op, held, todo>>
    BY Zenon, <1>2 DEF SendAccepted, TypeOK
  <2>3. TypeOK'
    BY Zenon, <1>2 DEF SendAccepted, TypeOK, Owners
  <2>4. InEvents' = InEvents /\ Held' = Held
    BY Zenon, <2>2 DEF InEvents, Held
  <2>5. OnePlace'
    BY <2>1, <2>2, <2>4 DEF OnePlace
  <2>6. OpaqueHasOwner'
    BY Zenon, <2>2, <2>4 DEF OpaqueHasOwner
  <2>7. Control'
    BY ZenonT(40), <2>2 DEF Control
  <2>8. Handled'
    <3>1. \A t \in Threads : held[t] \subseteq Msgs
      BY Zenon DEF TypeOK
    <3>2. \A t \in Threads : \A n \in held[t] : opaque'[n] = opaque[n]
      BY Zenon, <2>1, <2>2, <3>1
    <3>3. \A n \in Msgs : opaque'[n] = "callback" => opaque[n] = "callback"
      BY Zenon, <2>2
    <3> QED
      BY <3>2, <3>3, <2>2 DEF Handled
  <2> QED
    BY Zenon, <2>3, <2>5, <2>6, <2>7, <2>8
<1> QED
  BY Zenon, <1>1, <1>2

\* What a purge moves from the queues of librdkafka into an event.
LEMMA PurgeMoves ==
    ASSUME Inv, NEW flags, PurgeNative(flags)
    PROVE  \E ms \in SUBSET (queued \cup inflight) :
              /\ queued' \subseteq Msgs /\ inflight' \subseteq Msgs
              /\ queued' \cap inflight' = {}
              /\ queued' \cup inflight' = (queued \cup inflight) \ ms
              /\ events' = Append(events, ms) \/ (ms = {} /\ events' = events)
<1> DEFINE ms == (IF "queue" \in flags THEN queued ELSE {})
                    \cup (IF "inflight" \in flags THEN inflight ELSE {})
<1>1. ms \in SUBSET (queued \cup inflight)
  OBVIOUS
<1>2. /\ queued' = queued \ ms /\ inflight' = inflight \ ms
      /\ events' = IF ms = {} THEN events ELSE Append(events, ms)
  BY Zenon DEF PurgeNative
<1>3. queued \subseteq Msgs /\ inflight \subseteq Msgs /\ queued \cap inflight = {}
  BY Zenon DEF Inv, TypeOK, OnePlace
<1> HIDE DEF ms
<1>4. /\ queued' \subseteq Msgs /\ inflight' \subseteq Msgs
      /\ queued' \cap inflight' = {}
      /\ queued' \cup inflight' = (queued \cup inflight) \ ms
      /\ events' = Append(events, ms) \/ (ms = {} /\ events' = events)
  BY Zenon, <1>2, <1>3
<1> QED
  BY Zenon, <1>1, <1>4

\* A thread calls an operation of a producer that is not being dropped.
LEMMA CallInv ==
    ASSUME Inv, Borrowable, NEW t \in Threads, Call(t)
    PROVE  Inv'
<1> USE DEF Borrowable
<1>1. ASSUME NEW m \in Msgs, Send(t, m) PROVE Inv'
  BY Zenon, <1>1, SendInv DEF Send
<1>2. ASSUME NEW forever \in BOOLEAN, CallPoll(t, forever) PROVE Inv'
  <2>1. never' \in [Threads -> BOOLEAN]
    BY Zenon, <1>2 DEF CallPoll, Inv, TypeOK
  <2> QED
    BY ZenonT(40), <2>1, <1>2, HoldsNothing, Move DEF CallPoll, Points, Ops
<1>3. ASSUME NEW forever \in BOOLEAN, CallFlush(t, forever) PROVE Inv'
  <2>1. never' \in [Threads -> BOOLEAN]
    BY Zenon, <1>3 DEF CallFlush, Inv, TypeOK
  <2> QED
    BY ZenonT(40), <2>1, <1>3, HoldsNothing, Move DEF CallFlush, Points, Ops
<1>4. ASSUME NEW flags, Purge(t, flags) PROVE Inv'
  BY ZenonT(40), <1>4, PurgeMoves, QueuesInv DEF Purge
<1> QED
  BY Zenon, <1>1, <1>2, <1>3, <1>4 DEF Call

\* A thread that is alone with the producer begins to drop it.
LEMMA BeginDropInv ==
    ASSUME Inv, native = "up", \A u \in Threads : at[u] = "idle",
           NEW t \in Threads, BeginDrop(t)
    PROVE  Inv'
<1> USE DEF Inv, BeginDrop, Goto
<1>1. \A u \in Threads : held[u] = {} /\ todo[u] = {}
  BY Zenon, HoldsNothing
<1>2. PICK ms \in SUBSET (queued \cup inflight) :
              /\ queued' \subseteq Msgs /\ inflight' \subseteq Msgs
              /\ queued' \cap inflight' = {}
              /\ queued' \cup inflight' = (queued \cup inflight) \ ms
              /\ events' = Append(events, ms) \/ (ms = {} /\ events' = events)
  BY ZenonT(40), PurgeMoves
<1>3. /\ events' \in Seq(SUBSET Msgs)
      /\ InEvents' = InEvents \cup ms
      /\ \A i, j \in 1..Len(events') : i # j => events'[i] \cap events'[j] = {}
  <2>1. ms \in SUBSET Msgs /\ ms \cap InEvents = {}
    BY Zenon DEF TypeOK, OnePlace
  <2>2. CASE events' = Append(events, ms)
    BY ZenonT(40), <2>1, <2>2, AddEvent
  <2>3. CASE ms = {} /\ events' = events
    BY ZenonT(40), <2>3 DEF InEvents, TypeOK, OnePlace
  <2> QED
    BY Zenon, <1>2, <2>2, <2>3
<1>4. TypeOK'
  BY ZenonT(40), <1>2, <1>3 DEF TypeOK, Points, Ops
<1>5. /\ at'[t] = "check" /\ op'[t] = "drop"
      /\ \A u \in Threads \ {t} : at'[u] = "idle" /\ op'[u] = "none"
      /\ UNCHANGED <<opaque, native, held, todo>>
  BY Zenon DEF TypeOK, Control
<1> HIDE DEF BeginDrop, Goto
<1>6. Held' = Held
  BY Zenon, <1>5 DEF Held
<1>7. OnePlace'
  BY ZenonT(40), <1>2, <1>3, <1>5, <1>6 DEF OnePlace
<1>8. queued' \cup inflight' \cup InEvents' = queued \cup inflight \cup InEvents
  BY Zenon, <1>2, <1>3
<1>9. OpaqueHasOwner'
  BY Zenon, <1>5, <1>8 DEF OpaqueHasOwner
<1>10. Control'
  BY Zenon, <1>1, <1>5 DEF Control
<1>11. Handled'
  BY Zenon, <1>1, <1>5 DEF Handled
<1> QED
  BY Zenon, <1>4, <1>7, <1>9, <1>10, <1>11

-----------------------------------------------------------------------------
(* The theorems *)

\* The invariant holds of a new producer.
LEMMA InitInv == Init => Inv
<1> SUFFICES ASSUME Init PROVE Inv
  OBVIOUS
<1> USE DEF Init
<1>1. TypeOK
  BY DEF TypeOK, Points, Ops, Owners
<1>2. InEvents = {} /\ Held = {}
  BY DEF InEvents, Held
<1>3. Control /\ OnePlace /\ OpaqueHasOwner /\ Handled
  BY <1>2 DEF Control, OnePlace, OpaqueHasOwner, Handled
<1> QED
  BY Zenon, <1>1, <1>3 DEF Inv

\* A step that changes nothing keeps the invariant.
LEMMA StutterInv == Inv /\ UNCHANGED vars => Inv'
<1> SUFFICES ASSUME Inv, UNCHANGED vars PROVE Inv'
  OBVIOUS
<1> USE DEF vars, nativeVars, threadVars, Inv
<1>1. InEvents' = InEvents /\ Held' = Held
  BY Zenon DEF InEvents, Held
<1>2. TypeOK'
  BY Zenon DEF TypeOK
<1>3. Control'
  BY Zenon DEF Control
<1>4. OnePlace' /\ OpaqueHasOwner' /\ Handled'
  BY <1>1 DEF OnePlace, OpaqueHasOwner, Handled
<1> QED
  BY Zenon, <1>2, <1>3, <1>4

\* Every step of the producer keeps the invariant.
LEMMA NextInv == Inv /\ [Next]_vars => Inv'
<1> SUFFICES ASSUME Inv, [Next]_vars PROVE Inv'
  OBVIOUS
<1>1. ASSUME NEW t \in Threads, Borrowable /\ Call(t) PROVE Inv'
  BY Zenon, <1>1, CallInv
<1>2. ASSUME NEW t \in Threads, Step(t) PROVE Inv'
  BY Zenon, <1>2, StepInv
<1>3. ASSUME NEW t \in Threads, Drop(t) PROVE Inv'
  BY Zenon, <1>3, BeginDropInv DEF Drop, Borrowable
<1>4. CASE UNCHANGED vars
  BY Zenon, <1>4, StutterInv
<1> QED
  BY Zenon, <1>1, <1>2, <1>3, <1>4, BackgroundInv DEF Next

\* Inv holds throughout, for any number of threads and records: no opaque is
\* lost between send and its callback, and no message is in two places at once.
THEOREM Invariance == Spec => []Inv
<1>1. Init => Inv
  BY Zenon, InitInv
<1>2. Inv /\ [Next]_vars => Inv'
  BY Zenon, NextInv
<1> QED
  BY <1>1, <1>2, PTL DEF Spec

\* The opaque of a record has exactly one owner that will reclaim it (send,
\* poll), and a message is reported from one place only (poll in two threads).
THEOREM OpaqueSafety == Spec => [](OpaqueHasOwner /\ OnePlace)
<1>1. Inv => OpaqueHasOwner /\ OnePlace
  BY Zenon DEF Inv
<1> QED
  BY <1>1, Invariance, PTL

\* flush returns Ok only when every callback has returned, in every thread.
THEOREM FlushIsComplete == Spec => FlushCompletes
<1>1. ASSUME Inv, NEW t \in Threads, FlushOk(t), NEW m \in Msgs
      PROVE  opaque[m] \in {"record", "reported"}
  <2>1. Outstanding = {} /\ at[t] = "check" /\ native = "up"
    BY Zenon, <1>1, Inside DEF FlushOk
  <2>2. \A u \in Threads : held[u] = {}
    BY Zenon, <2>1, <1>1 DEF Outstanding, Held, Inv, TypeOK
  <2>3. \A u \in Threads : todo[u] = {}
    BY Zenon, <2>2, <1>1 DEF Inv, Control
  <2>4. opaque[m] # "raw"
    BY Zenon, <2>1, <2>3, <1>1 DEF Inv, OpaqueHasOwner, Outstanding
  <2>5. opaque[m] # "callback"
    BY Zenon, <2>2, <1>1 DEF Inv, Handled
  <2> QED
    BY Zenon, <2>4, <2>5, <1>1 DEF Inv, TypeOK, Owners
<1>2. Inv /\ [Next]_vars =>
         [\A t \in Threads : FlushOk(t) =>
            \A m \in Msgs : opaque[m] \in {"record", "reported"}]_vars
  BY Zenon, <1>1
<1> QED
  BY <1>2, Invariance, PTL DEF Spec, FlushCompletes

\* The steps that touch an opaque: send, the entry and the exit of a callback.
LEMMA OpaqueSteps ==
    ASSUME Inv, [Next]_vars
    PROVE  \/ opaque' = opaque /\ native' = native
           \/ \E m \in Msgs : /\ native = "up" /\ opaque[m] = "record"
                              /\ SendAccepted(m)
           \/ \E t \in Threads, m \in Msgs : Deliver(t, m)
           \/ \E t \in Threads : DeliveryReturns(t)
           \/ \E t \in Threads : Destroy(t)
<1> DEFINE Quiet == opaque' = opaque /\ native' = native
<1> USE DEF nativeVars, threadVars
<1>1. ASSUME NEW t \in Threads, Borrowable /\ Call(t)
      PROVE  Quiet \/ \E m \in Msgs : /\ native = "up" /\ opaque[m] = "record"
                                      /\ SendAccepted(m)
  <2>1. ASSUME NEW m \in Msgs, SendReturned(m), opaque[m] = "record" PROVE Quiet
    BY Zenon, <2>1 DEF SendReturned, Inv, TypeOK
  <2> QED
    BY ZenonT(40), <1>1, <2>1 DEF Borrowable, Call, Send, CallPoll, CallFlush, Purge
<1>2. ASSUME NEW t \in Threads, Step(t)
      PROVE  \/ Quiet
             \/ \E m \in Msgs : Deliver(t, m)
             \/ DeliveryReturns(t)
             \/ Destroy(t)
  BY Zenon, <1>2 DEF Step, PollNone, PollOther, PollReport, DestroyEvent, PollAgain,
              PollReturns, FlushOk, FlushTimesOut, FlushPolls, FlushReturn
<1>3. ASSUME NEW t \in Threads, Drop(t) PROVE Quiet
  BY Zenon, <1>3 DEF Drop, BeginDrop
<1>4. ASSUME Background PROVE Quiet
  BY Zenon, <1>4 DEF Background, Transmit, Retry, Report, EmitOther
<1>5. ASSUME UNCHANGED vars PROVE Quiet
  BY Zenon, <1>5 DEF vars
<1> QED
  BY Zenon, <1>1, <1>2, <1>3, <1>4, <1>5 DEF Next

\* from_ptr is applied once to each opaque that was turned into a pointer.
THEOREM OpaqueReclaimedOnce == Spec => ReclaimedOnce
<1> DEFINE Once(m) ==
        /\ opaque'[m] = "callback" => opaque[m] \in {"raw", "callback"}
        /\ opaque[m] = "callback" => opaque'[m] \in {"callback", "reported"}
        /\ opaque[m] = "reported" => opaque'[m] = "reported"
<1>1. ASSUME Inv, [Next]_vars, NEW m \in Msgs PROVE Once(m)
  <2> USE <1>1
  <2>1. opaque \in [Msgs -> Owners]
    BY Zenon DEF Inv, TypeOK
  <2>2. ASSUME opaque' = opaque PROVE Once(m)
    BY Zenon, <2>2
  <2>3. ASSUME NEW n \in Msgs, opaque[n] = "record", SendAccepted(n) PROVE Once(m)
    BY Zenon, <2>1, <2>3 DEF SendAccepted
  <2>4. ASSUME NEW t \in Threads, NEW n \in Msgs, Deliver(t, n) PROVE Once(m)
    <3>1. opaque[n] = "raw"
      BY Zenon, <2>4, TodoIsRaw DEF Deliver
    <3> QED
      BY Zenon, <3>1, <2>1, <2>4 DEF Deliver
  <2>5. ASSUME NEW t \in Threads, DeliveryReturns(t) PROVE Once(m)
    BY ZenonT(40), <2>1, <2>5 DEF DeliveryReturns, Inv, Handled
  <2>6. ASSUME NEW t \in Threads, Destroy(t) PROVE Once(m)
    BY Zenon, <2>6 DEF Destroy
  <2> QED
    BY Zenon, <2>2, <2>3, <2>4, <2>5, <2>6, OpaqueSteps
<1>2. ASSUME Inv, NEW m \in Msgs, NEW t \in Threads, Deliver(t, m) PROVE opaque[m] = "raw"
  BY Zenon, <1>2, TodoIsRaw DEF Deliver
<1> DEFINE OnceAndRaw(m) ==
        /\ \A t \in Threads : Deliver(t, m) => opaque[m] = "raw"
        /\ opaque'[m] = "callback" => opaque[m] \in {"raw", "callback"}
        /\ opaque[m] = "callback" => opaque'[m] \in {"callback", "reported"}
        /\ opaque[m] = "reported" => opaque'[m] = "reported"
<1>3. Inv /\ [Next]_vars => [\A m \in Msgs : OnceAndRaw(m)]_vars
  BY Zenon, <1>1, <1>2
<1> QED
  BY <1>3, Invariance, PTL DEF Spec, ReclaimedOnce

-----------------------------------------------------------------------------
(* The delivery contract *)

\* What the refinement mapping makes of the owner of an opaque.
LEMMA StatusOf ==
    ASSUME TypeOK, NEW m \in Msgs
    PROVE  /\ Status[m] = "offered" <=> opaque[m] = "record"
           /\ Status[m] = "reported" <=> opaque[m] = "reported"
           /\ Status[m] = "accepted" <=> opaque[m] \in {"raw", "callback"} /\ native = "up"
           /\ Status[m] = "lost" <=> opaque[m] \in {"raw", "callback"} /\ native = "down"
           /\ Status[m] \in {"offered", "reported", "accepted", "lost"}
BY Zenon DEF Status, TypeOK, Owners

\* The records that wait for their outcome are among those librdkafka counts.
LEMMA PendingIsOutstanding ==
    ASSUME Inv, native = "up"
    PROVE  Cardinality(Contract!Pending) <= Cardinality(Outstanding)
<1>1. Outstanding \subseteq Msgs /\ IsFiniteSet(Msgs)
  BY Zenon, ProducerAssumption DEF Inv, TypeOK, Outstanding, InEvents, Held
<1>2. IsFiniteSet(Outstanding)
  BY Zenon, <1>1, FS_Subset
<1>3. ASSUME NEW m \in Msgs, opaque[m] \in {"raw", "callback"}
      PROVE  m \in Outstanding
  <2>1. CASE opaque[m] = "raw"
    <3>1. \/ m \in queued \cup inflight \cup InEvents
          \/ \E t \in Threads : m \in todo[t]
      BY Zenon, <2>1 DEF Inv, OpaqueHasOwner
    <3>2. (\E t \in Threads : m \in todo[t]) => m \in Held
      BY Zenon DEF Inv, Control, Held
    <3> QED
      BY Zenon, <3>1, <3>2 DEF Outstanding
  <2>2. CASE opaque[m] = "callback"
    BY Zenon, <2>2 DEF Inv, Handled, Outstanding, Held
  <2> QED
    BY Zenon, <1>3, <2>1, <2>2
<1>4. Contract!Pending \subseteq Outstanding
  BY Zenon, <1>3, StatusOf DEF Contract!Pending, Inv
<1> QED
  BY Zenon, <1>2, <1>4, FS_Subset

\* Every step of the producer is a step of the contract, or changes nothing in it.
LEMMA ContractStep ==
    ASSUME Inv, Inv', [Next]_vars
    PROVE  [Contract!ContractNext]_(Contract!contractVars)
<1> DEFINE closed == native = "down"
<1>1. TypeOK /\ TypeOK'
  BY Zenon DEF Inv
<1>2. Status = [m \in Msgs |-> Status[m]] /\ Status' = [m \in Msgs |-> Status'[m]]
  BY Zenon DEF Status
<1>3. ASSUME NEW m \in Msgs
      PROVE  /\ Status'[m] = "offered" <=> opaque'[m] = "record"
             /\ Status'[m] = "reported" <=> opaque'[m] = "reported"
             /\ Status'[m] = "accepted" <=> opaque'[m] \in {"raw", "callback"} /\ native' = "up"
             /\ Status'[m] = "lost" <=> opaque'[m] \in {"raw", "callback"} /\ native' = "down"
             /\ Status'[m] \in {"offered", "reported", "accepted", "lost"}
  BY Zenon, <1>1 DEF Status, TypeOK, Owners
<1>4. ASSUME opaque' = opaque, native' = native
      PROVE  UNCHANGED Contract!contractVars
  BY Zenon, <1>4 DEF Status, Contract!contractVars
<1>5. ASSUME NEW m \in Msgs, native = "up", opaque[m] = "record", SendAccepted(m)
      PROVE  Contract!Accept(m)
  <2>1. Status[m] = "offered" /\ Status'[m] = "accepted" /\ native' = "up"
    BY ZenonT(40), <1>1, <1>3, <1>5, StatusOf DEF SendAccepted, TypeOK
  <2>2. \A n \in Msgs \ {m} : Status'[n] = Status[n]
    BY Zenon, <1>1, <1>5 DEF SendAccepted, TypeOK, Status
  <2>3. Status' = [Status EXCEPT ![m] = "accepted"]
    BY Zenon, <2>1, <2>2, <1>2
  <2>4. Cardinality(Contract!Pending) < QueueCap
    <3>1. Outstanding \subseteq Msgs /\ IsFiniteSet(Msgs)
      BY Zenon, ProducerAssumption DEF Inv, TypeOK, Outstanding, InEvents, Held
    <3>2. Contract!Pending \subseteq Msgs
      BY Zenon DEF Contract!Pending
    <3>3. /\ Cardinality(Contract!Pending) \in Nat
          /\ Cardinality(Outstanding) \in Nat
      BY Zenon, <3>1, <3>2, FS_Subset, FS_CardinalityType
    <3> QED
      BY <3>3, <1>5, PendingIsOutstanding, ProducerAssumption DEF SendAccepted
  <2>5. Contract!Cardinality(Contract!Pending) = Cardinality(Contract!Pending)
    BY Zenon DEF Contract!Cardinality, Cardinality
  <2> QED
    BY Zenon, <2>1, <2>3, <2>4, <2>5, <1>5 DEF Contract!Accept
<1>6. ASSUME NEW t \in Threads, NEW m \in Msgs, Deliver(t, m)
      PROVE  UNCHANGED Contract!contractVars
  <2>1. opaque[m] = "raw" /\ native = "up"
    BY Zenon, <1>6, TodoIsRaw, Inside DEF Deliver
  <2>2. native' = native /\ \A n \in Msgs : Status'[n] = Status[n]
    BY Zenon, <2>1, <1>1, <1>6 DEF Deliver, nativeVars, TypeOK, Status
  <2> QED
    BY Zenon, <2>2, <1>2 DEF Contract!contractVars
<1>7. ASSUME NEW t \in Threads, DeliveryReturns(t)
      PROVE  \/ UNCHANGED Contract!contractVars
             \/ \E m \in Msgs : Contract!ReportOutcome(m)
  <2>1. native = "up" /\ native' = "up"
    BY Zenon, <1>7, Inside DEF DeliveryReturns, nativeVars
  <2>2. \A m \in Msgs : opaque'[m] = IF m \in held[t] \ todo[t] THEN "reported"
                                                                ELSE opaque[m]
    BY Zenon, <1>7 DEF DeliveryReturns
  <2>3. ASSUME NEW m \in Msgs, m \in held[t] \ todo[t], opaque[m] = "callback"
        PROVE  Contract!ReportOutcome(m)
    <3>1. Status[m] = "accepted" /\ Status'[m] = "reported"
      BY ZenonT(40), <2>1, <2>2, <2>3, <1>1, <1>3, StatusOf
    <3>2. \A n \in Msgs \ {m} : opaque'[n] = opaque[n]
      BY <2>2, <2>3 DEF Inv, Handled
    <3>3. \A n \in Msgs \ {m} : Status'[n] = Status[n]
      BY Zenon, <3>2, <2>1 DEF Status
    <3>4. Status' = [Status EXCEPT ![m] = "reported"]
      BY Zenon, <3>1, <3>3, <1>2
    <3> QED
      BY Zenon, <3>1, <3>4, <2>1 DEF Contract!ReportOutcome
  <2>4. ASSUME \A m \in Msgs : m \in held[t] \ todo[t] => opaque[m] # "callback"
        PROVE  UNCHANGED Contract!contractVars
    <3>1. \A m \in Msgs : opaque'[m] = opaque[m]
      BY Zenon, <2>2, <2>4 DEF Inv, Handled
    <3>2. Status' = Status
      BY Zenon, <3>1, <2>1 DEF Status
    <3> QED
      BY Zenon, <3>2, <2>1 DEF Contract!contractVars
  <2> QED
    BY Zenon, <2>3, <2>4
<1>8. ASSUME NEW t \in Threads, Destroy(t)
      PROVE  Contract!Close
  <2>1. native = "up" /\ native' = "down" /\ opaque' = opaque
    BY Zenon, <1>8, Inside DEF Destroy
  <2>2. \A m \in Msgs : Status'[m] = IF Status[m] = "accepted" THEN "lost" ELSE Status[m]
    BY Zenon, <2>1, <1>1 DEF Status, TypeOK, Owners
  <2>3. Status' = [m \in Msgs |-> IF Status[m] = "accepted" THEN "lost" ELSE Status[m]]
    BY Zenon, <2>2, <1>2
  <2> QED
    BY Zenon, <2>1, <2>3 DEF Contract!Close
<1> QED
  BY Zenon, <1>4, <1>5, <1>6, <1>7, <1>8, OpaqueSteps DEF Contract!ContractNext

\* BaseProducer implements the delivery contract: the initial states map to the
\* contract's, and every step of a thread or of librdkafka to one of its steps
\* or to none.
THEOREM Refinement == Spec => ImplementsContract
<1>1. Init => Contract!ContractInit
  BY Zenon DEF Init, Contract!ContractInit, Status
<1>2. Inv /\ Inv' /\ [Next]_vars => [Contract!ContractNext]_(Contract!contractVars)
  BY Zenon, ContractStep
<1> QED
  BY <1>1, <1>2, Invariance, PTL DEF Spec, ImplementsContract, Contract!ContractSpec

=============================================================================
