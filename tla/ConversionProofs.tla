-------------------------- MODULE ConversionProofs --------------------------
(***************************************************************************)
(* What rests on the conversions to librdkafka's integers.                 *)
(*                                                                         *)
(* Timeouts (PollLoops): a timeout is an i32 of milliseconds.  A call      *)
(* waits for no longer than it may, and one that ends with a timeout has   *)
(* waited for all of it: for every width of the integer, every minimum     *)
(* interval and slice, and any number of events.                           *)
(*                                                                         *)
(* Offsets (TopicPartitionList): an offset is an i64.  It survives the     *)
(* conversion and back; the lists hold only integers that survive the way  *)
(* through Offset; equality is equality of content, and a refused offset   *)
(* changes no element: for every width of the integer, every set of        *)
(* partitions and lists of any length.                                     *)
(***************************************************************************)
EXTENDS PollLoops, TopicPartitionList, FiniteSetTheorems, TLAPS

----------------------------------------------------------------------------
(* Timeouts                                                                *)

PollTyped ==
    /\ op \in Calls
    /\ limit \in After \cup {Never} /\ limit <= MaxElapsed
    /\ left \in After \cup {Never}
    /\ wait \in After \cup {Never}
    /\ elapsed \in Nat /\ elapsed <= MaxElapsed
    /\ spent \in Nat
    /\ ignored \in Nat

\* Which call can be where.
Places ==
    /\ at \in {"idle", "loop", "polling", "handling", "second", "flushing", "native"}
    /\ op = "native" => at \in {"idle", "native"}
    /\ op \in {"poll_queue", "poll"} => at \notin {"flushing", "native"}
    /\ op = "poll_queue" => at # "second"
    /\ op = "flush" => at # "native"
    /\ at = "handling" => event \in Events
    /\ at = "handling" /\ op = "poll_queue" => event # "dr"

InLoop == at \in {"loop", "polling", "handling", "second"}

\* What is left of a timeout, or the deadline of a poll, is within the timeout.
Lefts ==
    InLoop => /\ limit # Never => left # Never /\ left <= limit
              /\ op = "poll" => left = limit

\* How long the thread waits before it looks at the time again.
Coming ==
    IF at = "loop" /\ op = "poll_queue" THEN MinTimeout(left, MinPollInterval)
    ELSE IF at \in {"polling", "handling", "second", "native"} THEN wait
    ELSE 0

\* The wait to come is within what the call may take.
InTime ==
    at # "idle" /\ limit # Never /\ (Fits \/ op = "poll_queue") =>
        /\ Coming \in Nat
        /\ elapsed - spent + Coming <= Allowed
        /\ op = "commit_transaction" /\ at # "native" => elapsed - spent + Coming <= limit

\* librdkafka waits for no less than the timeout.
WaitsEnough ==
    at = "native" /\ Fits => IF limit = Never THEN wait = Never
                             ELSE wait \in Nat /\ elapsed + wait >= limit

PollInv == PollTyped /\ Places /\ Lefts /\ InTime /\ WaitsEnough /\ TimeoutIsElapsed

\* Timeouts are times or Never.
Timeouts == After \cup {Never}

\* What the conversion to an i32 and librdkafka make of a timeout.
LEMMA WaitsType ==
    ASSUME NEW t \in Timeouts
    PROVE  Waits(AsMillis(t)) \in Timeouts
<1>1. 2 * I32Half \in Nat \ {0}
  BY PollAssumption DEF After
<1>2. CASE t = Never
  BY <1>2 DEF AsMillis, Waits, Timeouts, Never
<1>3. CASE t \in Nat
  <2>1. (t + I32Half) % (2 * I32Half) \in Int
    BY <1>1, <1>3, PollAssumption
  <2>2. PICK n \in Int : n = (t + I32Half) % (2 * I32Half)
    BY Zenon, <2>1
  <2>3. n - I32Half \in Int
    BY PollAssumption
  <2> QED
    BY <1>3, <2>2, <2>3 DEF AsMillis, Waits, Timeouts, After, Never
<1> QED
  BY Zenon, <1>2, <1>3 DEF Timeouts, After

\* A timeout below 2^31 ms is waited for as it is.
LEMMA WaitsExact ==
    ASSUME NEW t \in Nat, t < I32Half
    PROVE  Waits(AsMillis(t)) = t
<1>1. t + I32Half \in Nat /\ 2 * I32Half \in Nat \ {0} /\ t + I32Half < 2 * I32Half
  BY PollAssumption DEF After
<1>2. \A a, b \in Nat : a < b => a % b = a
  OBVIOUS
<1>3. (t + I32Half) % (2 * I32Half) = t + I32Half
  BY Zenon, <1>1, <1>2
<1>4. (t + I32Half) - I32Half = t
  BY PollAssumption
<1> QED
  BY <1>3, <1>4 DEF AsMillis, Waits, Never

\* What is left of a timeout after some time.
LEMMA SubFacts ==
    ASSUME NEW t \in Timeouts, NEW d \in Nat
    PROVE  /\ SaturatingSub(t, d) \in Timeouts
           /\ t = Never => SaturatingSub(t, d) = Never
           /\ t # Never => /\ SaturatingSub(t, d) \in Nat
                           /\ SaturatingSub(t, d) <= t
                           /\ SaturatingSub(t, d) # 0 => SaturatingSub(t, d) = t - d
                           /\ SaturatingSub(t, d) = 0 => d >= t
BY DEF SaturatingSub, Timeouts, After, Never

\* The lesser of two timeouts, one of them not Never.
LEMMA MinFacts ==
    ASSUME NEW t \in Timeouts, NEW u \in Nat
    PROVE  /\ MinTimeout(t, u) \in Nat
           /\ MinTimeout(t, u) <= u
           /\ t # Never => MinTimeout(t, u) <= t
           /\ \A s \in Nat : t # Never /\ s <= t => MinTimeout(s, u) <= MinTimeout(t, u)
BY DEF MinTimeout, Timeouts, After, Never

LEMMA Times ==
    ASSUME NEW a \in Nat, NEW b \in Nat
    PROVE  a * b \in Nat /\ (a + 1) * b = a * b + b
OBVIOUS

\* What a call may take is no less than its timeout.
LEMMA AllowedFacts ==
    ASSUME PollTyped, limit # Never
    PROVE  Allowed \in Int /\ limit \in Nat /\ limit <= Allowed
<1>1. limit \in Nat /\ limit \in Timeouts /\ ignored \in Nat /\ MinPollInterval \in Nat
  BY Zenon, PollAssumption DEF PollTyped, Timeouts, After
<1>2. MinTimeout(limit, MinPollInterval) \in Nat
  BY Zenon, <1>1, MinFacts
<1>3. ignored * MinTimeout(limit, MinPollInterval) \in Nat
  BY Zenon, <1>1, <1>2, Times
<1>4. limit + ignored * MinTimeout(limit, MinPollInterval) >= limit
  BY <1>1, <1>3
<1> QED
  BY <1>1, <1>3, <1>4 DEF Allowed

LEMMA AllowedSame ==
    ASSUME UNCHANGED <<callVars, ignored>>
    PROVE  Allowed' = Allowed
BY Zenon DEF callVars, Allowed

\* The call returns; with a timeout only when the timeout has elapsed.
LEMMA ReturnInv ==
    ASSUME PollInv, NEW r, Return(r), UNCHANGED <<callVars, elapsed>>,
           r \in {"none", "timeout"} /\ (Fits \/ op \in {"poll_queue", "poll", "flush"})
               => limit # Never /\ elapsed >= limit
    PROVE  PollInv'
<1>1. PollTyped'
  BY Zenon DEF PollInv, PollTyped, Return, callVars, After
<1>2. Places' /\ Lefts'
  BY Zenon DEF PollInv, Places, Lefts, InLoop, Return, callVars
<1>3. InTime' /\ WaitsEnough'
  BY Zenon DEF InTime, WaitsEnough, Return
<1>4. TimeoutIsElapsed'
  BY Zenon DEF TimeoutIsElapsed, Fits, Return, callVars
<1> QED
  BY Zenon, <1>1, <1>2, <1>3, <1>4 DEF PollInv

\* The call begins.
LEMMA CallInv ==
    ASSUME PollInv, NEW o \in Calls, NEW t \in Limits, Call(o, t)
    PROVE  PollInv'
<1>0. t \in Timeouts /\ t <= MaxElapsed
  BY Zenon, PollAssumption DEF Timeouts
<1>1. Waits(AsMillis(t)) \in Timeouts /\ (t # Never /\ t < I32Half => Waits(AsMillis(t)) = t)
  BY Zenon, <1>0, WaitsType, WaitsExact DEF Timeouts, After
<1>2. PollTyped'
  BY <1>0, <1>1, PollAssumption DEF Call, PollTyped, Timeouts, After
<1>3. Places' /\ Lefts'
  BY <1>0 DEF Call, Places, Lefts, InLoop, Calls, Timeouts, After
<1>4. InTime'
  <2> SUFFICES ASSUME t # Never, (Fits \/ op = "poll_queue")'
               PROVE  /\ Coming' \in Nat
                      /\ (elapsed - spent + Coming)' <= t
    <3>1. ASSUME t # Never
          PROVE  Allowed' \in Int /\ t <= Allowed'
      <4>1. t \in Nat /\ MinTimeout(t, MinPollInterval) \in Nat
        BY Zenon, <1>0, <3>1, MinFacts, PollAssumption DEF Timeouts, After
      <4>2. 0 * MinTimeout(t, MinPollInterval) = 0
        BY <4>1
      <4> QED
        BY <4>1, <4>2 DEF Call, Allowed
    <3>2. t # Never => t \in Nat
      BY Zenon, <1>0 DEF Timeouts, After
    <3>3. limit' = t /\ elapsed' = 0 /\ spent' = 0
      BY Zenon DEF Call
    <3> QED
      BY <3>1, <3>2, <3>3 DEF InTime
  <2>1. t \in Nat /\ elapsed' = 0 /\ spent' = 0 /\ MinPollInterval \in Nat
    BY Zenon, <1>0, PollAssumption DEF Timeouts, Call, After
  <2>2. CASE o = "native"
    <3>1. Coming' = t
      BY Zenon, <1>1, <2>2 DEF Call, Coming, Fits
    <3> QED
      BY <2>1, <3>1
  <2>3. CASE o = "poll_queue"
    <3>1. Coming' = MinTimeout(t, MinPollInterval)
      BY Zenon, <2>3 DEF Call, Coming
    <3> QED
      BY <1>0, <2>1, <3>1, MinFacts
  <2>4. CASE o \notin {"native", "poll_queue"}
    <3>1. Coming' = 0
      BY Zenon, <2>4 DEF Call, Coming
    <3> QED
      BY <2>1, <3>1
  <2> QED
    BY Zenon, <2>2, <2>3, <2>4
<1>5. WaitsEnough'
  <2>1. CASE o = "native"
    <3>1. t = Never => Waits(AsMillis(t)) = Never
      BY DEF Waits, AsMillis, Never
    <3> QED
      BY <1>0, <1>1, <2>1, <3>1 DEF Call, WaitsEnough, Fits, Timeouts, After
  <2>2. CASE o # "native"
    BY Zenon, <2>2 DEF Call, WaitsEnough
  <2> QED
    BY Zenon, <2>1, <2>2
<1>6. TimeoutIsElapsed'
  BY Zenon DEF Call, TimeoutIsElapsed
<1> QED
  BY Zenon, <1>2, <1>3, <1>4, <1>5, <1>6 DEF PollInv

\* The queue is polled, for no longer than there is time.
LEMMA PollEventInv ==
    ASSUME PollInv, PollEvent
    PROVE  PollInv'
<1> DEFINE w == IF op = "poll_queue" THEN MinTimeout(left, MinPollInterval) ELSE Remaining(left)
<1>0. /\ PollTyped /\ left \in Timeouts /\ elapsed \in Nat /\ spent \in Nat
      /\ MinPollInterval \in Nat /\ MinPollInterval < I32Half /\ I32Half \in Nat
  BY Zenon, PollAssumption DEF PollInv, PollTyped, Timeouts, After
<1>1. w \in Timeouts
  BY Zenon, <1>0, MinFacts, SubFacts DEF Remaining, Timeouts, After
<1>2. wait' = Waits(AsMillis(w)) /\ wait' \in Timeouts
  BY Zenon, <1>1, WaitsType DEF PollEvent
<1> HIDE DEF w
<1>3. PollTyped'
  BY Zenon, <1>0, <1>2 DEF PollEvent, PollTyped, callVars, timeVars, Timeouts
<1>4. Places' /\ Lefts'
  BY Zenon DEF PollInv, PollEvent, Places, Lefts, InLoop, callVars
<1>5. InTime'
  <2> SUFFICES ASSUME limit # Never, Fits \/ op = "poll_queue"
               PROVE  /\ wait' \in Nat
                      /\ elapsed - spent + wait' <= Allowed
                      /\ op = "commit_transaction" => elapsed - spent + wait' <= limit
    <3>1. Allowed' = Allowed /\ Coming' = wait'
      BY Zenon, AllowedSame DEF PollEvent, Coming
    <3> QED
      BY Zenon, <3>1 DEF InTime, PollEvent, callVars, timeVars, Fits
  <2>1. left # Never /\ left \in Nat /\ left <= limit /\ limit \in Nat /\ Allowed \in Int /\ limit <= Allowed
    BY Zenon, <1>0, AllowedFacts DEF PollInv, PollEvent, Lefts, InLoop, Timeouts, After
  <2>2. CASE op = "poll_queue"
    <3>1. w \in Nat /\ w < I32Half /\ w = Coming
      BY <1>0, <2>2, MinFacts DEF w, Coming, PollEvent
    <3>2. wait' = Coming /\ Coming \in Nat
      BY Zenon, <1>2, <3>1, WaitsExact
    <3> QED
      BY Zenon, <2>2, <3>2 DEF PollInv, PollEvent, InTime
  <2>3. CASE op # "poll_queue"
    <3>1. w = SaturatingSub(left, elapsed)
      BY Zenon, <2>3 DEF w, Remaining
    <3>2. w \in Nat /\ w <= left /\ (w # 0 => w = left - elapsed)
      BY Zenon, <1>0, <2>1, <3>1, SubFacts
    <3>3. w < I32Half
      BY <1>0, <2>1, <2>3, <3>2 DEF Fits
    <3>4. wait' = w
      BY Zenon, <1>2, <3>2, <3>3, WaitsExact
    <3>5. elapsed - spent + 0 <= limit /\ Coming = 0
      BY Zenon, <2>3 DEF PollInv, PollEvent, InTime, Coming, Allowed, Places
    <3>6. elapsed - spent + w <= limit
      BY <1>0, <2>1, <3>2, <3>5
    <3> QED
      BY <1>0, <2>1, <3>2, <3>4, <3>6
  <2> QED
    BY Zenon, <2>2, <2>3
<1>6. WaitsEnough' /\ TimeoutIsElapsed'
  BY Zenon DEF PollEvent, WaitsEnough, TimeoutIsElapsed
<1> QED
  BY Zenon, <1>3, <1>4, <1>5, <1>6 DEF PollInv

\* poll_queue goes on with what is left of its timeout, or returns.
LEMMA AgainInv ==
    ASSUME PollInv, op = "poll_queue", NEW r, Again(r), UNCHANGED <<callVars, elapsed>>
    PROVE  PollInv'
<1> DEFINE t == SaturatingSub(limit, elapsed)
<1>0. /\ PollTyped /\ limit \in Timeouts /\ elapsed \in Nat /\ spent \in Nat
      /\ MinPollInterval \in Nat
  BY Zenon, PollAssumption DEF PollInv, PollTyped, Timeouts, After
<1>1. t \in Timeouts /\ (limit = Never => t = Never)
  BY Zenon, <1>0, SubFacts
<1>2. ASSUME limit # Never
      PROVE  t \in Nat /\ t <= limit /\ (t # 0 => t = limit - elapsed) /\ (t = 0 => elapsed >= limit)
  BY Zenon, <1>0, <1>2, SubFacts
<1>3. IF t = 0 THEN Return(r) ELSE GoOn("loop", t) /\ UNCHANGED ignored
  BY Zenon DEF Again
<1> HIDE DEF t
<1>4. CASE t = 0
  BY <1>1, <1>2, <1>3, <1>4, ReturnInv DEF Never
<1>5. CASE t # 0
  <2>1. PollTyped'
    BY Zenon, <1>0, <1>1, <1>3, <1>5 DEF GoOn, PollTyped, callVars, Timeouts
  <2>2. Places' /\ Lefts'
    BY <1>2, <1>3, <1>5 DEF GoOn, PollInv, Places, Lefts, InLoop, callVars, Never
  <2>3. InTime'
    <3> SUFFICES ASSUME limit # Never
                 PROVE  /\ Coming' \in Nat
                        /\ elapsed - spent + Coming' <= Allowed
      <4>1. Allowed' = Allowed
        BY Zenon, <1>3, <1>5, AllowedSame
      <4> QED
        BY Zenon, <1>3, <1>5, <4>1 DEF InTime, GoOn, callVars
    <3>1. Coming' = MinTimeout(t, MinPollInterval)
      BY Zenon, <1>3, <1>5 DEF GoOn, Coming, callVars
    <3>2. t \in Nat /\ t = limit - elapsed
      BY Zenon, <1>2, <1>5
    <3>3. MinTimeout(t, MinPollInterval) \in Nat /\ MinTimeout(t, MinPollInterval) <= t
      BY <1>0, <1>1, <3>2, MinFacts DEF Never
    <3>4. Allowed \in Int /\ limit \in Nat /\ limit <= Allowed
      BY Zenon, <1>0, AllowedFacts
    <3> QED
      BY <1>0, <3>1, <3>2, <3>3, <3>4
  <2>4. WaitsEnough' /\ TimeoutIsElapsed'
    BY Zenon, <1>3, <1>5 DEF GoOn, WaitsEnough, TimeoutIsElapsed
  <2> QED
    BY Zenon, <2>1, <2>2, <2>3, <2>4 DEF PollInv
<1> QED
  BY Zenon, <1>4, <1>5

\* poll_queue goes on with the timeout it had after an event it ignores.
LEMMA IgnoreInv ==
    ASSUME PollInv, at = "handling", op = "poll_queue", GoOn("loop", left),
           UNCHANGED <<callVars, elapsed>>, ignored' = ignored + 1
    PROVE  PollInv'
<1>0. /\ limit \in Timeouts /\ left \in Timeouts /\ elapsed \in Nat /\ spent \in Nat
      /\ MinPollInterval \in Nat /\ ignored \in Nat
  BY Zenon, PollAssumption DEF PollInv, PollTyped, Timeouts, After
<1>1. PollTyped' /\ Places' /\ Lefts'
  BY DEF GoOn, PollInv, PollTyped, Places, Lefts, InLoop, callVars
<1>2. InTime'
  <2> DEFINE m == MinTimeout(limit, MinPollInterval)
  <2> SUFFICES ASSUME limit # Never
               PROVE  /\ Coming' \in Nat
                      /\ elapsed - spent + Coming' <= limit + (ignored + 1) * m
    BY Zenon DEF InTime, GoOn, callVars, Allowed
  <2>1. left \in Nat /\ left <= limit /\ limit \in Nat
    BY Zenon, <1>0 DEF PollInv, Lefts, InLoop, Timeouts, After
  <2>2. Coming' = MinTimeout(left, MinPollInterval)
    BY Zenon DEF GoOn, Coming, callVars
  <2>3. MinTimeout(left, MinPollInterval) \in Nat /\ MinTimeout(left, MinPollInterval) <= m /\ m \in Nat
    BY Zenon, <1>0, <2>1, MinFacts
  <2>4. wait \in Nat /\ elapsed - spent + wait <= limit + ignored * m
    BY Zenon DEF PollInv, InTime, Coming, Allowed
  <2> HIDE DEF m
  <2>5. ignored * m \in Nat /\ (ignored + 1) * m = ignored * m + m
    BY Zenon, <1>0, <2>3, Times
  <2> QED
    BY <1>0, <2>1, <2>2, <2>3, <2>4, <2>5
<1>3. WaitsEnough' /\ TimeoutIsElapsed'
  BY Zenon DEF GoOn, WaitsEnough, TimeoutIsElapsed
<1> QED
  BY Zenon, <1>1, <1>2, <1>3 DEF PollInv

\* The loop of a call without a timeout goes on.
LEMMA NeverInv ==
    ASSUME PollInv, at = "handling", op = "poll_queue", left = Never, GoOn("loop", left),
           UNCHANGED <<callVars, elapsed, ignored>>
    PROVE  PollInv'
<1>1. limit = Never
  BY Zenon DEF PollInv, Lefts, InLoop
<1>2. PollTyped' /\ Places' /\ Lefts'
  BY Zenon DEF GoOn, PollInv, PollTyped, Places, Lefts, InLoop, callVars
<1>3. InTime' /\ WaitsEnough' /\ TimeoutIsElapsed'
  BY Zenon, <1>1 DEF GoOn, InTime, WaitsEnough, TimeoutIsElapsed, callVars
<1> QED
  BY Zenon, <1>2, <1>3 DEF PollInv

\* poll goes on until its deadline, and flush after it.
LEMMA PollOrReturnInv ==
    ASSUME PollInv, at \in {"polling", "handling", "second"}, op # "poll_queue", PollOrReturn,
           UNCHANGED <<callVars, elapsed>>
    PROVE  PollInv'
<1>0. /\ PollTyped /\ limit \in Timeouts /\ left \in Timeouts /\ elapsed \in Nat /\ spent \in Nat
  BY Zenon DEF PollInv, PollTyped, Timeouts
<1>1. op # "native"
  BY Zenon DEF PollInv, Places
<1>2. ASSUME NEW p \in {"loop", "flushing"}, GoOn(p, left), UNCHANGED ignored,
             p = "flushing" => op # "poll"
      PROVE  PollInv'
  <2>1. PollTyped' /\ Places' /\ Lefts'
    BY Zenon, <1>1, <1>2 DEF GoOn, PollInv, PollTyped, Places, Lefts, InLoop, callVars
  <2>2. InTime'
    <3>1. Allowed' = Allowed /\ Fits' = Fits /\ Coming = wait /\ Coming' = 0
      BY Zenon, <1>2, AllowedSame DEF GoOn, Coming, Fits, callVars
    <3> SUFFICES ASSUME limit # Never, Fits
                 PROVE  /\ elapsed - spent + 0 <= Allowed
                        /\ op = "commit_transaction" => elapsed - spent + 0 <= limit
      BY Zenon, <1>2, <3>1 DEF InTime, GoOn, callVars
    <3>2. Allowed \in Int /\ limit \in Nat
      BY Zenon, <1>0, AllowedFacts
    <3>3. wait \in Nat /\ elapsed - spent + wait <= Allowed
          /\ (op = "commit_transaction" => elapsed - spent + wait <= limit)
      BY Zenon, <3>1 DEF PollInv, InTime
    <3> QED
      BY <1>0, <3>2, <3>3
  <2>3. WaitsEnough' /\ TimeoutIsElapsed'
    BY Zenon, <1>2 DEF GoOn, WaitsEnough, TimeoutIsElapsed
  <2> QED
    BY Zenon, <2>1, <2>2, <2>3 DEF PollInv
<1>3. CASE ~Elapsed(left)
  BY Zenon, <1>2, <1>3 DEF PollOrReturn
<1>4. CASE Elapsed(left) /\ op = "poll"
  <2>1. left = limit
    BY Zenon, <1>4 DEF PollInv, Lefts, InLoop
  <2>2. limit # Never /\ elapsed >= limit
    BY <1>0, <1>4, <2>1, SubFacts DEF Elapsed, Remaining, Never
  <2> QED
    BY Zenon, <1>4, <2>2, ReturnInv DEF PollOrReturn
<1>5. CASE Elapsed(left) /\ op # "poll"
  BY Zenon, <1>2, <1>5 DEF PollOrReturn
<1> QED
  BY Zenon, <1>3, <1>4, <1>5

\* The wait is over, or an error has been reported a second time.
LEMMA PollNoneInv ==
    ASSUME PollInv, PollNone \/ SecondReturns
    PROVE  PollInv'
<1>1. CASE PollNone /\ op = "poll_queue"
  BY Zenon, <1>1, AgainInv DEF PollNone
<1>2. CASE PollNone /\ op # "poll_queue"
  BY Zenon, <1>2, PollOrReturnInv DEF PollNone
<1>3. CASE SecondReturns
  <2>1. op # "poll_queue"
    BY Zenon, <1>3 DEF PollInv, Places, SecondReturns
  <2> QED
    BY Zenon, <1>3, <2>1, PollOrReturnInv DEF SecondReturns
<1> QED
  BY Zenon, <1>1, <1>2, <1>3

\* The thread turns to an event, or to the second report of an error.
LEMMA TurnInv ==
    ASSUME PollInv,
           \/ at = "polling" /\ at' = "handling" /\ event' \in Events
              /\ (op = "poll_queue" => event' # "dr")
           \/ at = "handling" /\ at' = "second" /\ op # "poll_queue",
           UNCHANGED <<callVars, left, wait, timeVars, ignored>>
    PROVE  PollInv'
<1>1. PollTyped'
  BY Zenon DEF PollInv, PollTyped, callVars, timeVars
<1>2. Places' /\ Lefts'
  BY Zenon DEF PollInv, Places, Lefts, InLoop, callVars
<1>3. InTime'
  <2>1. Allowed' = Allowed /\ Fits' = Fits /\ Coming' = Coming /\ op' = op
    BY Zenon, AllowedSame DEF Coming, Fits, callVars
  <2> QED
    BY Zenon, <2>1 DEF PollInv, InTime, callVars, timeVars
<1>4. WaitsEnough' /\ TimeoutIsElapsed'
  BY Zenon DEF WaitsEnough, TimeoutIsElapsed
<1> QED
  BY Zenon, <1>1, <1>2, <1>3, <1>4 DEF PollInv

\* An event comes.
LEMMA EventComesInv ==
    ASSUME PollInv, NEW e \in Events, EventComes(e)
    PROVE  PollInv'
BY Zenon, TurnInv DEF EventComes

\* The event is handled.
LEMMA EventHandledInv ==
    ASSUME PollInv, EventHandled
    PROVE  PollInv'
<1>0. at = "handling" /\ UNCHANGED <<callVars, elapsed>>
  BY Zenon DEF EventHandled
<1>1. CASE op = "poll_queue"
  <2>1. ConsumerHandles /\ event \in Events \ {"dr"}
    BY Zenon, <1>0, <1>1 DEF EventHandled, PollInv, Places
  <2>2. CASE event \in {"log", "stats", "oauth"}
    <3>1. Again("consumed")
      BY Zenon, <2>1, <2>2 DEF ConsumerHandles
    <3> QED
      BY Zenon, <1>0, <1>1, <3>1, AgainInv
  <2>3. CASE event \in {"fetch", "error"}
    <3>1. Return("message") \/ Return("error")
      BY Zenon, <2>1, <2>3 DEF ConsumerHandles
    <3> QED
      BY Zenon, <1>0, <3>1, ReturnInv
  <2>4. CASE event \in {"rebalance", "offset_commit"}
    <3>1. IF left # Never THEN Return("consumed") ELSE GoOn("loop", left) /\ UNCHANGED ignored
      BY Zenon, <2>1, <2>4 DEF ConsumerHandles
    <3>2. CASE left # Never
      BY Zenon, <1>0, <3>1, <3>2, ReturnInv
    <3>3. CASE left = Never
      BY Zenon, <1>0, <1>1, <3>1, <3>3, NeverInv
    <3> QED
      BY Zenon, <3>2, <3>3
  <2>5. CASE event \in {"empty", "other"}
    <3>1. GoOn("loop", left) /\ ignored' = ignored + 1
      BY Zenon, <2>1, <2>5 DEF ConsumerHandles
    <3> QED
      BY Zenon, <1>0, <1>1, <3>1, IgnoreInv
  <2> QED
    BY Zenon, <2>1, <2>2, <2>3, <2>4, <2>5 DEF Events
<1>2. CASE op # "poll_queue" /\ event = "error"
  BY Zenon, <1>0, <1>2, TurnInv DEF EventHandled, timeVars
<1>3. CASE op # "poll_queue" /\ event # "error"
  BY Zenon, <1>0, <1>3, PollOrReturnInv DEF EventHandled
<1> QED
  BY Zenon, <1>1, <1>2, <1>3

\* A turn of the loop of flush, and the call to librdkafka that follows it.
LEMMA FlushInv ==
    ASSUME PollInv, Flush
    PROVE  PollInv'
<1>0. /\ PollTyped /\ limit \in Timeouts /\ elapsed \in Nat /\ spent \in Nat
      /\ Slice \in Nat /\ I32Half \in Nat /\ at = "flushing" /\ UNCHANGED <<callVars, elapsed>>
      /\ op \in {"flush", "commit_transaction"}
  BY Zenon, PollAssumption DEF PollInv, PollTyped, Places, Calls, Timeouts, After, Flush
<1>1. ASSUME limit # Never, Fits
      PROVE  /\ limit \in Nat /\ Allowed \in Int /\ limit <= Allowed
             /\ elapsed - spent <= limit
  <2>1. limit \in Nat /\ Allowed \in Int /\ limit <= Allowed
    BY Zenon, <1>0, <1>1, AllowedFacts
  <2>2. elapsed - spent + 0 <= limit
    BY Zenon, <1>0, <1>1 DEF PollInv, InTime, Coming, Allowed
  <2> QED
    BY <1>0, <2>1, <2>2
<1>2. CASE msgs > 0 /\ Elapsed(limit)
  <2>1. limit # Never /\ elapsed >= limit
    BY <1>0, <1>2, SubFacts DEF Elapsed, Remaining, Never
  <2> QED
    BY Zenon, <1>0, <1>2, <2>1, ReturnInv DEF Flush
<1>3. CASE msgs > 0 /\ ~Elapsed(limit)
  <2> DEFINE r == SaturatingSub(limit, elapsed)
             u == MinTimeout(r, Slice)
  <2>1. r \in Timeouts /\ r # 0 /\ (limit # Never => r \in Nat /\ r = limit - elapsed)
    BY Zenon, <1>0, <1>3, SubFacts DEF Elapsed, Remaining
  <2>2. u \in Nat /\ (r # Never => u <= r)
    BY Zenon, <1>0, <2>1, MinFacts
  <2>3. GoOn("loop", elapsed + u) /\ UNCHANGED ignored
    BY Zenon, <1>3 DEF Flush, Remaining
  <2> HIDE DEF u, r
  <2>4. elapsed + u \in Nat /\ (limit # Never => elapsed + u <= limit)
    <3>1. ASSUME limit # Never
          PROVE  elapsed + u <= limit
      <4>1. limit \in Nat /\ r # Never
        BY <1>0, <2>1, <3>1 DEF Timeouts, After, Never
      <4> QED
        BY <1>0, <2>1, <2>2, <3>1, <4>1
    <3> QED
      BY <1>0, <2>2, <3>1
  <2>5. PollTyped'
    BY Zenon, <1>0, <2>3, <2>4 DEF PollTyped, GoOn, callVars, After
  <2>6. Places' /\ Lefts'
    BY <1>0, <2>3, <2>4 DEF PollInv, Places, Lefts, InLoop, GoOn, callVars, Never
  <2>7. InTime'
    <3>1. Allowed' = Allowed /\ Fits' = Fits /\ Coming' = 0
      BY Zenon, <1>0, <2>3, AllowedSame DEF GoOn, Coming, Fits, callVars
    <3>2. op' # "poll_queue" /\ limit' = limit /\ elapsed' = elapsed /\ spent' = spent
      BY Zenon, <1>0, <2>3 DEF GoOn, callVars
    <3>3. ASSUME limit # Never, Fits
          PROVE  elapsed - spent + 0 <= Allowed /\ elapsed - spent + 0 <= limit
      BY <1>0, <1>1, <3>3
    <3> QED
      BY Zenon, <3>1, <3>2, <3>3 DEF InTime
  <2>8. WaitsEnough' /\ TimeoutIsElapsed'
    BY Zenon, <2>3 DEF GoOn, WaitsEnough, TimeoutIsElapsed
  <2> QED
    BY <2>5, <2>6, <2>7, <2>8 DEF PollInv
<1>4. CASE ~(msgs > 0) /\ op = "flush"
  BY Zenon, <1>0, <1>4, ReturnInv DEF Flush
<1>5. CASE ~(msgs > 0) /\ op = "commit_transaction"
  <2> DEFINE w == Waits(AsMillis(limit))
  <2>1. at' = "native" /\ wait' = w /\ UNCHANGED <<left, event, outcome, spent, ignored>>
    BY Zenon, <1>5 DEF Flush
  <2>2. w \in Timeouts /\ (limit = Never => w = Never)
    BY <1>0, WaitsType DEF Waits, AsMillis, Never
  <2>3. limit # Never /\ Fits => w = limit
    BY Zenon, <1>1, WaitsExact DEF Fits
  <2> HIDE DEF w
  <2>4. PollTyped'
    BY Zenon, <1>0, <2>1, <2>2 DEF PollTyped, callVars, Timeouts
  <2>5. Places' /\ Lefts'
    BY Zenon, <1>0, <1>5, <2>1 DEF Places, Lefts, InLoop, callVars
  <2>6. InTime'
    <3>1. Allowed' = Allowed /\ Fits' = Fits /\ Coming' = w /\ Allowed = 2 * limit
      BY Zenon, <1>0, <1>5, <2>1, AllowedSame DEF Coming, Fits, Allowed, callVars
    <3>2. op' = op /\ limit' = limit /\ elapsed' = elapsed /\ spent' = spent
      BY Zenon, <1>0, <2>1 DEF callVars
    <3>3. ASSUME limit # Never, Fits
          PROVE  w \in Nat /\ elapsed - spent + w <= 2 * limit
      BY <1>0, <1>1, <2>3, <3>3
    <3> QED
      BY Zenon, <1>5, <2>1, <3>1, <3>2, <3>3 DEF InTime
  <2>7. WaitsEnough'
    <3>1. ASSUME limit # Never, Fits
          PROVE  w \in Nat /\ elapsed + w >= limit
      BY <1>0, <1>1, <2>3, <3>1
    <3> QED
      BY Zenon, <1>0, <2>1, <2>2, <3>1 DEF WaitsEnough, Fits, callVars
  <2>8. TimeoutIsElapsed'
    BY Zenon, <2>1 DEF TimeoutIsElapsed
  <2> QED
    BY Zenon, <2>4, <2>5, <2>6, <2>7, <2>8 DEF PollInv
<1> QED
  BY Zenon, <1>0, <1>2, <1>3, <1>4, <1>5

\* librdkafka returns; with a timeout after its wait.
LEMMA NativeReturnsInv ==
    ASSUME PollInv, NativeReturns
    PROVE  PollInv'
<1>1. at = "native" /\ UNCHANGED <<callVars, elapsed>>
  BY Zenon DEF NativeReturns
<1>2. CASE Return("ok")
  BY Zenon, <1>1, <1>2, ReturnInv
<1>3. CASE wait = 0 /\ Return("timeout")
  <2>1. op \notin {"poll_queue", "poll", "flush"}
    BY Zenon, <1>1 DEF PollInv, Places
  <2>2. elapsed \in Nat /\ limit \in Int
    BY DEF PollInv, PollTyped, After, Never
  <2>3. Fits => limit # Never /\ elapsed >= limit
    BY <1>1, <1>3, <2>2 DEF PollInv, WaitsEnough, Never
  <2> QED
    BY Zenon, <1>1, <1>3, <2>1, <2>3, ReturnInv
<1> QED
  BY Zenon, <1>2, <1>3 DEF NativeReturns

\* A step of the time: in a callback, and in a wait that goes on or is over.
LEMMA Ticks ==
    ASSUME NEW e \in Nat, NEW f \in Nat, f <= e + 1, NEW s \in Nat, NEW w \in Nat, NEW b \in Int,
           e - s + w <= b
    PROVE  /\ f - (s + 1) + w <= b
           /\ w # 0 => w - 1 \in Nat /\ f - s + (w - 1) <= b
           /\ \A n \in Nat : e < n /\ n <= b => f - s + 0 <= b
OBVIOUS

\* Time passes.
LEMMA TickInv ==
    ASSUME PollInv, Tick
    PROVE  PollInv'
<1>0. /\ PollTyped /\ limit \in Timeouts /\ wait \in Timeouts
      /\ elapsed \in Nat /\ elapsed <= MaxElapsed /\ MaxElapsed \in Nat /\ limit <= MaxElapsed /\ spent \in Nat
      /\ UNCHANGED <<callVars, at, left, ignored, event, outcome>>
  BY Zenon, PollAssumption DEF PollInv, PollTyped, Timeouts, Tick
<1>1. elapsed' \in Nat /\ elapsed' <= MaxElapsed
  BY <1>0 DEF Tick, Later
<1>2. elapsed \in Nat /\ elapsed' \in Nat /\ elapsed' <= elapsed + 1 /\ spent \in Nat
  BY <1>0 DEF Tick, Later
<1>3. elapsed' = elapsed + 1 \/ elapsed' >= limit
  BY <1>0 DEF Tick, Later, Timeouts, After, Never
<1>4. wait' \in Timeouts /\ spent' \in Nat
  BY <1>0 DEF Tick, Timeouts, After, Never
<1>5. PollTyped'
  BY Zenon, <1>0, <1>1, <1>4 DEF PollTyped, callVars, Timeouts
<1>6. Places' /\ Lefts'
  BY Zenon, <1>0 DEF PollInv, Places, Lefts, InLoop, callVars
<1>7. InTime'
  <2>1. Allowed' = Allowed /\ Fits' = Fits /\ op' = op /\ limit' = limit /\ at' = at
    BY Zenon, <1>0, AllowedSame DEF Fits, callVars
  <2>2. at \in {"polling", "handling", "second", "native"} /\ Coming = wait /\ Coming' = wait'
    BY Zenon, <1>0 DEF Tick, Coming
  <2> SUFFICES ASSUME limit # Never, Fits \/ op = "poll_queue"
               PROVE  /\ wait' \in Nat
                      /\ elapsed' - spent' + wait' <= Allowed
                      /\ op = "commit_transaction" /\ at # "native" => elapsed' - spent' + wait' <= limit
    BY Zenon, <2>1, <2>2 DEF InTime
  <2>3. limit \in Nat /\ Allowed \in Int /\ limit <= Allowed
    BY Zenon, <1>0, AllowedFacts
  <2>4. /\ wait \in Nat /\ elapsed - spent + wait <= Allowed
        /\ op = "commit_transaction" /\ at # "native" => elapsed - spent + wait <= limit
    BY Zenon, <2>2 DEF PollInv, InTime
  <2> SUFFICES ASSUME NEW b \in {limit, Allowed}, elapsed - spent + wait <= b
               PROVE  wait' \in Nat /\ elapsed' - spent' + wait' <= b
    BY Zenon, <2>4
  <2>8. b \in Int /\ limit <= b
    BY <2>3
  <2>5. CASE at \in {"handling", "second"}
    <3>1. wait' = wait /\ spent' = spent + 1
      BY Zenon, <2>5 DEF Tick
    <3>2. elapsed' - (spent + 1) + wait <= b
      BY Zenon, <1>2, <2>4, <2>8, Ticks
    <3> QED
      BY Zenon, <2>4, <3>1, <3>2
  <2>6. CASE at \in {"polling", "native"} /\ wait # 0
    <3>1. wait' = wait - 1 /\ spent' = spent
      BY <2>4, <2>6 DEF Tick, Never
    <3>2. wait - 1 \in Nat /\ elapsed' - spent + (wait - 1) <= b
      BY Zenon, <1>2, <2>4, <2>6, <2>8, Ticks
    <3> QED
      BY Zenon, <3>1, <3>2
  <2>7. CASE at \in {"polling", "native"} /\ wait = 0
    <3>1. wait' = 0 /\ spent' = spent /\ elapsed < limit
      BY Zenon, <2>7 DEF Tick
    <3>2. elapsed' - spent + 0 <= b
      BY Zenon, <1>2, <2>3, <2>4, <2>8, <3>1, Ticks
    <3> QED
      BY Zenon, <3>1, <3>2
  <2> QED
    BY Zenon, <2>2, <2>5, <2>6, <2>7
<1>8. WaitsEnough'
  <2> SUFFICES ASSUME at = "native", Fits
               PROVE  IF limit = Never THEN wait' = Never ELSE wait' \in Nat /\ elapsed' + wait' >= limit
    BY Zenon, <1>0 DEF WaitsEnough, Fits, callVars
  <2>1. wait # 0 /\ wait' = IF wait \in {0, Never} THEN wait ELSE wait - 1
    BY Zenon DEF Tick
  <2>2. IF limit = Never THEN wait = Never ELSE wait \in Nat /\ elapsed + wait >= limit
    BY Zenon DEF PollInv, WaitsEnough
  <2>3. CASE limit = Never
    BY Zenon, <2>1, <2>2, <2>3
  <2>4. CASE limit # Never
    <3>1. limit \in Nat /\ wait \in Nat /\ elapsed + wait >= limit /\ wait' = wait - 1
      BY <1>0, <2>1, <2>2, <2>4 DEF Timeouts, After, Never
    <3>2. \A e, f, w, n \in Nat : w # 0 /\ e + w >= n /\ (f = e + 1 \/ f >= n)
                                    => w - 1 \in Nat /\ f + (w - 1) >= n
      OBVIOUS
    <3>3. wait - 1 \in Nat /\ elapsed' + (wait - 1) >= limit
      BY Zenon, <1>2, <1>3, <2>1, <3>1, <3>2
    <3> QED
      BY Zenon, <2>4, <3>1, <3>3
  <2> QED
    BY Zenon, <2>3, <2>4
<1>9. TimeoutIsElapsed'
  <2>1. at' # "idle"
    BY Zenon DEF Tick
  <2> QED
    BY Zenon, <2>1 DEF TimeoutIsElapsed
<1> QED
  BY <1>5, <1>6, <1>7, <1>8, <1>9 DEF PollInv

\* A step that leaves the call and its times alone.
LEMMA PollStutter ==
    ASSUME PollInv, UNCHANGED <<callVars, at, left, wait, timeVars, ignored, event, outcome>>
    PROVE  PollInv'
<1>1. PollTyped' /\ Places' /\ Lefts'
  BY Zenon DEF PollInv, PollTyped, Places, Lefts, InLoop, callVars, timeVars
<1>2. InTime'
  <2>1. Allowed' = Allowed /\ Fits' = Fits /\ Coming' = Coming
    BY Zenon, AllowedSame DEF Coming, Fits, callVars
  <2> QED
    BY Zenon, <2>1 DEF PollInv, InTime, callVars, timeVars
<1>3. WaitsEnough' /\ TimeoutIsElapsed'
  BY Zenon DEF PollInv, WaitsEnough, TimeoutIsElapsed, Fits, callVars, timeVars
<1> QED
  BY Zenon, <1>1, <1>2, <1>3 DEF PollInv

\* Every step keeps the invariant.
LEMMA PollNextInv ==
    ASSUME PollInv, [PollNext]_pollVars
    PROVE  PollInv'
<1>1. ASSUME NEW o \in Calls, NEW t \in Limits, Call(o, t)
      PROVE  PollInv'
  BY Zenon, <1>1, CallInv
<1>2. CASE Send \/ TokenExpires
  BY Zenon, <1>2, PollStutter DEF Send, TokenExpires
<1>3. ASSUME NEW e \in Events, EventComes(e)
      PROVE  PollInv'
  BY Zenon, <1>3, EventComesInv
<1>4. CASE Step
  BY Zenon, <1>4, PollEventInv, PollNoneInv, EventHandledInv, FlushInv, NativeReturnsInv DEF Step
<1>5. CASE Tick
  BY Zenon, <1>5, TickInv
<1>6. CASE UNCHANGED pollVars
  BY Zenon, <1>6, PollStutter DEF pollVars, callVars, timeVars
<1> QED
  BY Zenon, <1>1, <1>2, <1>3, <1>4, <1>5, <1>6 DEF PollNext

LEMMA PollInitInv == PollInit => PollInv
<1> SUFFICES ASSUME PollInit
             PROVE  PollInv
  OBVIOUS
<1>1. PollTyped
  BY PollAssumption DEF PollInit, PollTyped, Calls, After
<1>2. Places /\ Lefts /\ InTime /\ WaitsEnough
  BY Zenon DEF PollInit, Places, Lefts, InLoop, InTime, WaitsEnough
<1>3. TimeoutIsElapsed
  BY DEF PollInit, TimeoutIsElapsed, Never
<1> QED
  BY Zenon, <1>1, <1>2, <1>3 DEF PollInv

\* The inductive invariant of the calls that wait.
THEOREM PollInvariance == PollSpec => []PollInv
<1>1. PollInit => PollInv
  BY Zenon, PollInitInv
<1>2. PollInv /\ [PollNext]_pollVars => PollInv'
  BY Zenon, PollNextInv
<1> QED
  BY <1>1, <1>2, PTL DEF PollSpec

\* A call with a timeout waits for no longer than it may, for every timeout,
\* interval and slice, and however many events come.
THEOREM NoLongerThanAllowed == PollSpec => []WaitsNoLonger
<1>1. PollInv => WaitsNoLonger
  <2> SUFFICES ASSUME PollInv, at # "idle", limit # Never, Fits \/ op = "poll_queue"
               PROVE  elapsed - spent <= Allowed
    BY Zenon DEF WaitsNoLonger
  <2>1. elapsed \in Nat /\ spent \in Nat /\ PollTyped
    BY Zenon DEF PollInv, PollTyped
  <2>2. Allowed \in Int
    BY Zenon, <2>1, AllowedFacts
  <2>3. Coming \in Nat /\ elapsed - spent + Coming <= Allowed
    BY Zenon DEF PollInv, InTime
  <2> QED
    BY <2>1, <2>2, <2>3
<1> QED
  BY <1>1, PollInvariance, PTL

\* A call that ends with a timeout or with nothing has waited for all of it.
THEOREM NoEarlyTimeout == PollSpec => []TimeoutIsElapsed
<1>1. PollInv => TimeoutIsElapsed
  BY Zenon DEF PollInv
<1> QED
  BY <1>1, PollInvariance, PTL

----------------------------------------------------------------------------
(* Offsets                                                                 *)

USE DEF OFFSET_BEGINNING, OFFSET_END, OFFSET_STORED, OFFSET_INVALID, OFFSET_TAIL_BASE

\* from_raw undoes to_raw, for every offset to_raw is right about.
THEOREM OffsetRoundTrip ==
    ASSUME NEW o \in OffsetType, Exact(o)
    PROVE  FromRaw(ToRaw(o)) = o
<1> USE ListAssumption
<1>1. CASE o.kind = "Offset"
  <2>1. o = Offset("Offset", o.n) /\ o.n \in Int /\ o.n >= 0
    BY <1>1 DEF OffsetType, Offset, Exact, Representable, i64
  <2> QED
    BY <1>1, <2>1 DEF FromRaw, ToRaw, Offset
<1>2. CASE o.kind = "OffsetTail"
  <2>1. o = Offset("OffsetTail", o.n) /\ o.n \in Int /\ o.n > 0 /\ -2000 - o.n >= -Half
    BY <1>2 DEF OffsetType, Offset, Exact, Representable, i64
  <2>2. ToRaw(o) = -2000 - o.n
    BY <1>2, <2>1 DEF ToRaw, Wrap
  <2>3. FromRaw(-2000 - o.n) = Offset("OffsetTail", -((-2000 - o.n) - (-2000)))
    BY <2>1 DEF FromRaw, Offset
  <2>4. -((-2000 - o.n) - (-2000)) = o.n
    BY <2>1
  <2> QED
    BY <2>1, <2>2, <2>3, <2>4
<1>3. CASE o.kind \in {"Beginning", "End", "Stored", "Invalid"}
  <2>1. o = Offset(o.kind, 0)
    BY <1>3 DEF OffsetType, Offset
  <2> QED
    BY <1>3, <2>1 DEF FromRaw, ToRaw, Offset
<1> QED
  BY <1>1, <1>2, <1>3 DEF OffsetType

\* The integers that survive from_raw and to_raw.
Surviving == {raw \in i64 : Representable(FromRaw(raw)) /\ ToRaw(FromRaw(raw)) = raw}

\* Whatever to_raw returns survives, also when a tail that is too long wraps.
LEMMA ToRawSurvives ==
    ASSUME NEW o \in OffsetType, Representable(o)
    PROVE  ToRaw(o) \in Surviving
<1> USE ListAssumption
<1>1. CASE Exact(o)
  <2>1. ToRaw(o) \in i64
    BY <1>1 DEF OffsetType, Exact, Representable, i64, ToRaw, Wrap
  <2> QED
    BY <1>1, <2>1, OffsetRoundTrip DEF Surviving
<1>2. CASE ~Exact(o)
  <2>1. o.kind = "OffsetTail" /\ o.n \in Int /\ o.n <= Half - 1 /\ -2000 - o.n < -Half
    BY <1>2 DEF OffsetType, Exact, i64
  <2>2. PICK n \in Int : n = -2000 - o.n + 2 * Half
    BY <2>1
  <2>3. ToRaw(o) = n
    BY <2>1, <2>2 DEF ToRaw, Wrap
  <2>4. n \in i64 /\ n >= 0
    BY <2>1, <2>2 DEF i64
  <2>5. FromRaw(n) = Offset("Offset", n)
    BY <2>4 DEF FromRaw
  <2>6. Representable(Offset("Offset", n))
    BY <2>4 DEF Representable, Offset
  <2>7. ToRaw(Offset("Offset", n)) = n
    BY DEF ToRaw, Offset
  <2> QED
    BY <2>3, <2>4, <2>5, <2>6, <2>7 DEF Surviving
<1> QED
  BY <1>1, <1>2

\* So does what a new element holds.
LEMMA InvalidSurvives == OFFSET_INVALID \in Surviving
<1>1. Offset("Invalid", 0) \in OffsetType
  BY Zenon DEF Offset, OffsetType
<1> QED
  BY <1>1, ToRawSurvives DEF Offset, Representable, ToRaw

\* The elements whose integer survives, and the inductive invariant.
GoodElem == [key : Topics \X Int, offset : Surviving]

ListInv == lists \in [Lists -> Seq(GoodElem)] /\ result \in {"Ok", "Err"}

\* Every element an operation makes is a good one.
LEMMA NewElem ==
    ASSUME NEW key \in Topics \X Int, NEW raw \in Surviving
    PROVE  Elem(key, raw) \in GoodElem
BY Zenon DEF Elem, GoodElem

\* An element stays good when its integer is replaced by one that survives.
LEMMA ElemWith ==
    ASSUME NEW e \in GoodElem, NEW raw \in Surviving
    PROVE  [e EXCEPT !.offset = raw] \in GoodElem
<1>1. ASSUME NEW K, NEW S, NEW f \in [key : K, offset : S], NEW r \in S
      PROVE  [f EXCEPT !.offset = r] \in [key : K, offset : S]
  OBVIOUS
<1> QED
  BY Zenon, <1>1 DEF GoodElem

\* A list of good elements is put in the place of another.
LEMMA BecomesInv ==
    ASSUME ListInv, NEW l \in Lists, NEW s \in Seq(GoodElem), NEW r \in {"Ok", "Err"},
           Becomes(l, s, r)
    PROVE  ListInv'
BY Zenon DEF ListInv, Becomes

\* set_partition_offset keeps the elements good, whichever it finds.
LEMMA WithOffsetGood ==
    ASSUME NEW s \in Seq(GoodElem), NEW key, NEW o \in OffsetType
    PROVE  WithOffset(s, key, o) \in Seq(GoodElem)
<1>1. CASE ~Settable(s, key, o)
  BY Zenon, <1>1 DEF WithOffset
<1>2. CASE Settable(s, key, o)
  <2>1. ToRaw(o) \in Surviving
    BY Zenon, <1>2, ToRawSurvives DEF Settable
  <2> DEFINE i == Find(s, key)
  <2>2. ASSUME i \in DOMAIN s
        PROVE  [s EXCEPT ![i].offset = ToRaw(o)] \in Seq(GoodElem)
    <3>1. [s[i] EXCEPT !.offset = ToRaw(o)] \in GoodElem
      BY <2>1, <2>2, ElemWith
    <3> QED
      BY <2>2, <3>1
  <2>3. ASSUME i \notin DOMAIN s
        PROVE  [s EXCEPT ![i].offset = ToRaw(o)] = s
    BY <2>3
  <2> QED
    BY Zenon, <1>2, <2>2, <2>3 DEF WithOffset
<1> QED
  BY Zenon, <1>1, <1>2

\* What Outcome yields is a result.
LEMMA OutcomeType == ASSUME NEW ok PROVE Outcome(ok) \in {"Ok", "Err"}
BY Zenon DEF Outcome

\* The operations on one element.
LEMMA ElementInv ==
    ASSUME ListInv, NEW l \in Lists, NEW key \in Topics \X Int
    PROVE  /\ AddPartition(l, key) => ListInv'
           /\ \A o \in Offsets : SetPartitionOffset(l, key, o) => ListInv'
           /\ \A o \in Offsets : AddPartitionOffset(l, key, o) => ListInv'
<1> DEFINE s == Append(lists[l], Elem(key, OFFSET_INVALID))
<1>1. lists[l] \in Seq(GoodElem)
  BY Zenon DEF ListInv
<1>2. s \in Seq(GoodElem)
  <2>1. Elem(key, OFFSET_INVALID) \in GoodElem
    BY InvalidSurvives, NewElem
  <2> QED
    BY <1>1, <2>1
<1>3. ASSUME AddPartition(l, key) PROVE ListInv'
  <2>1. Becomes(l, s, "Ok")
    BY <1>3 DEF AddPartition
  <2> HIDE DEF s
  <2> QED
    BY Zenon, <1>2, <2>1, BecomesInv
<1>4. ASSUME NEW o \in Offsets, SetPartitionOffset(l, key, o) PROVE ListInv'
  <2> DEFINE t == WithOffset(lists[l], key, o)
             r == Outcome(Settable(lists[l], key, o))
  <2>1. o \in OffsetType
    BY ListAssumption
  <2>2. t \in Seq(GoodElem)
    BY Zenon, <1>1, <2>1, WithOffsetGood
  <2>3. Becomes(l, t, r)
    BY Zenon, <1>4 DEF SetPartitionOffset
  <2>4. r \in {"Ok", "Err"}
    BY Zenon, OutcomeType
  <2> HIDE DEF t, r
  <2> QED
    BY Zenon, <2>2, <2>3, <2>4, BecomesInv
<1>5. ASSUME NEW o \in Offsets, AddPartitionOffset(l, key, o) PROVE ListInv'
  <2> DEFINE t == WithOffset(s, key, o)
             r == Outcome(Settable(s, key, o))
  <2>1. o \in OffsetType
    BY ListAssumption
  <2>2. t \in Seq(GoodElem)
    <3> HIDE DEF s
    <3> QED
      BY Zenon, <1>2, <2>1, WithOffsetGood
  <2>3. Becomes(l, t, r)
    BY <1>5 DEF AddPartitionOffset
  <2>4. r \in {"Ok", "Err"}
    BY OutcomeType
  <2> HIDE DEF t, r
  <2> QED
    BY <2>2, <2>3, <2>4, BecomesInv
<1> QED
  BY Zenon, <1>3, <1>4, <1>5

\* add_partition_range, set_all_offsets, and set_offset of an element.
LEMMA WholeListInv ==
    ASSUME ListInv, NEW l \in Lists
    PROVE  /\ \A topic \in Topics, start, stop \in Partitions :
                 start <= stop /\ AddPartitionRange(l, topic, start, stop) => ListInv'
           /\ \A o \in Offsets : SetAllOffsets(l, o) => ListInv'
           /\ \A o \in Offsets, i \in Nat : SetOffset(l, i, o) => ListInv'
<1>1. lists[l] \in Seq(GoodElem)
  BY Zenon DEF ListInv
<1>2. ASSUME NEW topic \in Topics, NEW start \in Partitions, NEW stop \in Partitions,
             start <= stop, AddPartitionRange(l, topic, start, stop)
      PROVE  ListInv'
  <2> DEFINE n == stop - start + 1
  <2> DEFINE r == [i \in 1..n |-> Elem(<<topic, start + i - 1>>, OFFSET_INVALID)]
  <2>1. start \in Int /\ stop \in Int /\ n \in Nat
    BY <1>2, ListAssumption
  <2>2. ASSUME NEW i \in 1..n PROVE r[i] \in GoodElem
    <3>1. <<topic, start + i - 1>> \in Topics \X Int
      BY <2>1
    <3> QED
      BY <3>1, InvalidSurvives, NewElem
  <2>3. r \in Seq(GoodElem)
    <3> HIDE DEF n
    <3>1. r \in [1..n -> GoodElem]
      BY <2>2
    <3> QED
      BY <2>1, <3>1
  <2>4. lists[l] \o r \in Seq(GoodElem)
    <3> HIDE DEF r
    <3> QED
      BY <1>1, <2>3
  <2>5. Becomes(l, lists[l] \o r, "Ok")
    BY Zenon, <1>2 DEF AddPartitionRange
  <2> DEFINE v == lists[l] \o r
  <2> HIDE DEF r
  <2>6. v \in Seq(GoodElem) /\ Becomes(l, v, "Ok")
    BY Zenon, <2>4, <2>5
  <2> HIDE DEF v
  <2> QED
    BY Zenon, <2>6, BecomesInv
<1>3. ASSUME NEW o \in Offsets, SetAllOffsets(l, o) PROVE ListInv'
  <2> DEFINE s == lists[l]
             ok == s = <<>> \/ Representable(o)
             t == [i \in DOMAIN s |-> [s[i] EXCEPT !.offset = ToRaw(o)]]
             u == IF ok THEN t ELSE s
  <2>1. ASSUME Representable(o) PROVE t \in Seq(GoodElem)
    <3>1. ToRaw(o) \in Surviving
      BY <2>1, ToRawSurvives, ListAssumption
    <3>2. ASSUME NEW i \in DOMAIN s PROVE [s[i] EXCEPT !.offset = ToRaw(o)] \in GoodElem
      BY <1>1, <3>1, <3>2, ElemWith
    <3>3. DOMAIN s = 1..Len(s) /\ Len(s) \in Nat
      BY <1>1
    <3> QED
      BY <3>2, <3>3
  <2>2. ASSUME s = <<>> PROVE t = <<>>
    BY <2>2
  <2>3. u \in Seq(GoodElem)
    BY Zenon, <1>1, <2>1, <2>2
  <2> DEFINE r == Outcome(ok)
  <2>4. Becomes(l, u, r)
    BY Zenon, <1>3 DEF SetAllOffsets
  <2>5. r \in {"Ok", "Err"}
    BY Zenon, OutcomeType
  <2> HIDE DEF u, r
  <2> QED
    BY Zenon, <2>3, <2>4, <2>5, BecomesInv
<1>4. ASSUME NEW o \in Offsets, NEW i \in Nat, SetOffset(l, i, o) PROVE ListInv'
  <2> DEFINE s == lists[l]
             u == IF Representable(o) THEN [s EXCEPT ![i] = Elem(s[i].key, ToRaw(o))] ELSE s
             r == Outcome(Representable(o))
  <2>1. s[i].key \in Topics \X Int
    <3>1. s[i] \in GoodElem
      BY <1>1, <1>4 DEF SetOffset
    <3> QED
      BY Zenon, <3>1 DEF GoodElem
  <2>2. ASSUME Representable(o) PROVE Elem(s[i].key, ToRaw(o)) \in GoodElem
    BY <2>1, <2>2, ToRawSurvives, NewElem, ListAssumption
  <2>3. u \in Seq(GoodElem)
    <3>1. ASSUME NEW S, NEW q \in Seq(S), NEW j \in 1..Len(q), NEW e \in S
          PROVE  [q EXCEPT ![j] = e] \in Seq(S)
      OBVIOUS
    <3>2. i \in 1..Len(s)
      BY <1>1, <1>4 DEF SetOffset
    <3> QED
      BY Zenon, <1>1, <2>2, <3>1, <3>2
  <2>4. Becomes(l, u, r)
    BY Zenon, <1>4 DEF SetOffset
  <2>5. r \in {"Ok", "Err"}
    BY Zenon, OutcomeType
  <2> HIDE DEF u, r
  <2> QED
    BY Zenon, <2>3, <2>4, <2>5, BecomesInv
<1> QED
  BY Zenon, <1>2, <1>3, <1>4

\* A sequence of new elements is good.
LEMMA NewElems ==
    ASSUME NEW n \in Nat, NEW key \in [1..n -> Topics \X Int],
           NEW o \in [1..n -> OffsetType], \A i \in 1..n : Representable(o[i])
    PROVE  [i \in 1..n |-> Elem(key[i], ToRaw(o[i]))] \in Seq(GoodElem)
<1>1. ASSUME NEW i \in 1..n PROVE Elem(key[i], ToRaw(o[i])) \in GoodElem
  <2>1. ToRaw(o[i]) \in Surviving
    BY Zenon, ToRawSurvives
  <2> QED
    BY Zenon, <2>1, NewElem
<1>2. [i \in 1..n |-> Elem(key[i], ToRaw(o[i]))] \in [1..n -> GoodElem]
  BY Zenon, <1>1
<1> QED
  BY <1>2

\* A partition of a topic is one of those lists may hold.
LEMMA KeysTyped == Keys \subseteq Topics \X Int
<1>1. ASSUME NEW P, P \subseteq Int PROVE Topics \X P \subseteq Topics \X Int
  BY Zenon, <1>1
<1>2. Partitions \subseteq Int
  BY ListAssumption
<1> QED
  BY Zenon, <1>1, <1>2 DEF Keys

\* clone(), from_topic_map and collect().
LEMMA ConstructorInv ==
    ASSUME ListInv, NEW l \in Lists
    PROVE  /\ \A k \in Lists : Clone(l, k) => ListInv'
           /\ \A map \in Maps : FromTopicMap(l, map) => ListInv'
           /\ \A items \in Items : Collect(l, items) => ListInv'
<1>1. lists[l] \in Seq(GoodElem)
  BY DEF ListInv
<1>2. Keys \subseteq Topics \X Int
  BY Zenon, KeysTyped
<1>3. ASSUME NEW k \in Lists, Clone(l, k) PROVE ListInv'
  BY Zenon, <1>1, <1>3, BecomesInv DEF Clone
<1>4. ASSUME NEW map \in Maps, FromTopicMap(l, map) PROVE ListInv'
  <2> DEFINE ok == \A key \in DOMAIN map : Representable(map[key])
             n == Cardinality(DOMAIN map)
  <2>1. DOMAIN map \subseteq Topics \X Int /\ \A key \in DOMAIN map : map[key] \in OffsetType
    BY <1>2, ListAssumption DEF Maps
  <2>2. n \in Nat
    BY Zenon, FS_CardinalityType DEF Maps
  <2>3. PICK order \in [1..n -> DOMAIN map] :
            Becomes(l, IF ok THEN [i \in 1..n |-> Elem(order[i], ToRaw(map[order[i]]))]
                             ELSE <<>>, Outcome(ok))
    BY Zenon, <1>4 DEF FromTopicMap
  <2> HIDE DEF n
  <2> DEFINE o == [i \in 1..n |-> map[order[i]]]
             t == [i \in 1..n |-> Elem(order[i], ToRaw(o[i]))]
  <2>4. order \in [1..n -> Topics \X Int] /\ o \in [1..n -> OffsetType]
    BY Zenon, <2>1
  <2>5. ASSUME ok PROVE t \in Seq(GoodElem)
    <3>1. \A i \in 1..n : Representable(o[i])
      BY Zenon, <2>5
    <3> HIDE DEF o
    <3> QED
      BY Zenon, <2>2, <2>4, <3>1, NewElems
  <2>6. t = [i \in 1..n |-> Elem(order[i], ToRaw(map[order[i]]))]
    OBVIOUS
  <2>7. Becomes(l, IF ok THEN t ELSE <<>>, Outcome(ok))
    BY Zenon, <2>3, <2>6
  <2> DEFINE u == IF ok THEN t ELSE <<>>
             r == Outcome(ok)
  <2>8. u \in Seq(GoodElem)
    <3> HIDE DEF t, ok
    <3> QED
      BY <2>5
  <2>9. r \in {"Ok", "Err"}
    BY Zenon, OutcomeType
  <2>10. Becomes(l, u, r)
    BY Zenon, <2>7
  <2> HIDE DEF u, r
  <2> QED
    BY Zenon, <2>8, <2>9, <2>10, BecomesInv
<1>5. ASSUME NEW items \in Items, Collect(l, items) PROVE ListInv'
  <2>1. PICK n \in Nat : items \in [1..n -> Keys \X Offsets]
    BY ListAssumption DEF Items
  <2> DEFINE key == [i \in 1..n |-> items[i][1]]
             o == [i \in 1..n |-> items[i][2]]
             t == [i \in 1..n |-> Elem(key[i], ToRaw(o[i]))]
  <2>2. key \in [1..n -> Topics \X Int] /\ o \in [1..n -> OffsetType]
    BY <1>2, <2>1, ListAssumption
  <2>3. \A i \in 1..n : Representable(o[i])
    BY Zenon, <1>5, <2>1 DEF Collect
  <2>4. Becomes(l, t, "Ok")
    BY Zenon, <1>5, <2>1 DEF Collect
  <2>5. t \in Seq(GoodElem)
    <3> HIDE DEF key, o
    <3> QED
      BY Zenon, <2>2, <2>3, NewElems
  <2> HIDE DEF t
  <2> QED
    BY Zenon, <2>4, <2>5, BecomesInv
<1> QED
  BY Zenon, <1>3, <1>4, <1>5

\* Every operation, and a step of another part of the program, keeps the
\* elements good.
LEMMA NextInv == ListInv /\ [Next]_vars => ListInv'
<1> SUFFICES ASSUME ListInv, [Next]_vars PROVE ListInv'
  OBVIOUS
<1>1. CASE UNCHANGED vars
  BY Zenon, <1>1 DEF ListInv, vars
<1>2. CASE Next
  <2> PICK l \in Lists :
          \/ \E key \in Keys :
                \/ AddPartition(l, key)
                \/ \E o \in Offsets : SetPartitionOffset(l, key, o) \/ AddPartitionOffset(l, key, o)
          \/ \E topic \in Topics, start, stop \in Partitions :
                start <= stop /\ AddPartitionRange(l, topic, start, stop)
          \/ \E o \in Offsets : SetAllOffsets(l, o) \/ \E i \in 1..MaxCount : SetOffset(l, i, o)
          \/ \E k \in Lists : Clone(l, k)
          \/ \E map \in Maps : FromTopicMap(l, map)
          \/ \E items \in Items : Collect(l, items)
    BY Zenon, <1>2 DEF Next
  <2>1. ASSUME NEW key \in Keys,
               \/ AddPartition(l, key)
               \/ \E o \in Offsets : SetPartitionOffset(l, key, o) \/ AddPartitionOffset(l, key, o)
        PROVE  ListInv'
    <3>1. key \in Topics \X Int
      BY Zenon, KeysTyped
    <3> QED
      BY Zenon, <2>1, <3>1, ElementInv
  <2>2. \A i \in 1..MaxCount : i \in Nat
    BY ListAssumption
  <2> QED
    BY Zenon, <2>1, <2>2, WholeListInv, ConstructorInv
<1> QED
  BY Zenon, <1>1, <1>2

\* Whatever is done to the lists of a program, the integers in them are those
\* of offsets that can be read, and written back unchanged.
THEOREM ListsSurvive == Spec => []RawSurvives
<1>1. Init => ListInv
  BY DEF Init, ListInv
<1>2. ListInv => RawSurvives
  <2> SUFFICES ASSUME ListInv, NEW l \in Lists, NEW i \in DOMAIN lists[l]
               PROVE  lists[l][i].offset \in Surviving
    BY Zenon DEF RawSurvives, Surviving
  <2>1. lists[l][i] \in GoodElem
    BY DEF ListInv
  <2> QED
    BY Zenon, <2>1 DEF GoodElem
<1> QED
  BY <1>1, <1>2, NextInv, PTL DEF Spec

-----------------------------------------------------------------------------
(* Equality *)

Elements(s) == {s[i] : i \in DOMAIN s}

\* A list without a repeated partition has as many elements as its content.
LEMMA ContentCount ==
    ASSUME NEW s \in Seq(GoodElem), Distinct(s)
    PROVE  IsFiniteSet(Elements(s)) /\ Cardinality(Elements(s)) = Len(s)
<1>1. DOMAIN s = 1..Len(s) /\ Len(s) \in Nat /\ s \in [1..Len(s) -> Elements(s)]
  BY DEF Elements
<1>2. s \in Surjection(1..Len(s), Elements(s))
  BY Zenon, <1>1 DEF Surjection, Elements
<1>3. s \in Injection(1..Len(s), Elements(s))
  BY Zenon, <1>1 DEF Injection, IsInjective, Distinct
<1>4. IsFiniteSet(1..Len(s)) /\ Cardinality(1..Len(s)) = Len(s)
  <2>1. 1 \in Int /\ Len(s) \in Int
    BY <1>1
  <2>2. /\ IsFiniteSet(1..Len(s))
        /\ Cardinality(1..Len(s)) = IF 1 > Len(s) THEN 0 ELSE Len(s) - 1 + 1
    BY <2>1, FS_Interval, Zenon
  <2> QED
    BY <1>1, <2>2
<1> QED
  BY Zenon, <1>2, <1>3, <1>4, FS_Surjection

\* Find returns the one element of a partition.
LEMMA FindOnly ==
    ASSUME NEW s \in Seq(GoodElem), Distinct(s), NEW j \in DOMAIN s
    PROVE  Has(s, s[j].key) /\ Find(s, s[j].key) = j
<1>1. DOMAIN s = 1..Len(s) /\ Len(s) \in Nat
  OBVIOUS
<1>2. \A i \in 1..(j - 1) : s[i].key # s[j].key
  BY <1>1 DEF Distinct
<1>3. \A i \in DOMAIN s :
         s[i].key = s[j].key /\ (\A k \in 1..(i - 1) : s[k].key # s[j].key) => i = j
  BY Zenon DEF Distinct
<1> QED
  BY Zenon, <1>2, <1>3 DEF Has, Find

\* Elements that == takes for equal are equal: no two integers that survive are read
\* as the same offset.
LEMMA EqElemIsEqual ==
    ASSUME NEW e \in GoodElem, NEW f \in GoodElem
    PROVE  EqElem(e, f) <=> e = f
<1>1. e.offset \in Surviving /\ f.offset \in Surviving
  BY Zenon DEF GoodElem
<1>2. FromRaw(e.offset) = FromRaw(f.offset) => e.offset = f.offset
  BY Zenon, <1>1 DEF Surviving
<1>3. e.key = f.key /\ e.offset = f.offset => e = f
  BY DEF GoodElem
<1> QED
  BY Zenon, <1>2, <1>3 DEF EqElem

LEMMA EqLists ==
    ASSUME NEW s \in Seq(GoodElem), NEW r \in Seq(GoodElem), Distinct(s), Distinct(r)
    PROVE  Eq(s, r) <=> Elements(s) = Elements(r)
<1>0. /\ IsFiniteSet(Elements(s)) /\ Cardinality(Elements(s)) = Len(s)
      /\ IsFiniteSet(Elements(r)) /\ Cardinality(Elements(r)) = Len(r)
  BY Zenon, ContentCount
<1>1. /\ \A i \in DOMAIN s : s[i] \in GoodElem
      /\ \A i \in DOMAIN r : r[i] \in GoodElem
  OBVIOUS
<1>2. ASSUME Eq(s, r) PROVE Elements(s) = Elements(r)
  <2>1. ASSUME NEW i \in DOMAIN s PROVE s[i] \in Elements(r)
    <3>1. PICK j \in DOMAIN r : r[j].key = s[i].key
      BY Zenon, <1>2 DEF Eq, Has
    <3>2. Find(r, s[i].key) = j
      BY Zenon, <3>1, FindOnly
    <3>3. s[i] = r[j]
      BY Zenon, <1>1, <1>2, <3>2, EqElemIsEqual DEF Eq
    <3> QED
      BY Zenon, <3>3 DEF Elements
  <2>2. Elements(s) \in SUBSET Elements(r)
    BY Zenon, <2>1 DEF Elements
  <2> QED
    BY Zenon, <1>0, <1>2, <2>2, FS_Subset DEF Eq
<1>3. ASSUME Elements(s) = Elements(r) PROVE Eq(s, r)
  <2>1. Len(s) = Len(r)
    BY Zenon, <1>0, <1>3
  <2>2. ASSUME NEW i \in DOMAIN s
        PROVE  Has(r, s[i].key) /\ EqElem(s[i], r[Find(r, s[i].key)])
    <3>1. PICK j \in DOMAIN r : s[i] = r[j]
      BY Zenon, <1>3 DEF Elements
    <3>2. Has(r, s[i].key) /\ Find(r, s[i].key) = j
      BY Zenon, <3>1, FindOnly
    <3> QED
      BY Zenon, <3>1, <3>2 DEF EqElem
  <2> QED
    BY Zenon, <2>1, <2>2 DEF Eq
<1> QED
  BY Zenon, <1>2, <1>3

\* Lists without a repeated partition are equal, for ==, exactly if they have the
\* same elements.
THEOREM EqualityIsContent == Spec => []EqIsContent
<1>1. Init => ListInv
  BY DEF Init, ListInv
<1>2. ListInv => EqIsContent
  <2> SUFFICES ASSUME ListInv, NEW l \in Lists, NEW k \in Lists,
                      Distinct(lists[l]), Distinct(lists[k])
               PROVE  Eq(lists[l], lists[k]) <=> Elements(lists[l]) = Elements(lists[k])
    BY Zenon DEF EqIsContent, Elements
  <2>1. lists[l] \in Seq(GoodElem) /\ lists[k] \in Seq(GoodElem)
    BY Zenon DEF ListInv
  <2> QED
    BY Zenon, <2>1, EqLists
<1> QED
  BY <1>1, <1>2, NextInv, PTL DEF Spec

-----------------------------------------------------------------------------
(* Errors *)

\* The element that add_partition_offset looks for is there: only the offset can be
\* refused, and then the list keeps the elements it had.
LEMMA ErrorKeeps ==
    ASSUME ListInv, Next, result' = "Err", NEW k \in Lists, NEW i \in DOMAIN lists[k]
    PROVE  i \in DOMAIN lists'[k] /\ lists'[k][i] = lists[k][i]
<1> DEFINE Kept == i \in DOMAIN lists'[k] /\ lists'[k][i] = lists[k][i]
<1>1. ASSUME NEW l \in Lists, NEW s \in Seq(GoodElem), Becomes(l, s, "Err"),
             \A j \in DOMAIN lists[l] : j \in DOMAIN s /\ s[j] = lists[l][j]
      PROVE  Kept
  <2>1. lists'[l] = s /\ (k # l => lists'[k] = lists[k])
    BY Zenon, <1>1 DEF Becomes, ListInv
  <2> QED
    BY Zenon, <1>1, <2>1
<1>2. ASSUME NEW l \in Lists, NEW ok, NEW s, Becomes(l, s, Outcome(ok))
      PROVE  ~ok /\ Becomes(l, s, "Err")
  BY Zenon, <1>2 DEF Becomes, Outcome
<1>3. ASSUME NEW l \in Lists PROVE lists[l] \in Seq(GoodElem)
  BY Zenon DEF ListInv
<1>4. ASSUME NEW l \in Lists, NEW key, NEW o, SetPartitionOffset(l, key, o) PROVE Kept
  <2>1. ~Settable(lists[l], key, o) /\ Becomes(l, WithOffset(lists[l], key, o), "Err")
    BY Zenon, <1>2, <1>4 DEF SetPartitionOffset
  <2> QED
    BY Zenon, <1>1, <1>3, <2>1 DEF WithOffset
<1>5. ASSUME NEW l \in Lists, NEW key \in Keys, NEW o, AddPartitionOffset(l, key, o) PROVE Kept
  <2> DEFINE e == Elem(key, OFFSET_INVALID)
             s == Append(lists[l], e)
  <2>1. ~Settable(s, key, o) /\ Becomes(l, WithOffset(s, key, o), "Err")
    BY <1>2, <1>5 DEF AddPartitionOffset
  <2>2. e \in GoodElem
    BY NewElem, InvalidSurvives, KeysTyped
  <2> HIDE DEF e
  <2>3. s \in Seq(GoodElem) /\ \A j \in DOMAIN lists[l] : j \in DOMAIN s /\ s[j] = lists[l][j]
    BY <1>3, <2>2
  <2> QED
    BY Zenon, <1>1, <2>1, <2>3 DEF WithOffset
<1>6. ASSUME NEW l \in Lists, NEW o, SetAllOffsets(l, o) PROVE Kept
  <2>1. Becomes(l, lists[l], "Err")
    BY Zenon, <1>2, <1>6 DEF SetAllOffsets
  <2> QED
    BY Zenon, <1>1, <1>3, <2>1
<1>7. ASSUME NEW l \in Lists, NEW o, NEW j, SetOffset(l, j, o) PROVE Kept
  <2>1. Becomes(l, lists[l], "Err")
    BY Zenon, <1>2, <1>7 DEF SetOffset
  <2> QED
    BY <1>1, <1>3, <2>1
<1>8. ASSUME NEW l \in Lists, NEW map, FromTopicMap(l, map) PROVE Kept
  <2>1. lists[l] = <<>> /\ \E s : lists' = [lists EXCEPT ![l] = s]
    BY Zenon, <1>8 DEF FromTopicMap, Fresh, Becomes
  <2>2. k # l
    BY <2>1
  <2> QED
    BY Zenon, <2>1, <2>2 DEF ListInv
<1>9. ASSUME NEW l, NEW s, Becomes(l, s, "Ok") PROVE FALSE
  BY Zenon, <1>9 DEF Becomes
<1>10. PICK l \in Lists :
        \/ \E key \in Keys :
              \/ AddPartition(l, key)
              \/ \E o \in Offsets : SetPartitionOffset(l, key, o) \/ AddPartitionOffset(l, key, o)
        \/ \E topic \in Topics, start, stop \in Partitions :
              start <= stop /\ AddPartitionRange(l, topic, start, stop)
        \/ \E o \in Offsets : SetAllOffsets(l, o) \/ \E j \in 1..MaxCount : SetOffset(l, j, o)
        \/ \E m \in Lists : Clone(l, m)
        \/ \E map \in Maps : FromTopicMap(l, map)
        \/ \E items \in Items : Collect(l, items)
  BY Zenon DEF Next
<1>11. ASSUME NEW key, AddPartition(l, key) PROVE FALSE
  BY <1>11 DEF AddPartition, Becomes
<1>12. ASSUME NEW topic, NEW start, NEW stop, AddPartitionRange(l, topic, start, stop) PROVE FALSE
  BY Zenon, <1>12 DEF AddPartitionRange, Becomes
<1>13. ASSUME NEW m, Clone(l, m) PROVE FALSE
  BY Zenon, <1>9, <1>13 DEF Clone
<1>14. ASSUME NEW items, Collect(l, items) PROVE FALSE
  BY Zenon, <1>9, <1>14 DEF Collect
<1> QED
  BY Zenon, <1>4, <1>5, <1>6, <1>7, <1>8, <1>10, <1>11, <1>12, <1>13, <1>14

\* An operation that returns an error has changed no element that was in a list.
THEOREM ErrorsKeepElements == Spec => ErrKeepsElements
<1>1. Init => ListInv
  BY DEF Init, ListInv
<1> DEFINE Keeps == result' = "Err" => \A l \in Lists : \A i \in DOMAIN lists[l] :
                        i \in DOMAIN lists'[l] /\ lists'[l][i] = lists[l][i]
<1>2. ListInv /\ [Next]_vars => [Keeps]_vars
  BY Zenon, ErrorKeeps
<1> QED
  BY <1>1, <1>2, NextInv, PTL DEF Spec, ErrKeepsElements

=============================================================================
