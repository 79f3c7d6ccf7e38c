------------------------------ MODULE PollLoops ------------------------------
(***************************************************************************)
(* The calls that wait, and the time they take: Timeout and Deadline       *)
(* (src/util.rs), BaseConsumer::poll_queue (src/consumer/base_consumer.rs),*)
(* BaseProducer::poll, flush and commit_transaction                        *)
(* (src/producer/base_producer.rs), the calls that hand their timeout to   *)
(* librdkafka, and the events Client::poll_event (src/client.rs) handles   *)
(* in between: logs, statistics, errors and OAuth token refreshes.         *)
(*                                                                         *)
(* One thread makes one call at a time.  Time passes in steps of a         *)
(* millisecond while librdkafka waits and while callbacks run.  An i32 is  *)
(* -I32Half .. I32Half - 1.                                                *)
(***************************************************************************)
EXTENDS Integers

CONSTANTS
    I32Half,          \* 2^31 for the i32 that librdkafka takes
    MinPollInterval,  \* ConsumerContext::main_queue_min_poll_interval
    Slice,            \* how long flush polls at a time, 100 ms
    Limits,           \* the timeouts calls are made with
    MaxElapsed,       \* bound: the time that is told apart in a call
    MaxSpent,         \* bound: the time callbacks take in a call
    MaxEvents,        \* bound: the events, but token refreshes, that come in a call
    MaxMsgs           \* bound: the messages in flight

Never == -1           \* Timeout::Never, and RD_POLL_INFINITE
After == Nat          \* Timeout::After

ASSUME PollAssumption ==
    /\ I32Half \in Nat
    /\ MinPollInterval \in After \ {0}
    /\ MinPollInterval < I32Half
    /\ Slice \in After \ {0}
    /\ Limits \subseteq After \cup {Never}
    /\ MaxElapsed \in Nat
    /\ \A t \in Limits : t <= MaxElapsed
    /\ MaxSpent \in Nat
    /\ MaxEvents \in Nat
    /\ MaxMsgs \in Nat

VARIABLES
    op,        \* the call
    at,        \* where in the call the thread is
    limit,     \* the timeout of the call
    left,      \* the variable timeout of poll_queue; the Deadline of poll
    wait,      \* how long librdkafka still waits
    elapsed,   \* the time since the call began
    spent,     \* of it, the time in callbacks
    ignored,   \* the events poll_queue has ignored
    came,      \* the events that have come
    event,     \* the event that is handled
    outcome,   \* what the call returns
    msgs,      \* the messages in flight
    token      \* the OAuth token of the client

callVars == <<op, limit>>
timeVars == <<elapsed, spent>>
pollVars == <<op, at, limit, left, wait, elapsed, spent, ignored, came, event, outcome, msgs, token>>

Calls == {"poll_queue", "poll", "flush", "commit_transaction", "native"}
Events == {"log", "stats", "error", "oauth", "fetch", "empty", "rebalance",
           "offset_commit", "dr", "other"}

PollTypeOK ==
    /\ op \in Calls
    /\ at \in {"idle", "loop", "polling", "handling", "second", "flushing", "native"}
    /\ limit \in After \cup {Never}
    /\ left \in After \cup {Never}
    /\ wait \in After \cup {Never}
    /\ elapsed \in 0..MaxElapsed
    /\ spent \in 0..MaxSpent
    /\ ignored \in 0..MaxEvents
    /\ came \in 0..MaxEvents
    /\ event \in Events \cup {"none"}
    /\ outcome \in {"pending", "none", "consumed", "message", "error", "ok", "timeout"}
    /\ msgs \in 0..MaxMsgs
    /\ token \in {"valid", "wanted", "failed"}

----------------------------------------------------------------------------
(* Timeouts                                                                *)

(* Timeout::as_millis: the cast to i32 keeps the low bits. *)
AsMillis(t) ==
    IF t = Never THEN -1
    ELSE ((t + I32Half) % (2 * I32Half)) - I32Half

(* How long librdkafka waits for a number of milliseconds: for ever when   *)
(* it is -1, not at all when it is another negative number (external).     *)
Waits(ms) == IF ms < -1 THEN 0 ELSE ms

(* Timeout::min: Never is the greatest. *)
MinTimeout(t, u) == IF t = Never \/ (u # Never /\ u < t) THEN u ELSE t

(* Timeout::saturating_sub *)
SaturatingSub(t, d) ==
    CASE t = Never -> Never
      [] t # Never /\ t < d -> 0
      [] OTHER -> t - d

(* Deadline::remaining and elapsed; the deadline is a time of the call. *)
Remaining(deadline) == SaturatingSub(deadline, elapsed)
Elapsed(deadline) == Remaining(deadline) = 0

----------------------------------------------------------------------------
(* Calls and returns                                                       *)

Call(o, t) ==
    /\ at = "idle"
    /\ op' = o
    /\ limit' = t
    /\ left' = t
    /\ elapsed' = 0
    /\ spent' = 0
    /\ ignored' = 0
    /\ came' = 0
    /\ IF o = "native"
         THEN at' = "native" /\ wait' = Waits(AsMillis(t))
         ELSE /\ at' = IF o \in {"flush", "commit_transaction"} THEN "flushing" ELSE "loop"
              /\ wait' = 0
    /\ event' = "none"
    /\ outcome' = "pending"
    /\ UNCHANGED <<msgs, token>>

(* BaseProducer::send: the message is in flight. *)
Send ==
    /\ at = "idle"
    /\ msgs < MaxMsgs
    /\ msgs' = msgs + 1
    /\ UNCHANGED <<callVars, at, left, wait, timeVars, ignored, came, event, outcome, token>>

Return(r) ==
    /\ at' = "idle"
    /\ outcome' = r
    /\ event' = "none"
    /\ left' = 0
    /\ wait' = 0
    /\ spent' = 0
    /\ ignored' = 0
    /\ came' = 0

(* The call goes on, with t in place of what was left. *)
GoOn(point, t) ==
    /\ at' = point
    /\ event' = "none"
    /\ left' = t
    /\ UNCHANGED <<outcome, wait, spent, came>>

(* A turn of the loop: the queue is polled, by poll_queue with at most the *)
(* minimum interval, by poll with what remains until the deadline.         *)
PollEvent ==
    /\ at = "loop"
    /\ at' = "polling"
    /\ wait' = Waits(AsMillis(IF op = "poll_queue" THEN MinTimeout(left, MinPollInterval)
                                                   ELSE Remaining(left)))
    /\ UNCHANGED <<callVars, left, timeVars, ignored, came, event, outcome, msgs, token>>

(* Mutant: what has elapsed is taken off what was left the last time. *)
AgainTwice(r) ==
    IF SaturatingSub(left, elapsed) = 0 THEN Return(r)
    ELSE GoOn("loop", SaturatingSub(left, elapsed)) /\ UNCHANGED ignored

(* poll_queue works out what is left of its timeout. *)
Again(r) ==
    IF SaturatingSub(limit, elapsed) = 0 THEN Return(r)
    ELSE GoOn("loop", SaturatingSub(limit, elapsed)) /\ UNCHANGED ignored

(* poll looks at its deadline; flush goes on. *)
PollOrReturn ==
    IF ~Elapsed(left) THEN GoOn("loop", left) /\ UNCHANGED ignored
    ELSE IF op = "poll" THEN Return("none")
    ELSE GoOn("flushing", left) /\ UNCHANGED ignored

(* Mutant: poll returns only after an event. *)
PollNoneWaits ==
    /\ at = "polling"
    /\ wait = 0
    /\ IF op = "poll_queue" THEN Again("none") ELSE GoOn("loop", left) /\ UNCHANGED ignored
    /\ UNCHANGED <<callVars, elapsed, msgs, token>>

(* The wait is over. *)
PollNone ==
    /\ at = "polling"
    /\ wait = 0
    /\ IF op = "poll_queue" THEN Again("none") ELSE PollOrReturn
    /\ UNCHANGED <<callVars, elapsed, msgs, token>>

----------------------------------------------------------------------------
(* Events                                                                  *)

HasCallback(e) == e \notin {"fetch", "empty", "other"}

(* An event arrives: a consumer has those that bring messages and          *)
(* rebalances, a producer has delivery reports.                            *)
EventComes(e) ==
    /\ at = "polling"
    /\ came < MaxEvents \/ e = "oauth"
    /\ came' = IF e = "oauth" THEN came ELSE came + 1
    /\ e = "dr" => op # "poll_queue" /\ msgs > 0
    /\ e \in {"fetch", "empty", "rebalance", "offset_commit"} => op = "poll_queue"
    /\ e = "oauth" => token = "wanted"
    /\ at' = "handling"
    /\ event' = e
    /\ UNCHANGED <<callVars, left, wait, timeVars, ignored, outcome, msgs, token>>

(* Mutant: a token that librdkafka does not accept is only logged. *)
OauthRefreshedLogs ==
    \E ok \in BOOLEAN : token' = IF ok THEN "valid" ELSE token

(* handle_oauth_refresh_event: the token is set, or, when it could not be  *)
(* generated, holds a nul, or is not accepted, the failure is.             *)
OauthRefreshed ==
    token' \in {"valid", "failed"}

(* What poll_queue does with the event.  Log, statistics and refresh       *)
(* events have ended in poll_event; after an event it ignores, it polls    *)
(* again with the timeout it had.                                          *)
ConsumerHandles ==
    CASE event \in {"log", "stats", "oauth"} -> Again("consumed")
      [] event = "fetch" -> Return("message")
      [] event = "error" -> Return("error")
      [] event \in {"rebalance", "offset_commit"} ->
           IF left # Never THEN Return("consumed")
           ELSE GoOn("loop", left) /\ UNCHANGED ignored
      [] event \in {"empty", "other"} ->
           GoOn("loop", left) /\ ignored' = ignored + 1

(* The event has been handled and its callback has returned.  An error is  *)
(* reported to the error callback of a producer once more.                 *)
EventHandled ==
    /\ at = "handling"
    /\ IF event = "oauth" THEN OauthRefreshed ELSE UNCHANGED token
    /\ msgs' = IF event = "dr" THEN msgs - 1 ELSE msgs
    /\ IF op = "poll_queue" THEN ConsumerHandles
       ELSE IF event = "error" THEN /\ at' = "second"
                                    /\ UNCHANGED <<left, wait, spent, ignored, came, event, outcome>>
       ELSE PollOrReturn
    /\ UNCHANGED <<callVars, elapsed>>

(* BaseProducer::handle_error_event has called the error callback again. *)
SecondReturns ==
    /\ at = "second"
    /\ PollOrReturn
    /\ UNCHANGED <<callVars, elapsed, msgs, token>>

(* librdkafka wants a token. *)
TokenExpires ==
    /\ token # "wanted"
    /\ at = "idle"
    /\ token' = "wanted"
    /\ UNCHANGED <<callVars, at, left, wait, timeVars, ignored, came, event, outcome, msgs>>

----------------------------------------------------------------------------
(* flush, commit_transaction, and calls that librdkafka times              *)

(* Mutant: each poll of flush gets its whole slice. *)
FlushSlices ==
    /\ at = "flushing"
    /\ IF msgs > 0 /\ Elapsed(limit) THEN Return("timeout")
       ELSE IF msgs > 0 THEN GoOn("loop", elapsed + Slice) /\ UNCHANGED ignored
       ELSE IF op = "flush" THEN Return("ok")
       ELSE /\ at' = "native"
            /\ wait' = Waits(AsMillis(limit))
            /\ UNCHANGED <<left, event, outcome, spent, ignored, came>>
    /\ UNCHANGED <<callVars, elapsed, msgs, token>>

(* A turn of the loop of flush; commit_transaction goes on with the whole  *)
(* timeout once more.                                                      *)
Flush ==
    /\ at = "flushing"
    /\ IF msgs > 0 /\ Elapsed(limit) THEN Return("timeout")
       ELSE IF msgs > 0 THEN GoOn("loop", elapsed + MinTimeout(Remaining(limit), Slice)) /\ UNCHANGED ignored
       ELSE IF op = "flush" THEN Return("ok")
       ELSE /\ at' = "native"
            /\ wait' = Waits(AsMillis(limit))
            /\ UNCHANGED <<left, event, outcome, spent, ignored, came>>
    /\ UNCHANGED <<callVars, elapsed, msgs, token>>

(* The call of librdkafka ends with its answer or after its wait. *)
NativeReturns ==
    /\ at = "native"
    /\ \/ Return("ok")
       \/ wait = 0 /\ Return("timeout")
    /\ UNCHANGED <<callVars, elapsed, msgs, token>>

----------------------------------------------------------------------------
(* Time                                                                    *)

Later == elapsed' = IF elapsed < MaxElapsed THEN elapsed + 1 ELSE elapsed

(* A poll that does not wait is repeated until its deadline. *)
Tick ==
    /\ \/ /\ at \in {"polling", "native"}
          /\ \/ wait # 0
             \/ at = "polling" /\ limit # Never /\ elapsed < limit
          /\ wait' = IF wait \in {0, Never} THEN wait ELSE wait - 1
          /\ UNCHANGED spent
       \/ /\ at \in {"handling", "second"}
          /\ HasCallback(event)
          /\ spent < MaxSpent
          /\ spent' = spent + 1
          /\ UNCHANGED wait
    /\ Later
    /\ UNCHANGED <<callVars, at, left, ignored, came, event, outcome, msgs, token>>

----------------------------------------------------------------------------

PollInit ==
    /\ op = "poll"
    /\ at = "idle"
    /\ limit = 0
    /\ left = 0
    /\ wait = 0
    /\ elapsed = 0
    /\ spent = 0
    /\ ignored = 0
    /\ came = 0
    /\ event = "none"
    /\ outcome = "none"
    /\ msgs = 0
    /\ token = "valid"

Step ==
    \/ PollEvent \/ PollNone
    \/ EventHandled \/ SecondReturns
    \/ Flush \/ NativeReturns

PollNext ==
    \/ \E o \in Calls, t \in Limits : Call(o, t)
    \/ Send \/ TokenExpires
    \/ \E e \in Events : EventComes(e)
    \/ Step
    \/ Tick

(* The thread runs, callbacks return, and time passes; an application goes *)
(* on calling; a refresh event that waits in the queue is returned by some *)
(* of the polls.                                                           *)
Fairness ==
    /\ WF_pollVars(Step)
    /\ SF_pollVars(Tick)
    /\ SF_pollVars(EventComes("oauth"))
    /\ SF_pollVars(\E t \in Limits \cap After : Call("poll", t))

PollSpec == PollInit /\ [][PollNext]_pollVars /\ Fairness

----------------------------------------------------------------------------

(* The timeouts that the conversion to an i32 keeps *)
Fits == limit < I32Half

(* What a call may take at most, callbacks apart: its timeout; twice that  *)
(* for commit_transaction; and for poll_queue one more wait of the minimum *)
(* interval for every event it ignores.                                    *)
Allowed ==
    CASE op = "commit_transaction" -> 2 * limit
      [] op = "poll_queue" -> limit + ignored * MinTimeout(limit, MinPollInterval)
      [] OTHER -> limit

(* A call with a timeout does not wait for longer than it may, however     *)
(* events, empty polls and callbacks follow each other.                    *)
WaitsNoLonger ==
    at # "idle" /\ limit # Never /\ (Fits \/ op = "poll_queue") => elapsed - spent <= Allowed

(* A call that returns empty-handed or with a timeout has waited for all   *)
(* of its timeout, even one that does not fit into an i32, except when the *)
(* timeout is handed to librdkafka as it is.                               *)
TimeoutIsElapsed ==
    at = "idle" /\ outcome \in {"none", "timeout"} /\ (Fits \/ op \in {"poll_queue", "poll", "flush"})
        => limit # Never /\ elapsed >= limit

(* Every token refresh is answered, with a token or a failure, so that     *)
(* librdkafka will ask again.                                              *)
RefreshAnswered == token = "wanted" ~> token # "wanted"

(* Every call with a timeout returns. *)
CallsReturn == (at # "idle" /\ limit # Never /\ Fits) ~> at = "idle"

=============================================================================
