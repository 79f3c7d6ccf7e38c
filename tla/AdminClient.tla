----------------------------- MODULE AdminClient -----------------------------
(***************************************************************************)
(* rdkafka::admin::AdminClient (src/admin.rs).                             *)
(*                                                                         *)
(* Every request of the admin API makes a oneshot channel, hands the boxed *)
(* Sender to librdkafka as the opaque of the request, and returns a future *)
(* that waits on the Receiver.  librdkafka puts its answer in a queue of   *)
(* the client; a thread polls the queue, makes a Box of the opaque again   *)
(* and sends it the answer.  drop() stops the thread, waits for it, and    *)
(* destroys the client.                                                    *)
(*                                                                         *)
(* The queue is a set here: no answer depends on another.  What makes a    *)
(* request be refused, and what becomes of the resources it names, is in   *)
(* AdminRequests.                                                          *)
(***************************************************************************)
EXTENDS AdminRequests

CONSTANTS
    Requests,    \* the requests made
    Ops,         \* Ops[r]: the operations request r may be made with
    MaxItems     \* the most resources named in one request

ASSUME AdminAssumption == Ops \in [Requests -> SUBSET AdminOps] /\ MaxItems \in Nat

VARIABLES
    sender,       \* sender[r]: where the Sender of r is
    answer,       \* answer[r]: what librdkafka has answered
    future,       \* future[r]: the future of r, or its output
    op,           \* op[r]: the operation of r
    outcome,      \* outcome[r]: what became of each resource of r
    results,      \* results[r]: the result of each, in the output of the future
    poller,       \* where the poll thread is
    shouldStop,   \* should_stop
    client        \* the life of the client

requestVars == <<sender, answer, future, op, outcome, results>>
vars == <<requestVars, poller, shouldStop, client>>

\* The answer is an error, of another type than the request, or has results.
Answers == {"failed", "mistyped", "results"}

\* What a future may resolve to.  "abort": there is no process any more.
Outputs == {"Nul", "AdminOpCreation", "AdminOp", "Canceled", "Ok", "abort"}

TypeOK ==
    /\ sender \in [Requests -> {"none",
                                "native",    \* a raw pointer in librdkafka
                                "queued",    \* in the event of the answer
                                "held",      \* a Box in the poll thread
                                "spent",     \* it has sent, or was dropped
                                "leaked"}]   \* nobody has the pointer
    /\ answer \in [Requests -> Answers \cup {"none"}]
    /\ future \in [Requests -> Outputs \cup {"none", "pending", "ready", "dropped"}]
    /\ op \in [Requests -> AdminOps \cup {"none"}]
    /\ outcome \in [Requests -> Seq({"ok", "error", "bogus"})]
    /\ results \in [Requests -> Seq(Verdicts)]
    /\ poller \in {"poll", "send", "check", "ended"}
    /\ shouldStop \in BOOLEAN
    /\ client \in {"up", "stopping", "joined", "down"}

-----------------------------------------------------------------------------
(* The requests *)

\* An object of the request or an option is refused, before the Sender is made.
Refused(r, o, e) ==
    /\ client = "up"
    /\ future[r] = "none"
    /\ op' = [op EXCEPT ![r] = o]
    /\ future' = [future EXCEPT ![r] = e]
    /\ UNCHANGED <<sender, answer, outcome, results, poller, shouldStop, client>>

Issued(r, o) ==
    /\ client = "up"
    /\ future[r] = "none"
    /\ op' = [op EXCEPT ![r] = o]
    /\ future' = [future EXCEPT ![r] = "pending"]
    /\ sender' = [sender EXCEPT ![r] = "native"]
    /\ UNCHANGED <<answer, outcome, results, poller, shouldStop, client>>

\* librdkafka answers; a timeout of the request is a failure.  The request is not
\* transactional: each of its resources has an outcome of its own.
AnswerComes(r, a) ==
    /\ client # "down"
    /\ sender[r] = "native"
    /\ sender' = [sender EXCEPT ![r] = "queued"]
    /\ answer' = [answer EXCEPT ![r] = a]
    /\ IF a = "results"
       THEN \E n \in 1 .. MaxItems : \E x \in [1 .. n -> Outcomes(op[r])] :
                outcome' = [outcome EXCEPT ![r] = x]
       ELSE UNCHANGED outcome
    /\ UNCHANGED <<future, op, results, poller, shouldStop, client>>

\* What the future makes of the answer: check_error, the type, and then the
\* resources.
Output(o, a, x) ==
    CASE a = "failed" -> "AdminOp"
      [] a = "mistyped" -> "AdminOpCreation"
      [] OTHER -> IF Extracted(o, x) THEN "Ok" ELSE "AdminOpCreation"

\* The poll of a future by its task: its Receiver has the answer, or sees that
\* the Sender is gone.
PollFuture(r) ==
    LET out == IF future[r] = "ready" THEN Output(op[r], answer[r], outcome[r])
                                      ELSE "Canceled"
    IN  /\ future[r] = "ready" \/ (future[r] = "pending" /\ sender[r] = "spent")
        /\ future' = [future EXCEPT ![r] = out]
        /\ results' = [results EXCEPT ![r] =
                          IF out = "Ok" THEN Results(op[r], outcome[r]) ELSE @]
        /\ UNCHANGED <<sender, answer, op, outcome, poller, shouldStop, client>>

DropFuture(r) ==
    /\ future[r] \in {"pending", "ready"}
    /\ future' = [future EXCEPT ![r] = "dropped"]
    /\ UNCHANGED <<sender, answer, op, outcome, results, poller, shouldStop, client>>

-----------------------------------------------------------------------------
(* The poll thread *)

PollAnswer(r) ==
    /\ poller = "poll"
    /\ sender[r] = "queued"
    /\ sender' = [sender EXCEPT ![r] = "held"]
    /\ poller' = "send"
    /\ UNCHANGED <<answer, future, op, outcome, results, shouldStop, client>>

\* Mutant: an answer that reports a failure is dropped, and its Sender with it.
SendIfOk(r) ==
    /\ poller = "send"
    /\ sender[r] = "held"
    /\ sender' = [sender EXCEPT ![r] = "spent"]
    /\ future' = [future EXCEPT ![r] =
                     IF @ = "pending" /\ answer[r] # "failed" THEN "ready" ELSE @]
    /\ poller' = "poll"
    /\ UNCHANGED <<answer, op, outcome, results, shouldStop, client>>

\* tx.send(event); nothing comes of it if the future was dropped.
Send(r) ==
    /\ poller = "send"
    /\ sender[r] = "held"
    /\ sender' = [sender EXCEPT ![r] = "spent"]
    /\ future' = [future EXCEPT ![r] = IF @ = "pending" THEN "ready" ELSE @]
    /\ poller' = "poll"
    /\ UNCHANGED <<answer, op, outcome, results, shouldStop, client>>

\* The poll comes back with nothing.
PollNothing ==
    /\ poller = "poll"
    /\ \A r \in Requests : sender[r] # "queued"
    /\ poller' = "check"
    /\ UNCHANGED <<requestVars, shouldStop, client>>

\* Mutant: the thread ends when it has nothing to do.
CheckNothing ==
    /\ poller = "check"
    /\ poller' = "ended"
    /\ UNCHANGED <<requestVars, shouldStop, client>>

\* Mutant: the condition for the end is the wrong way round.
CheckBusy ==
    /\ poller = "check"
    /\ poller' = IF shouldStop /\ \E r \in Requests : sender[r] = "queued"
                 THEN "ended" ELSE "poll"
    /\ UNCHANGED <<requestVars, shouldStop, client>>

Check ==
    /\ poller = "check"
    /\ poller' = IF shouldStop THEN "ended" ELSE "poll"
    /\ UNCHANGED <<requestVars, shouldStop, client>>

-----------------------------------------------------------------------------
(* Drop for AdminClient *)

Stop ==
    /\ client = "up"
    /\ shouldStop' = TRUE
    /\ client' = "stopping"
    /\ UNCHANGED <<requestVars, poller>>

\* Mutant: drop() does not wait for the thread.
JoinNot ==
    /\ client = "stopping"
    /\ client' = "joined"
    /\ UNCHANGED <<requestVars, poller, shouldStop>>

Join ==
    /\ client = "stopping"
    /\ poller = "ended"
    /\ client' = "joined"
    /\ UNCHANGED <<requestVars, poller, shouldStop>>

\* The fields are dropped.  rd_kafka_destroy, and the destruction of the queue,
\* free the requests and the answers; the opaques in them are not theirs.
Destroy ==
    /\ client = "joined"
    /\ client' = "down"
    /\ sender' = [r \in Requests |->
                     IF sender[r] \in {"native", "queued"} THEN "leaked" ELSE sender[r]]
    /\ UNCHANGED <<answer, future, op, outcome, results, poller, shouldStop>>

-----------------------------------------------------------------------------
Init ==
    /\ sender = [r \in Requests |-> "none"]
    /\ answer = [r \in Requests |-> "none"]
    /\ future = [r \in Requests |-> "none"]
    /\ op = [r \in Requests |-> "none"]
    /\ outcome = [r \in Requests |-> <<>>]
    /\ results = [r \in Requests |-> <<>>]
    /\ poller = "poll"
    /\ shouldStop = FALSE
    /\ client = "up"

Poller ==
    \/ \E r \in Requests : PollAnswer(r) \/ Send(r)
    \/ PollNothing
    \/ Check

Next ==
    \/ \E r \in Requests : \E o \in Ops[r] : \E e \in Refusals(o) : Refused(r, o, e)
    \/ \E r \in Requests : \E o \in Ops[r] : Issued(r, o)
    \/ \E r \in Requests, a \in Answers : AnswerComes(r, a)
    \/ \E r \in Requests : PollFuture(r) \/ DropFuture(r)
    \/ Poller
    \/ Stop \/ Join \/ Destroy

Spec == Init /\ [][Next]_vars

\* The thread runs, drop() goes on, librdkafka answers every request in the end
\* (a request has a timeout), and futures that can make progress are polled.
Fairness ==
    /\ WF_vars(Poller)
    /\ WF_vars(Join)
    /\ WF_vars(Destroy)
    /\ \A r \in Requests :
          /\ WF_vars(\E a \in Answers : AnswerComes(r, a))
          /\ WF_vars(PollFuture(r))

FairSpec == Spec /\ Fairness

-----------------------------------------------------------------------------
(* Properties *)

\* A pending future has its Sender on the way to it: in librdkafka, in the queue
\* or in the poll thread.  Only the end of the client breaks this.
PendingHasSender ==
    \A r \in Requests :
        future[r] = "pending" =>
            \/ sender[r] \in {"native", "queued", "held"}
            \/ sender[r] = "leaked" /\ client = "down"

\* The poll thread is over before the client whose queue it polls is destroyed,
\* and it leaves no Box behind: what it took from the queue it has sent.
PollerEndsFirst ==
    client \in {"joined", "down"} =>
        poller = "ended" /\ \A r \in Requests : sender[r] # "held"

\* The output of a future reports every resource that failed, and no other: an
\* Err for each, and an Ok for each that succeeded.  The operations on
\* configurations are left out: their futures do not read the error of a resource.
ReportsFailures ==
    \A r \in Requests :
        future[r] = "Ok" /\ op[r] \notin ConfigOps =>
            /\ Len(results[r]) = Len(outcome[r])
            /\ \A i \in DOMAIN outcome[r] : (results[r][i] = "Ok") = (outcome[r][i] = "ok")

\* No request gets so far as to make librdkafka abort the process, which it does
\* when more partitions are assigned than there are.
NeverAborts == \A r \in Requests : future[r] # "abort"

\* As long as the client is there, every request gets its output.
RequestCompletes ==
    \A r \in Requests :
        future[r] = "pending" ~> future[r] # "pending" \/ client # "up"

\* The drop of the client comes to an end, with requests open or not.
DropEnds == client = "stopping" ~> client = "down"

\* The poll thread has at most one Sender in its hands, and only to use it.
HeldByPoller ==
    /\ \A r \in Requests : sender[r] = "held" => poller = "send"
    /\ \A r, q \in Requests : sender[r] = "held" /\ sender[q] = "held" => r = q

\* How far a request has come, as its future, its Sender and its answer tell it.
Progress ==
    \A r \in Requests :
        /\ future[r] = "none" => sender[r] = "none"
        /\ future[r] = "ready" => sender[r] = "spent"
        /\ sender[r] \in {"queued", "held", "spent"} => answer[r] \in Answers

\* Where the results of a future come from, once it has an answer.
Reported ==
    \A r \in Requests :
        /\ future[r] = "Ok" => /\ sender[r] = "spent"
                              /\ answer[r] = "results"
                              /\ results[r] = Results(op[r], outcome[r])
        /\ answer[r] = "results" =>
              /\ sender[r] \notin {"none", "native"}
              /\ \A i \in DOMAIN outcome[r] : outcome[r][i] \in Outcomes(op[r])

\* The inductive invariant behind the theorems of AsyncProofs.
AdminInv ==
    TypeOK /\ PendingHasSender /\ PollerEndsFirst /\ HeldByPoller /\ Progress /\ Reported

=============================================================================
