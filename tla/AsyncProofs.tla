----------------------------- MODULE AsyncProofs -----------------------------
(***************************************************************************)
(* The parts that resolve futures and wake tasks, for any sets of requests *)
(* (AdminClient), streams, owners and events (StreamConsumer): AdminInv is *)
(* an invariant of the admin client; no wake-up of a stream is lost, and   *)
(* the callback never meets a freed slab.                                  *)
(***************************************************************************)
EXTENDS AdminClient, StreamConsumer, TLAPS

----------------------------------------------------------------------------
(* Admin requests                                                          *)

\* Whatever the answer, a future resolves to one of its outputs; it is Ok only
\* with results.
LEMMA OutputType ==
    ASSUME NEW o, NEW a \in Answers, NEW x
    PROVE  /\ Output(o, a, x) \in Outputs
           /\ Output(o, a, x) = "Ok" => a = "results"
BY Zenon DEF Output, Answers, Outputs

\* An assignment that is too long is found before librdkafka is given it, so that
\* a request is refused with an error of the library, and never aborts.
LEMMA PartitionsRefused ==
    ASSUME NEW p \in NewPartitions
    PROVE  NewPartitionsToNative(p) \in {"ok", "Nul", "AdminOpCreation"}
BY Zenon DEF NewPartitionsToNative, NativeAssigned

\* Whatever the objects and the options, a request that is refused is refused with
\* one of these errors.
LEMMA RefusalsType ==
    ASSUME NEW o, NEW e \in Refusals(o)
    PROVE  e \in {"Nul", "AdminOpCreation"}
<1>1. \A t \in NewTopics : NewTopicToNative(t) \in {"ok", "Nul", "AdminOpCreation"}
  BY Zenon DEF NewTopicToNative, EntriesSet
<1>2. \A p \in NewPartitions : NewPartitionsToNative(p) \in {"ok", "Nul", "AdminOpCreation"}
  BY Zenon, PartitionsRefused
<1>3. \A c \in AlterConfigs : AlterConfigToNative(c) \in {"ok", "Nul", "AdminOpCreation"}
  BY Zenon DEF AlterConfigToNative, SpecifierToNative, EntriesSet
<1>4. \A opts \in AdminOptions : OptionsToNative(opts) \in {"ok", "AdminOpCreation"}
  BY Zenon DEF OptionsToNative
<1>5. e \in ToNative(o) => e \in {"ok", "Nul", "AdminOpCreation"}
  BY Zenon, <1>1, <1>2, <1>3 DEF ToNative, SpecifierToNative, DeleteRecordsToNative, NameToNative
<1>6. QED
  BY Zenon, <1>4, <1>5 DEF Refusals

\* A refused request keeps the invariant.
LEMMA RefusedInv ==
    ASSUME AdminInv, NEW r \in Requests, NEW o \in Ops[r], NEW e \in Refusals(o), Refused(r, o, e)
    PROVE  AdminInv'
<1>o. o \in AdminOps
  BY Zenon, AdminAssumption
<1>e. e \in {"Nul", "AdminOpCreation"}
  BY Zenon, RefusalsType
<1>1. TypeOK'
  BY Zenon, <1>o, <1>e DEF AdminInv, TypeOK, Refused, Outputs
<1>2. PendingHasSender'
  BY Zenon, <1>e DEF AdminInv, TypeOK, PendingHasSender, Refused
<1>3. PollerEndsFirst' /\ HeldByPoller'
  BY Zenon DEF AdminInv, PollerEndsFirst, HeldByPoller, Refused
<1>4. Progress'
  BY Zenon, <1>e DEF AdminInv, TypeOK, Progress, Refused
<1>5. Reported'
  BY <1>e DEF AdminInv, TypeOK, Reported, Progress, Refused
<1>6. QED
  BY Zenon, <1>1, <1>2, <1>3, <1>4, <1>5 DEF AdminInv

\* A request that is made keeps the invariant.
LEMMA IssuedInv ==
    ASSUME AdminInv, NEW r \in Requests, NEW o \in Ops[r], Issued(r, o)
    PROVE  AdminInv'
<1>o. o \in AdminOps
  BY Zenon, AdminAssumption
<1>1. TypeOK'
  BY Zenon, <1>o DEF AdminInv, TypeOK, Issued
<1>2. PendingHasSender'
  BY Zenon DEF AdminInv, TypeOK, PendingHasSender, Issued
<1>3. PollerEndsFirst' /\ HeldByPoller'
  BY DEF AdminInv, TypeOK, PollerEndsFirst, HeldByPoller, Issued
<1>4. Progress'
  BY Zenon DEF AdminInv, TypeOK, Progress, Issued
<1>5. Reported'
  BY DEF AdminInv, TypeOK, Reported, Progress, Issued
<1>6. QED
  BY Zenon, <1>1, <1>2, <1>3, <1>4, <1>5 DEF AdminInv

\* The results of a future are of the type of its output.
LEMMA ResultsType ==
    ASSUME NEW o, NEW x \in Seq({"ok", "error", "bogus"})
    PROVE  Results(o, x) \in Seq(Verdicts)
<1>1. Len(x) \in Nat /\ DOMAIN x = 1 .. Len(x)
  OBVIOUS
<1>2. ASSUME NEW y, DOMAIN y = 1 .. Len(x), y = [i \in DOMAIN y |-> y[i]],
             \A i \in 1 .. Len(x) : y[i] \in Verdicts
      PROVE  y \in Seq(Verdicts)
  BY <1>1, <1>2
<1>3. QED
  BY Zenon, <1>1, <1>2 DEF Results, TopicResults, GroupResults, RecordsResult, ConfigResults, Verdicts

\* A poll that resolves a future keeps the invariant: its results are built from
\* the outcome, and neither changes any more.
LEMMA PollFutureInv ==
    ASSUME AdminInv, NEW r \in Requests, PollFuture(r)
    PROVE  AdminInv'
<1> DEFINE out == IF future[r] = "ready" THEN Output(op[r], answer[r], outcome[r])
                                         ELSE "Canceled"
           res == IF out = "Ok" THEN Results(op[r], outcome[r]) ELSE results[r]
<1>1. /\ future[r] \in {"pending", "ready"}
      /\ future' = [future EXCEPT ![r] = out]
      /\ results' = [results EXCEPT ![r] = res]
      /\ UNCHANGED <<sender, answer, op, outcome, poller, shouldStop, client>>
  BY Zenon DEF PollFuture
<1>2. future[r] = "ready" => answer[r] \in Answers /\ sender[r] = "spent"
  BY Zenon DEF AdminInv, Progress
<1>3. /\ out \in Outputs
      /\ out = "Ok" => answer[r] = "results" /\ sender[r] = "spent"
      /\ out = "Ok" => res = Results(op[r], outcome[r])
  BY Zenon, <1>2, OutputType DEF Outputs
<1>4. res \in Seq(Verdicts)
  BY Zenon, ResultsType DEF AdminInv, TypeOK
<1> HIDE DEF out, res
<1>5. TypeOK'
  BY Zenon, <1>1, <1>3, <1>4 DEF AdminInv, TypeOK
<1>6. PendingHasSender'
  BY Zenon, <1>1, <1>3 DEF AdminInv, TypeOK, PendingHasSender, Outputs
<1>7. PollerEndsFirst' /\ HeldByPoller'
  BY Zenon, <1>1 DEF AdminInv, PollerEndsFirst, HeldByPoller
<1>8. Progress'
  BY Zenon, <1>1, <1>3 DEF AdminInv, TypeOK, Progress, Outputs
<1>9. Reported'
  BY Zenon, <1>1, <1>3 DEF AdminInv, TypeOK, Reported
<1>10. QED
  BY Zenon, <1>5, <1>6, <1>7, <1>8, <1>9 DEF AdminInv

\* A future may be dropped at any time.
LEMMA DropFutureInv ==
    ASSUME AdminInv, NEW r \in Requests, DropFuture(r)
    PROVE  AdminInv'
<1>1. TypeOK'
  BY Zenon DEF AdminInv, TypeOK, DropFuture
<1>2. PendingHasSender'
  BY Zenon DEF AdminInv, TypeOK, PendingHasSender, DropFuture
<1>3. PollerEndsFirst' /\ HeldByPoller'
  BY Zenon DEF AdminInv, PollerEndsFirst, HeldByPoller, DropFuture
<1>4. Progress'
  BY Zenon DEF AdminInv, TypeOK, Progress, DropFuture
<1>5. Reported'
  BY Zenon DEF AdminInv, TypeOK, Reported, DropFuture
<1>6. QED
  BY <1>1, <1>2, <1>3, <1>4, <1>5 DEF AdminInv

\* librdkafka keeps the invariant.
LEMMA AnswerInv ==
    ASSUME AdminInv, NEW r \in Requests, NEW a \in Answers, AnswerComes(r, a)
    PROVE  AdminInv'
<1> DEFINE Same == UNCHANGED <<future, op, results, poller, shouldStop, client>>
           Moved == /\ sender[r] = "native"
                    /\ sender' = [sender EXCEPT ![r] = "queued"]
                    /\ answer' = [answer EXCEPT ![r] = a]
<1>1. PICK x \in Seq({"ok", "error", "bogus"}) :
          /\ outcome' = [outcome EXCEPT ![r] = x]
          /\ a = "results" => \A i \in DOMAIN x : x[i] \in Outcomes(op[r])
  <2>1. CASE a = "results"
    <3>0. PICK n \in 1 .. MaxItems :
              \E x \in [1 .. n -> Outcomes(op[r])] : outcome' = [outcome EXCEPT ![r] = x]
      BY Zenon, <2>1 DEF AnswerComes
    <3>1. PICK x \in [1 .. n -> Outcomes(op[r])] : outcome' = [outcome EXCEPT ![r] = x]
      BY Zenon, <3>0
    <3>2. n \in Nat /\ Outcomes(op[r]) \subseteq {"ok", "error", "bogus"}
      BY AdminAssumption DEF Outcomes
    <3>3. x \in Seq({"ok", "error", "bogus"}) /\ \A i \in DOMAIN x : x[i] \in Outcomes(op[r])
      BY <3>2
    <3>4. QED
      BY Zenon, <3>1, <3>3
  <2>2. CASE a # "results"
    BY <2>2 DEF AnswerComes, AdminInv, TypeOK
  <2>3. QED
    BY Zenon, <2>1, <2>2
<1>2. Same /\ Moved
  BY Zenon DEF AnswerComes
<1>3. TypeOK'
  BY Zenon, <1>1, <1>2 DEF AdminInv, TypeOK
<1>4. PendingHasSender'
  BY Zenon, <1>2 DEF AdminInv, TypeOK, PendingHasSender
<1>5. PollerEndsFirst' /\ HeldByPoller'
  BY <1>2 DEF AdminInv, TypeOK, PollerEndsFirst, HeldByPoller
<1>6. Progress'
  BY Zenon, <1>2 DEF AdminInv, TypeOK, Progress
<1>7. Reported'
  BY <1>1, <1>2 DEF AdminInv, TypeOK, Reported
<1>8. QED
  BY Zenon, <1>3, <1>4, <1>5, <1>6, <1>7 DEF AdminInv

\* The poll thread keeps the invariant.
LEMMA PollerInv ==
    ASSUME AdminInv, Poller
    PROVE  AdminInv'
<1>1. ASSUME NEW r \in Requests, PollAnswer(r) PROVE AdminInv'
  <2>1. TypeOK'
    BY Zenon, <1>1 DEF AdminInv, TypeOK, PollAnswer
  <2>2. PendingHasSender'
    BY Zenon, <1>1 DEF AdminInv, TypeOK, PendingHasSender, PollAnswer
  <2>3. PollerEndsFirst'
    BY Zenon, <1>1 DEF AdminInv, TypeOK, PollerEndsFirst, PollAnswer
  <2>4. HeldByPoller'
    BY Zenon, <1>1 DEF AdminInv, TypeOK, HeldByPoller, PollAnswer
  <2>5. Progress'
    BY Zenon, <1>1 DEF AdminInv, TypeOK, Progress, PollAnswer
  <2>6. Reported'
    BY Zenon, <1>1 DEF AdminInv, TypeOK, Reported, PollAnswer
  <2>7. QED
    BY Zenon, <2>1, <2>2, <2>3, <2>4, <2>5, <2>6 DEF AdminInv
<1>2. ASSUME NEW r \in Requests, Send(r) PROVE AdminInv'
  <2>1. TypeOK'
    BY Zenon, <1>2 DEF AdminInv, TypeOK, Send
  <2>2. PendingHasSender'
    BY Zenon, <1>2 DEF AdminInv, TypeOK, PendingHasSender, Send
  <2>3. PollerEndsFirst'
    BY Zenon, <1>2 DEF AdminInv, TypeOK, PollerEndsFirst, Send
  <2>4. HeldByPoller'
    BY Zenon, <1>2 DEF AdminInv, TypeOK, HeldByPoller, Send
  <2>5. Progress'
    BY Zenon, <1>2 DEF AdminInv, TypeOK, Progress, Send
  <2>6. Reported'
    BY Zenon, <1>2 DEF AdminInv, TypeOK, Reported, Send
  <2>7. QED
    BY <2>1, <2>2, <2>3, <2>4, <2>5, <2>6 DEF AdminInv
<1>3. CASE PollNothing
  BY Zenon, <1>3 DEF AdminInv, TypeOK, PendingHasSender, PollerEndsFirst, HeldByPoller, Progress,
              Reported, PollNothing, requestVars
<1>4. CASE Check
  BY Zenon, <1>4 DEF AdminInv, TypeOK, PendingHasSender, PollerEndsFirst, HeldByPoller, Progress,
              Reported, Check, requestVars
<1>5. QED
  BY Zenon, <1>1, <1>2, <1>3, <1>4 DEF Poller

\* The drop of the client keeps the invariant: when it has joined the thread, the
\* thread holds no Sender.
LEMMA DropInv ==
    ASSUME AdminInv, Stop \/ Join \/ Destroy
    PROVE  AdminInv'
<1>1. CASE Stop
  BY <1>1 DEF AdminInv, TypeOK, PendingHasSender, PollerEndsFirst, HeldByPoller, Progress,
              Reported, Stop, requestVars
<1>2. CASE Join
  BY Zenon, <1>2 DEF AdminInv, TypeOK, PendingHasSender, PollerEndsFirst, HeldByPoller, Progress,
              Reported, Join, requestVars
<1>3. CASE Destroy
  <2>1. TypeOK'
    BY Zenon, <1>3 DEF AdminInv, TypeOK, Destroy
  <2>2. PendingHasSender'
    BY Zenon, <1>3 DEF AdminInv, TypeOK, PendingHasSender, Destroy
  <2>3. PollerEndsFirst'
    BY Zenon, <1>3 DEF AdminInv, TypeOK, PollerEndsFirst, Destroy
  <2>4. HeldByPoller'
    BY Zenon, <1>3 DEF AdminInv, TypeOK, HeldByPoller, Destroy
  <2>5. Progress'
    BY Zenon, <1>3 DEF AdminInv, TypeOK, Progress, Destroy
  <2>6. Reported'
    BY Zenon, <1>3 DEF AdminInv, TypeOK, Reported, Destroy
  <2>7. QED
    BY Zenon, <2>1, <2>2, <2>3, <2>4, <2>5, <2>6 DEF AdminInv
<1>4. QED
  BY Zenon, <1>1, <1>2, <1>3

\* AdminInv is an invariant of the admin client, whatever the requests made and
\* whenever the client is dropped.
THEOREM AdminInvariance == Spec => []AdminInv
<1>1. Init => AdminInv
  <2> SUFFICES ASSUME Init PROVE AdminInv
    OBVIOUS
  <2>0. <<>> \in Seq({"ok", "error", "bogus"}) /\ <<>> \in Seq(Verdicts)
    OBVIOUS
  <2>1. TypeOK
    <3>1. /\ outcome \in [Requests -> Seq({"ok", "error", "bogus"})]
          /\ results \in [Requests -> Seq(Verdicts)]
      BY <2>0, Zenon DEF Init
    <3>2. QED
      BY Zenon, <3>1 DEF Init, TypeOK
  <2>2. PendingHasSender /\ PollerEndsFirst /\ HeldByPoller /\ Progress /\ Reported
    BY Zenon DEF Init, PendingHasSender, PollerEndsFirst, HeldByPoller, Progress, Reported
  <2>3. QED
    BY Zenon, <2>1, <2>2 DEF AdminInv
<1>2. AdminInv /\ [Next]_vars => AdminInv'
  <2> SUFFICES ASSUME AdminInv, [Next]_vars PROVE AdminInv'
    OBVIOUS
  <2>1. CASE Next
    BY Zenon, <2>1, RefusedInv, IssuedInv, PollFutureInv, DropFutureInv, AnswerInv, PollerInv, DropInv
       DEF Next
  <2>2. CASE UNCHANGED vars
    BY <2>2 DEF vars, requestVars, AdminInv, TypeOK, PendingHasSender, PollerEndsFirst,
                HeldByPoller, Progress, Reported
  <2>3. QED
    BY Zenon, <2>1, <2>2
<1>3. QED
  BY <1>1, <1>2, PTL DEF Spec

\* No request is forgotten: until the client is destroyed, the Sender of a pending
\* future is in librdkafka, in the queue or in the poll thread.
THEOREM NoRequestForgotten == Spec => []PendingHasSender
<1>1. AdminInv => PendingHasSender
  BY Zenon DEF AdminInv
<1>2. QED
  BY <1>1, AdminInvariance, PTL

\* drop() destroys the client after the poll thread has ended, with nothing in
\* its hands.
THEOREM PollerIsOver == Spec => []PollerEndsFirst
<1>1. AdminInv => PollerEndsFirst
  BY Zenon DEF AdminInv
<1>2. QED
  BY <1>1, AdminInvariance, PTL

\* The output of a future names every resource that failed as one that failed, for
\* all operations but those on configurations, and any number of resources.
THEOREM FailuresAreReported == Spec => []ReportsFailures
<1>1. AdminInv => ReportsFailures
  <2> SUFFICES ASSUME AdminInv, NEW r \in Requests, future[r] = "Ok", op[r] \notin ConfigOps
               PROVE  /\ Len(results[r]) = Len(outcome[r])
                      /\ \A i \in DOMAIN outcome[r] :
                            (results[r][i] = "Ok") = (outcome[r][i] = "ok")
    BY Zenon DEF ReportsFailures
  <2> DEFINE x == outcome[r]
  <2>1. /\ results[r] = Results(op[r], x)
        /\ \A i \in DOMAIN x : x[i] \in {"ok", "error"}
    BY Zenon DEF AdminInv, Reported, Outcomes
  <2>2. x \in Seq({"ok", "error", "bogus"})
    BY Zenon DEF AdminInv, TypeOK
  <2>3. results[r] = [i \in DOMAIN x |-> IF x[i] = "error" THEN "Err" ELSE "Ok"]
    BY Zenon, <2>1 DEF Results, TopicResults, GroupResults, RecordsResult
  <2>4. results[r] \in Seq(Verdicts)
    BY Zenon DEF AdminInv, TypeOK
  <2>5. DOMAIN x = 1 .. Len(x) /\ DOMAIN results[r] = 1 .. Len(results[r])
    BY <2>2, <2>4
  <2>6. Len(results[r]) = Len(x)
    <3>1. DOMAIN results[r] = DOMAIN x
      BY Zenon, <2>3
    <3>2. Len(x) \in Nat /\ Len(results[r]) \in Nat
      BY <2>2, <2>4
    <3>3. QED
      BY <2>5, <3>1, <3>2
  <2>7. QED
    BY Zenon, <2>1, <2>3, <2>6
<1>2. QED
  BY <1>1, AdminInvariance, PTL

\* No admin request makes librdkafka abort, however many partitions it assigns.
THEOREM RequestsNeverAbort == Spec => []NeverAborts
<1>1. Init => NeverAborts
  BY Zenon DEF Init, NeverAborts
<1>2. AdminInv /\ NeverAborts /\ [Next]_vars => NeverAborts'
  <2> SUFFICES ASSUME AdminInv, NeverAborts, [Next]_vars PROVE NeverAborts'
    OBVIOUS
  <2>1. ASSUME NEW r \in Requests, NEW o \in Ops[r], NEW e \in Refusals(o), Refused(r, o, e)
        PROVE  NeverAborts'
    <3>1. e # "abort"
      BY Zenon, RefusalsType
    <3>2. QED
      BY Zenon, <2>1, <3>1 DEF Refused, NeverAborts, AdminInv, TypeOK
  <2>2. ASSUME NEW r \in Requests, PollFuture(r)
        PROVE  NeverAborts'
    <3> DEFINE out == IF future[r] = "ready" THEN Output(op[r], answer[r], outcome[r])
                                             ELSE "Canceled"
    <3>1. out # "abort"
      BY Zenon DEF Output
    <3>2. future' = [future EXCEPT ![r] = out]
      BY Zenon, <2>2 DEF PollFuture
    <3> HIDE DEF out
    <3>3. QED
      BY Zenon, <3>1, <3>2 DEF NeverAborts, AdminInv, TypeOK
  <2>3. QED
    BY <2>1, <2>2 DEF Next, Issued, AnswerComes, DropFuture, Poller, PollAnswer, Send,
                      PollNothing, Check, Stop, Join, Destroy, vars, requestVars,
                      NeverAborts, AdminInv, TypeOK
<1>3. QED
  BY <1>1, <1>2, AdminInvariance, PTL DEF Spec

----------------------------------------------------------------------------
(* Streams of messages                                                     *)

\* Every parked task that a wake_all finds has left its Waker in the slab.
LEMMA WakeAllInv ==
    ASSUME WakeInv, NEW o \in Owners, WakeAll(o),
           UNCHANGED <<queue, fresh, ownerVars, owner, st>>,
           raising' = raising \/ (raising' = FALSE /\ o = callback)
    PROVE  WakeInv'
<1> USE DEF WakeInv, WakeAll, Slab, ownerVars
<1>1. StreamTypeOK'
  BY Zenon DEF StreamTypeOK
<1>2. \A s \in Streams : st[s] \in {"again", "parked"} /\ s \notin woken'
                            => waker'[s] = "own" /\ owner[s] # o
  BY Zenon DEF StreamTypeOK
<1>3. ASSUME ~Resplit PROVE NoLostWakeup'
  <2> SUFFICES ASSUME NEW s \in Streams, st[s] = "parked", s \notin woken'
               PROVE  queue = <<>> \/ raising'
    BY Zenon DEF NoLostWakeup
  <2>1. owner[s] # o /\ owner[s] \in Owners
    BY <1>2 DEF StreamTypeOK
  <2>2. s \notin woken
    OBVIOUS
  <2>3. callback = owner[s]
    BY Zenon, <2>1, <1>3
  <2> QED
    BY <2>1, <2>2, <2>3, <1>3 DEF NoLostWakeup
<1> QED
  BY <1>1, <1>2, <1>3

\* An event is appended to the queue: if it was empty the callback is raised.
LEMMA EnqueueInv ==
    ASSUME WakeInv, NEW e \in Events, Enqueue(e)
    PROVE  WakeInv'
<1> USE DEF WakeInv, Enqueue, ownerVars, streamVars
<1>1. StreamTypeOK'
  BY DEF StreamTypeOK
<1>2. ASSUME ~Resplit PROVE NoLostWakeup'
  <2> SUFFICES ASSUME NEW s \in Streams, st[s] = "parked", s \notin woken
               PROVE  raising'
    BY Zenon DEF NoLostWakeup
  <2>1. queue = <<>>
    BY Zenon, <1>2 DEF NoLostWakeup
  <2>2. callback = owner[s] /\ owner[s] \in Owners
    BY <1>2 DEF StreamTypeOK
  <2> QED
    BY Zenon, <2>1, <2>2, StreamAssumption
<1> QED
  BY Zenon, <1>1, <1>2

\* A task polls the queue; when it finds it empty it goes on to a point where
\* its Waker, if that matters there, is in the slab.
LEMMA PollInv ==
    ASSUME WakeInv, NEW s \in Streams, st[s] \in {"run", "again"},
           NEW p \in {"arm", "parked"}, Poll(s, p),
           p = "parked" => st[s] = "again"
    PROVE  WakeInv'
<1> USE DEF WakeInv, Poll, Goto, ownerVars
<1>1. queue' \in Seq(Events)
  <2>1. queue \in Seq(Events) /\ (queue' = queue \/ (queue # <<>> /\ queue' = Tail(queue)))
    BY Zenon DEF StreamTypeOK
  <2> QED
    BY <2>1
<1>2. /\ \A u \in Streams \ {s} : st'[u] = st[u]
      /\ st'[s] \in {"arm", "parked", "held", st[s]}
      /\ woken \subseteq woken' /\ woken' \subseteq woken \cup {s}
      /\ UNCHANGED <<fresh, raising, callback, life, owner, waker>>
  BY DEF StreamTypeOK
<1>3. StreamTypeOK'
  <2>1. st' = st \/ \E q \in {"arm", "parked", "held"} : st' = [st EXCEPT ![s] = q]
    OBVIOUS
  <2>2. st' \in [Streams -> {"off", "held", "run", "arm", "again", "parked"}]
    BY <2>1 DEF StreamTypeOK
  <2> QED
    BY <1>1, <1>2, <2>2 DEF StreamTypeOK
<1>4. st'[s] = "parked" /\ s \notin woken' => st[s] = "again" /\ queue' = <<>>
  BY DEF StreamTypeOK
<1> HIDE DEF Poll, Goto
<1>5. \A u \in Streams : st'[u] \in {"again", "parked"} /\ u \notin woken'
                            => waker[u] = "own"
  BY <1>2, <1>4
<1>6. ASSUME ~Resplit PROVE NoLostWakeup'
  <2>1. ASSUME NEW u \in Streams \ {s}, st[u] = "parked", u \notin woken
        PROVE  queue' = <<>>
    <3>1. queue = <<>> /\ ~raising
      BY Zenon, <2>1, <1>6 DEF NoLostWakeup, Poll
    <3> QED
      BY Zenon, <3>1 DEF Poll
  <2> QED
    BY <2>1, <1>2, <1>4 DEF NoLostWakeup
<1>7. \A u \in Streams : st'[u] = "off" <=> owner[u] = Nobody
  BY <1>2
<1> QED
  BY <1>2, <1>3, <1>5, <1>6, <1>7

\* The steps of a stream other than a poll of the queue.
LEMMA StreamInv ==
    ASSUME WakeInv, NEW s \in Streams,
           \/ \E o \in Owners : NewStream(s, o)
           \/ Await(s) \/ Resume(s) \/ SetWaker(s) \/ Abandon(s) \/ DropStream(s)
    PROVE  WakeInv'
<1> USE DEF WakeInv, Goto, queueVars, ownerVars
<1>1. ASSUME NEW o \in Owners, NewStream(s, o) PROVE WakeInv'
  <2>1. StreamTypeOK'
    BY Zenon, <1>1 DEF NewStream, StreamTypeOK
  <2> QED
    BY <1>1, <2>1, StreamAssumption DEF NewStream, NoLostWakeup, StreamTypeOK
<1>2. CASE Await(s)
  <2>1. StreamTypeOK'
    BY <1>2 DEF Await, StreamTypeOK
  <2> QED
    BY <1>2, <2>1 DEF Await, NoLostWakeup, StreamTypeOK
<1>3. CASE Resume(s)
  <2>1. StreamTypeOK'
    BY Zenon, <1>3 DEF Resume, StreamTypeOK
  <2> QED
    BY <1>3, <2>1 DEF Resume, NoLostWakeup, StreamTypeOK
<1>4. CASE SetWaker(s)
  <2>1. StreamTypeOK'
    BY Zenon, <1>4 DEF SetWaker, StreamTypeOK
  <2> QED
    BY <1>4, <2>1 DEF SetWaker, NoLostWakeup, StreamTypeOK
<1>5. CASE Abandon(s)
  <2>1. StreamTypeOK'
    BY Zenon, <1>5 DEF Abandon, StreamTypeOK
  <2> QED
    BY <1>5, <2>1 DEF Abandon, NoLostWakeup, StreamTypeOK
<1>6. CASE DropStream(s)
  <2>1. StreamTypeOK'
    BY Zenon, <1>6 DEF DropStream, StreamTypeOK
  <2> QED
    BY <1>6, <2>1 DEF DropStream, NoLostWakeup, StreamTypeOK
<1> QED
  BY Zenon, <1>1, <1>2, <1>3, <1>4, <1>5, <1>6

\* An owner is created or dropped.
LEMMA OwnerInv ==
    ASSUME WakeInv, NEW o \in Owners, Open(o) \/ BeginClose(o) \/ FinishClose(o)
    PROVE  WakeInv'
<1> USE DEF WakeInv, queueVars, streamVars
<1>1. CASE Open(o)
  <2>1. StreamTypeOK'
    BY Zenon, <1>1 DEF Open, StreamTypeOK
  <2>2. life'[o] = "open" /\ \A p \in Owners \ {o} : life'[p] = life[p]
    BY <1>1 DEF Open, StreamTypeOK
  <2>3. \A s \in Streams : owner[s] # o
    BY Zenon, <1>1, StreamAssumption DEF Open
  <2>4. \A s \in Streams : owner[s] # Nobody => owner[s] \in Owners \ {o}
    BY <2>3 DEF StreamTypeOK
  <2> QED
    BY <1>1, <2>1, <2>2, <2>4, StreamAssumption DEF Open, NoLostWakeup
<1>2. CASE BeginClose(o)
  <2>1. StreamTypeOK'
    BY Zenon, <1>2 DEF BeginClose, StreamTypeOK
  <2>2. life'[o] = "closing" /\ \A p \in Owners \ {o} : life'[p] = life[p]
    BY Zenon, <1>2 DEF BeginClose, StreamTypeOK
  <2>3. \A s \in Streams : owner[s] # Nobody => owner[s] \in Owners \ {o}
    BY <1>2 DEF BeginClose, Slab, StreamTypeOK
  <2> QED
    BY <1>2, <2>1, <2>2, <2>3 DEF BeginClose, NoLostWakeup
<1>3. CASE FinishClose(o)
  <2>1. StreamTypeOK'
    BY Zenon, <1>3 DEF FinishClose, StreamTypeOK
  <2>2. life'[o] = "closed" /\ \A p \in Owners \ {o} : life'[p] = life[p]
    BY Zenon, <1>3 DEF FinishClose, StreamTypeOK
  <2>3. \A s \in Streams : owner[s] # Nobody => owner[s] \in Owners \ {o}
    BY <1>3 DEF FinishClose, StreamTypeOK
  <2>4. callback # Nobody => callback \in Owners \ {o}
    BY Zenon, <1>3 DEF FinishClose, StreamTypeOK
  <2> QED
    BY <1>3, <2>1, <2>2, <2>3, <2>4 DEF FinishClose, NoLostWakeup
<1> QED
  BY Zenon, <1>1, <1>2, <1>3

\* WakeInv is an invariant of every StreamConsumer and StreamPartitionQueue.
THEOREM WakeInvariance == StreamSpec => []WakeInv
<1>1. StreamInit => WakeInv
  <2> SUFFICES ASSUME StreamInit PROVE WakeInv
    OBVIOUS
  <2>1. raising \in BOOLEAN /\ ~raising
    BY Zenon DEF StreamInit
  <2>2. /\ queue \in Seq(Events) /\ fresh \subseteq Events
        /\ callback \in Owners \cup {Nobody}
        /\ life \in [Owners -> {"unborn", "open", "closing", "closed"}]
        /\ owner \in [Streams -> Owners \cup {Nobody}]
        /\ st \in [Streams -> {"off", "held", "run", "arm", "again", "parked"}]
        /\ waker \in [Streams -> {"none", "own", "stale"}]
        /\ woken \subseteq Streams
    BY DEF StreamInit
  <2>3. /\ callback = Nobody
        /\ \A s \in Streams : st[s] = "off" /\ owner[s] = Nobody
        /\ \A o \in Owners : life[o] \in {"unborn", "closed"}
    BY Zenon DEF StreamInit
  <2> QED
    BY Zenon, <2>1, <2>2, <2>3 DEF WakeInv, StreamTypeOK, NoLostWakeup
<1>2. WakeInv /\ [StreamNext]_scVars => WakeInv'
  <2> SUFFICES ASSUME WakeInv, [StreamNext]_scVars PROVE WakeInv'
    OBVIOUS
  <2>1. ASSUME NEW e \in Events, Enqueue(e) PROVE WakeInv'
    BY Zenon, <2>1, EnqueueInv
  <2>2. CASE NonEmptyCallback
    <3>1. callback \in Owners
      BY Zenon, <2>2 DEF NonEmptyCallback, WakeInv, StreamTypeOK
    <3> QED
      BY Zenon, <2>2, <3>1, WakeAllInv DEF NonEmptyCallback
  <2>3. ASSUME NEW o \in Owners, WakeLoop(o) PROVE WakeInv'
    BY Zenon, <2>3, WakeAllInv DEF WakeLoop, queueVars
  <2>4. ASSUME NEW o \in Owners, Open(o) \/ BeginClose(o) \/ FinishClose(o)
        PROVE  WakeInv'
    BY Zenon, <2>4, OwnerInv
  <2>5. ASSUME NEW s \in Streams, NEW o \in Owners, NewStream(s, o) PROVE WakeInv'
    BY Zenon, <2>5, StreamInv
  <2>6. ASSUME NEW s \in Streams, Await(s) \/ PollNext(s) \/ Abandon(s) \/ DropStream(s)
        PROVE  WakeInv'
    BY Zenon, <2>6, StreamInv, PollInv DEF PollNext, PollFirst, PollAgain
  <2>7. CASE UNCHANGED scVars
    BY <2>7 DEF scVars, queueVars, ownerVars, streamVars, WakeInv, StreamTypeOK, NoLostWakeup
  <2> QED
    BY Zenon, <2>1, <2>2, <2>3, <2>4, <2>5, <2>6, <2>7 DEF StreamNext
<1> QED
  BY <1>1, <1>2, PTL DEF StreamSpec

\* No task sleeps while there is something in the queue it polls, for any
\* number of tasks, provided a partition is not split while it is split.
THEOREM NoWakeupIsLost ==
    ASSUME ~Resplit
    PROVE  StreamSpec => []NoLostWakeup
<1>1. WakeInv => NoLostWakeup
  BY Zenon DEF WakeInv
<1> QED
  BY <1>1, WakeInvariance, PTL

\* librdkafka never calls back into a freed WakerSlab, even when a partition is
\* split while it is split.
THEOREM SlabIsAlive == StreamSpec => []SlabAlive
<1>1. WakeInv => SlabAlive
  BY Zenon DEF WakeInv, SlabAlive
<1> QED
  BY <1>1, WakeInvariance, PTL

=============================================================================
