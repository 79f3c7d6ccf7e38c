------------------------- MODULE TransactionsProofs -------------------------
(***************************************************************************)
(* Proofs about Transactions, for any number of instances, inputs and      *)
(* faults: the pipeline transforms every input exactly once, an Ok of      *)
(* commit_transaction is true, and an application that follows the classes *)
(* of errors makes no call that librdkafka refuses.                        *)
(***************************************************************************)
EXTENDS Transactions, TLAPS

\* The phases in which a transaction is open, for the application.
Running == {"work", "commit", "abort"}

Typed ==
    /\ fenced \subseteq Apps
    /\ wrote \in [Apps -> SUBSET Inputs]
    /\ offs \in [Apps -> {None} \cup 0..End]
    /\ committed \in 0..End
    /\ st \in [Apps -> {"created", "ready", "txn", "committing", "abortable", "fatal"}]
    /\ queue \in [Apps -> SUBSET Inputs]
    /\ endtxn \in [Apps -> {"none", "sent", "done", "refused"}]
    /\ gen \in [Apps -> {"none", "current", "stale"}]
    /\ pos \in [Apps -> {None} \cup 0..End]
    /\ start \in [Apps -> {None} \cup 0..End]
    /\ sent \in [Apps -> {None} \cup 0..End]
    /\ phase \in [Apps -> {"off", "start", "idle", "work", "commit", "abort", "stop"}]
    /\ told \in 0..End

\* What the application was told agrees with its producer, and what is left of a
\* transaction is gone when the next one begins.
Calls ==
    /\ CallsAreValid
    /\ \A a \in Apps :
          /\ phase[a] \in {"off", "start", "idle"} => queue[a] = {} /\ sent[a] = None
          /\ phase[a] \in {"idle", "work", "abort"} => endtxn[a] = "none"
          /\ phase[a] = "commit" => (st[a] = "committing" <=> endtxn[a] # "none")
          /\ phase[a] = "commit" /\ st[a] = "committing" => queue[a] = {} /\ sent[a] = pos[a]
          /\ phase[a] \in Running =>
                /\ start[a] # None
                /\ start[a] <= pos[a]
                /\ sent[a] <= pos[a]
                /\ sent[a] # None => start[a] < sent[a]

\* Instance a has initialised its transactional.id, or its commit is on the way.
InUse(a) == phase[a] \notin {"off", "start"} \/ endtxn[a] = "sent"

\* At most one instance uses a transactional.id without being fenced, at most one
\* has the partition, and at most one transaction holds an offset.
Exclusive ==
    /\ \A a, b \in Apps :
          InUse(a) /\ Current(a) /\ InUse(b) /\ Current(b) /\ Tid(a) = Tid(b) => a = b
    /\ \A a \in Apps : gen[a] = "current" => owner = a /\ phase[a] # "off"
    /\ \A s, t \in Apps : offs[s] # None /\ offs[t] # None => s = t

\* The transaction that the application sees holds its outputs and its offset.
ContentsOf(a) ==
    /\ phase[a] = "idle" \/ (phase[a] = "commit" /\ endtxn[a] = "done") =>
          wrote[Tid(a)] = {} /\ offs[Tid(a)] = None
    /\ phase[a] \in Running /\ st[a] \in {"txn", "committing"} /\ endtxn[a] # "done" =>
          /\ wrote[Tid(a)] \cup queue[a] = start[a]..(pos[a] - 1)
          /\ sent[a] = pos[a] => offs[Tid(a)] = pos[a]

Contents == \A a \in Apps : Current(a) => ContentsOf(a)

\* The offset from which the consumer of a counts.
Base(a) == IF phase[a] \in Running /\ endtxn[a] # "done" THEN start[a] ELSE pos[a]

\* Instance a has the partition, knows it, and has found its position.
Follows(a) ==
    /\ gen[a] = "current"
    /\ phase[a] \in {"start", "idle"} \cup Running
    /\ Base(a) # None

\* The owner of the partition counts from the committed offset, and no other
\* instance has a transaction that could move it.
Following ==
    \A a \in Apps : Follows(a) =>
        /\ Base(a) = committed
        /\ \A t \in Apps : offs[t] # None =>
              t = Tid(a) /\ Current(a) /\ phase[a] \in Running /\ endtxn[a] # "done"

\* A transaction with an offset starts at the committed one, and a commit on its way
\* makes the outputs of the inputs in between visible.
Pending ==
    \A a \in Apps : Current(a) =>
        /\ offs[Tid(a)] # None /\ phase[a] \in Running /\ endtxn[a] # "done" =>
              start[a] = committed
        /\ endtxn[a] = "sent" =>
              /\ offs[Tid(a)] # None
              /\ committed < offs[Tid(a)]
              /\ wrote[Tid(a)] = committed..(offs[Tid(a)] - 1)

\* A commit that was reported, or is about to be, has taken place.
Reported ==
    /\ told <= committed
    /\ \A a \in Apps : phase[a] = "commit" /\ endtxn[a] = "done" => sent[a] <= committed

IInv ==
    Typed /\ Calls /\ Exclusive /\ Contents /\ Following /\ Pending /\ Reported

-----------------------------------------------------------------------------
\* The transactional ids do not change.
Fixed == \A a \in Apps : Tid(a) \in Apps /\ Tid(a)' = Tid(a)

LEMMA TidFixed == shared' = shared => Fixed
BY DEF Fixed, Tid

-----------------------------------------------------------------------------
(* The coordinators and librdkafka keep the invariant *)

LEMMA EndTxnStep ==
    ASSUME IInv, NEW a \in Apps, EndTxn(a), Fixed
    PROVE  IInv'
<1>0. Typed /\ Calls /\ Exclusive /\ Contents /\ Following /\ Pending /\ Reported
    BY Zenon DEF IInv
<1> USE <1>0, TransactionsAssumption DEF Fixed, Current, None, Inputs
<1>1. Typed'
    <2>1. committed' \in 0..End
        BY DEF Typed, EndTxn, resultVars
    <2>2. wrote' \in [Apps -> SUBSET Inputs]
        BY Zenon DEF Typed, EndTxn, Discard
    <2>3. offs' \in [Apps -> {None} \cup 0..End]
        BY Zenon DEF Typed, EndTxn, Discard
    <2>4. endtxn' \in [Apps -> {"none", "sent", "done", "refused"}]
        <3>1. endtxn' \in {[endtxn EXCEPT ![a] = "done"], [endtxn EXCEPT ![a] = "refused"]}
            BY Zenon DEF EndTxn
        <3> QED
            BY <3>1 DEF Typed
    <2> QED
        BY Zenon, <2>1, <2>2, <2>3, <2>4 DEF Typed, EndTxn, consumerVars
<1>2. Calls'
    BY DEF Typed, Calls, CallsAreValid, Running, EndTxn, Discard, resultVars, consumerVars
<1>3. Exclusive'
    BY DEF Typed, Exclusive, InUse, EndTxn, Discard, resultVars, consumerVars
<1>4. Contents'
    BY DEF Typed, Contents, ContentsOf, Running, Calls, CallsAreValid, Exclusive,
           InUse, EndTxn, Discard, resultVars, consumerVars
<1>5. Following'
    BY DEF Typed, Following, Follows, Base, Running, Calls, CallsAreValid,
           Exclusive, Contents, ContentsOf, Pending, InUse, EndTxn, Discard, resultVars,
           consumerVars
<1>6. Pending'
    BY DEF Typed, Pending, Running, Calls, CallsAreValid, Exclusive, Contents,
           ContentsOf, Following, Follows, Base, InUse, EndTxn, Discard, resultVars,
           consumerVars
<1>7. Reported'
    <2>1. committed <= committed'
        BY DEF Typed, Pending, EndTxn, resultVars
    <2>2. told' = told /\ sent' = sent /\ phase' = phase
        BY Zenon DEF EndTxn
    <2>3. Current(a) /\ phase[a] = "commit" => sent[a] = committed'
        <3> SUFFICES ASSUME Current(a), phase[a] = "commit" PROVE sent[a] = committed'
            OBVIOUS
        <3>1. st[a] = "committing" /\ sent[a] = pos[a]
            BY Zenon DEF EndTxn, Calls
        <3>2. offs[Tid(a)] = pos[a] /\ offs[Tid(a)] # None
            BY Zenon, <3>1 DEF EndTxn, Contents, ContentsOf, Pending, Running
        <3> QED
            BY Zenon, <3>1, <3>2 DEF EndTxn
    <2>4. \A b \in Apps : endtxn'[b] = "done" => endtxn[b] = "done" \/ (b = a /\ Current(a))
        BY Zenon DEF EndTxn, Typed
    <2>5. committed \in Int /\ committed' \in Int /\ told \in Int /\ sent \in [Apps -> Int]
        BY <1>1 DEF Typed
    <2>6. \A b \in Apps : phase[b] = "commit" /\ endtxn'[b] = "done" => sent[b] <= committed'
        BY <2>1, <2>3, <2>4, <2>5 DEF Reported
    <2> QED
        BY <2>1, <2>2, <2>5, <2>6 DEF Reported
<1> QED
    BY Zenon, <1>1, <1>2, <1>3, <1>4, <1>5, <1>6, <1>7 DEF IInv

LEMMA TxnTimeoutStep ==
    ASSUME IInv, NEW a \in Apps, TxnTimeout(a), Fixed
    PROVE  IInv'
<1>0. Typed /\ Calls /\ Exclusive /\ Contents /\ Following /\ Pending /\ Reported
    BY DEF IInv
<1> USE <1>0, TransactionsAssumption DEF Fixed, Current, None, Inputs
<1>1. Typed'
    BY Zenon DEF Typed, TxnTimeout, Fault, Discard, resultVars, clientVars, consumerVars
<1>2. Calls'
    BY Zenon DEF Typed, Calls, CallsAreValid, Running, TxnTimeout, Fault, Discard, resultVars,
           clientVars, consumerVars
<1>3. Exclusive'
    BY Zenon DEF Typed, Exclusive, InUse, TxnTimeout, Fault, Discard, resultVars, clientVars,
           consumerVars
<1>4. Contents'
    BY DEF Typed, Contents, ContentsOf, Running, TxnTimeout, Fault, Discard, resultVars,
           clientVars, consumerVars
<1>5. Following'
    BY DEF Typed, Following, Follows, Base, Running, TxnTimeout, Fault, Discard,
           resultVars, clientVars, consumerVars
<1>6. Pending'
    BY DEF Typed, Pending, Running, TxnTimeout, Fault, Discard, resultVars, clientVars,
           consumerVars
<1>7. Reported'
    BY Zenon DEF Typed, Reported, TxnTimeout, Fault, Discard, resultVars, clientVars, consumerVars
<1> QED
    BY <1>1, <1>2, <1>3, <1>4, <1>5, <1>6, <1>7 DEF IInv

LEMMA GroupRebalancesStep ==
    ASSUME IInv, NEW a \in Apps, GroupRebalances(a), Fixed
    PROVE  IInv'
<1>0. Typed /\ Calls /\ Exclusive /\ Contents /\ Following /\ Pending /\ Reported
    BY DEF IInv
<1> USE <1>0, TransactionsAssumption DEF Fixed, Current, None, Inputs
<1>1. Typed'
    BY Zenon DEF Typed, GroupRebalances, Fault, idVars, resultVars, clientVars
<1>2. Calls'
    BY Zenon DEF Typed, Calls, CallsAreValid, Running, GroupRebalances, Fault, idVars,
           resultVars, clientVars
<1>3. Exclusive'
    BY Zenon DEF Typed, Exclusive, InUse, GroupRebalances, Fault, idVars, resultVars, clientVars
<1>4. Contents'
    BY DEF Typed, Contents, ContentsOf, Running, GroupRebalances, Fault, idVars,
           resultVars, clientVars
<1>5. Following'
    BY Zenon DEF Typed, Following, Follows, Base, Running, GroupRebalances, Fault, idVars,
           resultVars, clientVars
<1>6. Pending'
    BY DEF Typed, Pending, Running, GroupRebalances, Fault, idVars, resultVars, clientVars
<1>7. Reported'
    BY Zenon DEF Typed, Reported, GroupRebalances, Fault, idVars, resultVars, clientVars
<1> QED
    BY <1>1, <1>2, <1>3, <1>4, <1>5, <1>6, <1>7 DEF IInv

LEMMA DeliveredStep ==
    ASSUME IInv, NEW a \in Apps, NEW i \in Inputs, Delivered(a, i), Fixed
    PROVE  IInv'
<1>0. Typed /\ Calls /\ Exclusive /\ Contents /\ Following /\ Pending /\ Reported
    BY Zenon DEF IInv
<1> USE <1>0, TransactionsAssumption DEF Fixed, Current, None, Inputs
<1>1. Typed'
    BY DEF Typed, Delivered, resultVars, consumerVars
<1>2. Calls'
    BY DEF Typed, Calls, CallsAreValid, Running, Delivered, resultVars, consumerVars
<1>3. Exclusive'
    BY Zenon DEF Typed, Exclusive, InUse, Delivered, resultVars, consumerVars
<1>4. Contents'
    BY DEF Typed, Contents, ContentsOf, Running, Calls, CallsAreValid, Exclusive,
           InUse, Delivered, resultVars, consumerVars
<1>5. Following'
    BY DEF Typed, Following, Follows, Base, Running, Delivered, resultVars, consumerVars
<1>6. Pending'
    BY DEF Typed, Pending, Running, Calls, CallsAreValid, Exclusive, Contents, ContentsOf,
           Following, Follows, Base, InUse, Delivered, resultVars, consumerVars
<1>7. Reported'
    BY Zenon DEF Typed, Reported, Delivered, resultVars, consumerVars
<1> QED
    BY Zenon, <1>1, <1>2, <1>3, <1>4, <1>5, <1>6, <1>7 DEF IInv

LEMMA MessageFailsStep ==
    ASSUME IInv, NEW a \in Apps, NEW i \in Inputs, MessageFails(a, i), Fixed
    PROVE  IInv'
<1>0. Typed /\ Calls /\ Exclusive /\ Contents /\ Following /\ Pending /\ Reported
    BY DEF IInv
<1> USE <1>0, TransactionsAssumption DEF Fixed, Current, None, Inputs
<1>1. Typed'
    BY Zenon DEF Typed, MessageFails, Fault, idVars, resultVars, consumerVars
<1>2. Calls'
    BY DEF Typed, Calls, CallsAreValid, Running, MessageFails, Fault, idVars, resultVars,
           consumerVars
<1>3. Exclusive'
    BY Zenon DEF Typed, Exclusive, InUse, MessageFails, Fault, idVars, resultVars, consumerVars
<1>4. Contents'
    BY DEF Typed, Contents, ContentsOf, Running, MessageFails, Fault, idVars, resultVars,
           consumerVars
<1>5. Following'
    BY DEF Typed, Following, Follows, Base, Running, MessageFails, Fault, idVars,
           resultVars, consumerVars
<1>6. Pending'
    BY Zenon DEF Typed, Pending, Running, MessageFails, Fault, idVars, resultVars, consumerVars
<1>7. Reported'
    BY Zenon DEF Typed, Reported, MessageFails, Fault, idVars, resultVars, consumerVars
<1> QED
    BY <1>1, <1>2, <1>3, <1>4, <1>5, <1>6, <1>7 DEF IInv

LEMMA PollStep ==
    ASSUME IInv, NEW a \in Apps, Poll(a), Fixed
    PROVE  IInv'
<1>0. Typed /\ Calls /\ Exclusive /\ Contents /\ Following /\ Pending /\ Reported
    BY DEF IInv
<1> USE <1>0, TransactionsAssumption DEF Fixed, Current, None, Inputs
<1>1. Typed'
    BY Zenon DEF Typed, Poll, idVars, resultVars, consumerVars
<1>2. Calls'
    BY Zenon DEF Typed, Calls, CallsAreValid, Running, Poll, idVars, resultVars, consumerVars
<1>3. Exclusive'
    BY DEF Typed, Exclusive, InUse, Poll, idVars, resultVars, consumerVars
<1>4. Contents'
    BY DEF Typed, Contents, ContentsOf, Running, Poll, idVars, resultVars, consumerVars
<1>5. Following'
    BY DEF Typed, Following, Follows, Base, Running, Poll, idVars, resultVars, consumerVars
<1>6. Pending'
    BY DEF Typed, Pending, Running, Poll, idVars, resultVars, consumerVars
<1>7. Reported'
    BY Zenon DEF Typed, Reported, Poll, idVars, resultVars, consumerVars
<1> QED
    BY <1>1, <1>2, <1>3, <1>4, <1>5, <1>6, <1>7 DEF IInv

-----------------------------------------------------------------------------
(* The life of an instance *)

LEMMA CrashStep ==
    ASSUME IInv, NEW a \in Apps, Crash(a), Fixed
    PROVE  IInv'
<1>0. Typed /\ Calls /\ Exclusive /\ Contents /\ Following /\ Pending /\ Reported
    BY DEF IInv
<1> USE <1>0, TransactionsAssumption DEF Fixed, Current, None, Inputs
<1>1. Typed'
    BY DEF Typed, Crash, Fault, Ends, idVars, resultVars
<1>2. Calls'
    BY DEF Typed, Calls, CallsAreValid, Running, Crash, Fault, Ends, idVars, resultVars
<1>3. Exclusive'
    BY DEF Typed, Exclusive, InUse, Crash, Fault, Ends, idVars, resultVars
<1>4. Contents'
    BY DEF Typed, Contents, ContentsOf, Running, Crash, Fault, Ends, idVars, resultVars
<1>5. Following'
    BY DEF Typed, Following, Follows, Base, Running, Crash, Fault, Ends, idVars, resultVars
<1>6. Pending'
    BY DEF Typed, Pending, Running, Crash, Fault, Ends, idVars, resultVars
<1>7. Reported'
    BY DEF Typed, Reported, Crash, Fault, Ends, idVars, resultVars
<1> QED
    BY <1>1, <1>2, <1>3, <1>4, <1>5, <1>6, <1>7 DEF IInv

LEMMA TerminateStep ==
    ASSUME IInv, NEW a \in Apps, Terminate(a), Fixed
    PROVE  IInv'
<1>0. Typed /\ Calls /\ Exclusive /\ Contents /\ Following /\ Pending /\ Reported
    BY DEF IInv
<1> USE <1>0, TransactionsAssumption DEF Fixed, Current, None, Inputs
<1>1. Typed'
    BY Zenon DEF Typed, Terminate, Ends, idVars, resultVars
<1>2. Calls'
    BY DEF Typed, Calls, CallsAreValid, Running, Terminate, Ends, idVars, resultVars
<1>3. Exclusive'
    BY Zenon DEF Typed, Exclusive, InUse, Terminate, Ends, idVars, resultVars
<1>4. Contents'
    BY DEF Typed, Contents, ContentsOf, Running, Terminate, Ends, idVars, resultVars
<1>5. Following'
    BY DEF Typed, Following, Follows, Base, Running, Terminate, Ends, idVars, resultVars
<1>6. Pending'
    BY DEF Typed, Pending, Running, Terminate, Ends, idVars, resultVars
<1>7. Reported'
    BY Zenon DEF Typed, Reported, Terminate, Ends, idVars, resultVars
<1> QED
    BY <1>1, <1>2, <1>3, <1>4, <1>5, <1>6, <1>7 DEF IInv

LEMMA CreateStep ==
    ASSUME IInv, NEW a \in Apps, Create(a), Fixed
    PROVE  IInv'
<1>0. Typed /\ Calls /\ Exclusive /\ Contents /\ Following /\ Pending /\ Reported
    BY DEF IInv
<1> USE <1>0, TransactionsAssumption DEF Fixed, Current, None, Inputs
<1>1. Typed'
    BY Zenon DEF Typed, Create, Fault, idVars, resultVars, consumerVars
<1>2. Calls'
    BY DEF Typed, Calls, CallsAreValid, Running, Create, Fault, idVars, resultVars,
           consumerVars
<1>3. Exclusive'
    BY Zenon DEF Typed, Exclusive, InUse, Create, Fault, idVars, resultVars, consumerVars
<1>4. Contents'
    BY DEF Typed, Contents, ContentsOf, Running, Create, Fault, idVars, resultVars,
           consumerVars
<1>5. Following'
    BY DEF Typed, Following, Follows, Base, Running, Calls, CallsAreValid, Exclusive,
           Contents, ContentsOf, Pending, InUse, Create, Fault, idVars, resultVars,
           consumerVars
<1>6. Pending'
    BY Zenon DEF Typed, Pending, Running, Create, Fault, idVars, resultVars, consumerVars
<1>7. Reported'
    BY Zenon DEF Typed, Reported, Create, Fault, idVars, resultVars, consumerVars
<1> QED
    BY <1>1, <1>2, <1>3, <1>4, <1>5, <1>6, <1>7 DEF IInv

-----------------------------------------------------------------------------
(* The calls of an instance and its consumer *)

LEMMA InitTransactionsStep ==
    ASSUME IInv, NEW a \in Apps, InitTransactions(a), Fixed
    PROVE  IInv'
<1>0. Typed /\ Calls /\ Exclusive /\ Contents /\ Following /\ Pending /\ Reported
    BY DEF IInv
<1> USE <1>0, TransactionsAssumption DEF Fixed, Current, None, Inputs
<1>1. Typed'
    <2>1. wrote' \in [Apps -> SUBSET Inputs] /\ offs' \in [Apps -> {None} \cup 0..End]
        BY Zenon DEF Typed, InitTransactions, Discard
    <2>2. /\ st' \in [Apps -> {"created", "ready", "txn", "committing", "abortable", "fatal"}]
          /\ phase' \in [Apps -> {"off", "start", "idle", "work", "commit", "abort", "stop"}]
        BY DEF Typed, InitTransactions, React
    <2>3. fenced' \subseteq Apps /\ endtxn' \in [Apps -> {"none", "sent", "done", "refused"}]
        BY Zenon DEF Typed, InitTransactions
    <2> QED
        BY Zenon, <2>1, <2>2, <2>3 DEF Typed, InitTransactions, resultVars, consumerVars
<1>2. Calls'
    BY DEF Typed, Calls, CallsAreValid, Running, InitTransactions, Fault, Discard, React,
           resultVars, consumerVars
<1>3. Exclusive'
    BY DEF Typed, Exclusive, InUse, InitTransactions, Fault, Discard, React, resultVars,
           consumerVars
<1>4. Contents'
    BY DEF Typed, Contents, ContentsOf, Running, InitTransactions, Fault, Discard, React,
           resultVars, consumerVars
<1>5. Following'
    BY DEF Typed, Following, Follows, Base, Running, InitTransactions, Fault, Discard,
           React, resultVars, consumerVars
<1>6. Pending'
    BY DEF Typed, Pending, Running, InitTransactions, Fault, Discard, React, resultVars,
           consumerVars
<1>7. Reported'
    BY DEF Typed, Reported, InitTransactions, Fault, Discard, React, resultVars,
           consumerVars
<1> QED
    BY <1>1, <1>2, <1>3, <1>4, <1>5, <1>6, <1>7 DEF IInv

LEMMA JoinsStep ==
    ASSUME IInv, NEW a \in Apps, Joins(a), Fixed
    PROVE  IInv'
<1>0. Typed /\ Calls /\ Exclusive /\ Contents /\ Following /\ Pending /\ Reported
    BY DEF IInv
<1> USE <1>0, TransactionsAssumption DEF Fixed, Current, None, Inputs
<1>1. Typed'
    BY Zenon DEF Typed, Joins, idVars, resultVars, clientVars
<1>2. Calls'
    BY Zenon DEF Typed, Calls, CallsAreValid, Running, Joins, idVars, resultVars, clientVars
<1>3. Exclusive'
    BY Zenon DEF Typed, Exclusive, InUse, Joins, idVars, resultVars, clientVars
<1>4. Contents'
    BY DEF Typed, Contents, ContentsOf, Running, Joins, idVars, resultVars, clientVars
<1>5. Following'
    BY DEF Typed, Following, Follows, Base, Running, Joins, idVars, resultVars, clientVars
<1>6. Pending'
    BY DEF Typed, Pending, Running, Joins, idVars, resultVars, clientVars
<1>7. Reported'
    BY Zenon DEF Typed, Reported, Joins, idVars, resultVars, clientVars
<1> QED
    BY <1>1, <1>2, <1>3, <1>4, <1>5, <1>6, <1>7 DEF IInv

LEMMA LearnsLossStep ==
    ASSUME IInv, NEW a \in Apps, LearnsLoss(a), Fixed
    PROVE  IInv'
<1>0. Typed /\ Calls /\ Exclusive /\ Contents /\ Following /\ Pending /\ Reported
    BY DEF IInv
<1> USE <1>0, TransactionsAssumption DEF Fixed, Current, None, Inputs
<1>1. Typed'
    BY Zenon DEF Typed, LearnsLoss, idVars, resultVars, clientVars
<1>2. Calls'
    BY DEF Typed, Calls, CallsAreValid, Running, LearnsLoss, idVars, resultVars, clientVars
<1>3. Exclusive'
    BY DEF Typed, Exclusive, InUse, LearnsLoss, idVars, resultVars, clientVars
<1>4. Contents'
    BY DEF Typed, Contents, ContentsOf, Running, LearnsLoss, idVars, resultVars, clientVars
<1>5. Following'
    BY DEF Typed, Following, Follows, Base, Running, LearnsLoss, idVars, resultVars,
           clientVars
<1>6. Pending'
    BY Zenon DEF Typed, Pending, Running, LearnsLoss, idVars, resultVars, clientVars
<1>7. Reported'
    BY Zenon DEF Typed, Reported, LearnsLoss, idVars, resultVars, clientVars
<1> QED
    BY <1>1, <1>2, <1>3, <1>4, <1>5, <1>6, <1>7 DEF IInv

LEMMA FetchCommittedStep ==
    ASSUME IInv, NEW a \in Apps, FetchCommitted(a), Fixed
    PROVE  IInv'
<1>0. Typed /\ Calls /\ Exclusive /\ Contents /\ Following /\ Pending /\ Reported
    BY DEF IInv
<1> USE <1>0, TransactionsAssumption DEF Fixed, Current, None, Inputs
<1>1. Typed'
    BY Zenon DEF Typed, FetchCommitted, Stable, idVars, resultVars, clientVars
<1>2. Calls'
    BY Zenon DEF Typed, Calls, CallsAreValid, Running, FetchCommitted, Stable, idVars,
           resultVars, clientVars
<1>3. Exclusive'
    BY DEF Typed, Exclusive, InUse, FetchCommitted, Stable, idVars, resultVars, clientVars
<1>4. Contents'
    BY DEF Typed, Contents, ContentsOf, Running, FetchCommitted, Stable, idVars,
           resultVars, clientVars
<1>5. Following'
    BY Zenon DEF Typed, Following, Follows, Base, Running, FetchCommitted, Stable, idVars,
           resultVars, clientVars
<1>6. Pending'
    BY DEF Typed, Pending, Running, FetchCommitted, Stable, idVars, resultVars, clientVars
<1>7. Reported'
    BY Zenon DEF Typed, Reported, FetchCommitted, Stable, idVars, resultVars, clientVars
<1> QED
    BY <1>1, <1>2, <1>3, <1>4, <1>5, <1>6, <1>7 DEF IInv

LEMMA BeginTransactionStep ==
    ASSUME IInv, NEW a \in Apps, BeginTransaction(a), Fixed
    PROVE  IInv'
<1>0. Typed /\ Calls /\ Exclusive /\ Contents /\ Following /\ Pending /\ Reported
    BY DEF IInv
<1> USE <1>0, TransactionsAssumption DEF Fixed, Current, None, Inputs
<1>8. /\ UNCHANGED <<fenced, wrote, offs, queue, pos, sent, endtxn, committed, owner, gen, told>>
      /\ \A b \in Apps \ {a} : phase'[b] = phase[b] /\ st'[b] = st[b] /\ start'[b] = start[b]
      /\ phase[a] = "idle" /\ phase'[a] = "work" /\ st'[a] = "txn"
      /\ start'[a] = pos[a] /\ pos[a] \in Inputs
    BY Zenon DEF BeginTransaction, Typed, idVars, resultVars
<1>1. Typed'
    BY Zenon DEF Typed, BeginTransaction, idVars, resultVars
<1>2. Calls'
    <2>1. pos[a] # None /\ sent[a] = None /\ queue[a] = {} /\ endtxn[a] = "none"
        BY <1>8 DEF Calls
    <2> QED
        BY <1>8, <2>1 DEF Calls, CallsAreValid, Running
<1>3. Exclusive'
    BY <1>8 DEF Exclusive, InUse
<1>4. Contents'
    <2>1. /\ UNCHANGED <<fenced, wrote, offs, queue, pos, sent, endtxn>>
          /\ \A b \in Apps \ {a} : phase'[b] = phase[b] /\ st'[b] = st[b] /\ start'[b] = start[b]
          /\ phase'[a] = "work" /\ start'[a] = pos[a] /\ phase[a] = "idle" /\ pos[a] \in Inputs
        BY Zenon, <1>8
    <2>2. \A b \in Apps \ {a} : (Current(b) => ContentsOf(b)) => (Current(b) => ContentsOf(b))'
        BY Zenon, <2>1 DEF ContentsOf
    <2>3. queue[a] = {} /\ sent[a] # pos[a]
        BY <2>1 DEF Calls
    <2>4. Current(a) => wrote[Tid(a)] = {}
        BY Zenon, <2>1 DEF Contents, ContentsOf
    <2>5. pos[a]..(pos[a] - 1) = {}
        BY <2>1
    <2>6. (Current(a) => wrote[Tid(a)] \cup queue[a] = start[a]..(pos[a] - 1))'
        BY <2>1, <2>3, <2>4, <2>5, Zenon
    <2>7. (Current(a) => ContentsOf(a))'
        BY Zenon, <2>1, <2>3, <2>6 DEF ContentsOf
    <2> QED
        BY Zenon, <2>2, <2>7 DEF Contents
<1>5. Following'
    BY <1>8 DEF Following, Follows, Base, Running
<1>6. Pending'
    <2>1. endtxn[a] = "none" /\ (Current(a) => offs[Tid(a)] = None)
        BY Zenon, <1>8 DEF Calls, Contents, ContentsOf
    <2> QED
        BY <1>8, <2>1 DEF Pending
<1>7. Reported'
    BY Zenon, <1>8 DEF Reported
<1> QED
    BY <1>1, <1>2, <1>3, <1>4, <1>5, <1>6, <1>7 DEF IInv

LEMMA SendStep ==
    ASSUME IInv, NEW a \in Apps, Send(a), Fixed
    PROVE  IInv'
<1>0. Typed /\ Calls /\ Exclusive /\ Contents /\ Following /\ Pending /\ Reported
    BY DEF IInv
<1> USE <1>0, TransactionsAssumption DEF Fixed, Current, None, Inputs
<1>1. Typed'
    BY DEF Typed, Calls, CallsAreValid, Send, React, idVars, resultVars
<1>2. Calls'
    BY DEF Typed, Calls, CallsAreValid, Running, Send, React, idVars, resultVars
<1>3. Exclusive'
    BY DEF Typed, Exclusive, InUse, Calls, CallsAreValid, Send, React, idVars, resultVars
<1>4. Contents'
    <2>1. /\ UNCHANGED <<fenced, wrote, offs, st, start, sent, endtxn>>
          /\ \A b \in Apps \ {a} : phase'[b] = phase[b] /\ queue'[b] = queue[b] /\ pos'[b] = pos[b]
        BY Zenon DEF Send, React, Typed, idVars
    <2>2. \A b \in Apps \ {a} : (Current(b) => ContentsOf(b)) => (Current(b) => ContentsOf(b))'
        BY Zenon, <2>1 DEF ContentsOf
    <2>3. CASE st[a] = "txn"
        <3>1. /\ phase' = phase /\ phase[a] = "work"
              /\ queue'[a] = queue[a] \cup {pos[a]} /\ pos'[a] = pos[a] + 1
              /\ endtxn[a] = "none" /\ sent[a] <= pos[a] /\ start[a] <= pos[a]
            BY Zenon, <2>3 DEF Send, Typed, Calls, Running
        <3>2. start[a] \in Int /\ pos[a] \in Int /\ sent[a] \in Int /\ sent[a] # pos'[a]
            BY <3>1 DEF Typed
        <3>3. start[a]..(pos'[a] - 1) = (start[a]..(pos[a] - 1)) \cup {pos[a]}
            BY <3>1, <3>2
        <3>4. Current(a) => wrote[Tid(a)] \cup queue[a] = start[a]..(pos[a] - 1)
            <4>1. Current(a) => ContentsOf(a)
                BY Zenon DEF Contents
            <4> QED
                BY Zenon, <2>3, <3>1, <4>1 DEF ContentsOf, Running
        <3>5. (Current(a) => ContentsOf(a))'
            BY Zenon, <2>1, <3>1, <3>2, <3>3, <3>4 DEF ContentsOf
        <3> QED
            BY <2>2, <3>5 DEF Contents
    <2>4. CASE st[a] # "txn"
        <3>1. phase'[a] \in {"abort", "stop"} /\ st[a] \in {"abortable", "fatal"}
            BY Zenon, <2>4 DEF Send, React, Typed, Calls, CallsAreValid
        <3>2. (Current(a) => ContentsOf(a))'
            BY Zenon, <2>1, <3>1 DEF ContentsOf
        <3> QED
            BY <2>2, <3>2 DEF Contents
    <2> QED
        BY Zenon, <2>3, <2>4
<1>5. Following'
    BY DEF Typed, Following, Follows, Base, Running, Calls, CallsAreValid, Send, React,
           idVars, resultVars
<1>6. Pending'
    BY DEF Typed, Pending, Running, Send, React, idVars, resultVars
<1>7. Reported'
    BY DEF Typed, Reported, Calls, CallsAreValid, Send, React, idVars, resultVars
<1> QED
    BY <1>1, <1>2, <1>3, <1>4, <1>5, <1>6, <1>7 DEF IInv

LEMMA SendOffsetsToTransactionStep ==
    ASSUME IInv, NEW a \in Apps, SendOffsetsToTransaction(a), Fixed
    PROVE  IInv'
<1>0. Typed /\ Calls /\ Exclusive /\ Contents /\ Following /\ Pending /\ Reported
    BY DEF IInv
<1> USE <1>0, TransactionsAssumption DEF Fixed, Current, None, Inputs
<1>1. Typed'
    BY DEF Typed, Calls, CallsAreValid, SendOffsetsToTransaction, Fault, React, resultVars,
           consumerVars
<1>8. /\ UNCHANGED <<fenced, wrote, start, pos, committed, endtxn, owner, gen, queue, told>>
      /\ \A b \in Apps \ {a} : phase'[b] = phase[b] /\ st'[b] = st[b] /\ sent'[b] = sent[b]
      /\ phase[a] = "work" /\ phase'[a] \in {"work", "abort", "stop"}
      /\ sent'[a] \in {sent[a], pos[a]} /\ pos[a] # start[a]
      /\ phase'[a] = "abort" => st'[a] = "abortable"
      /\ phase'[a] = "stop" => st'[a] = "fatal"
      /\ phase'[a] = "work" => st'[a] = st[a]
      /\ endtxn[a] = "none"
    BY DEF SendOffsetsToTransaction, React, Typed, Calls, CallsAreValid, resultVars, consumerVars
<1>2. Calls'
    <2>1. start[a] # None /\ start[a] <= pos[a] /\ sent[a] <= pos[a]
        BY Zenon, <1>8 DEF Calls, Running
    <2>2. start[a] \in Int /\ pos[a] \in Int /\ sent[a] \in Int
        BY DEF Typed
    <2> QED
        BY <1>8, <2>1, <2>2 DEF Calls, CallsAreValid, Running
<1>3. Exclusive'
    <2>1. CASE UNCHANGED offs
        BY <1>8, <2>1 DEF Exclusive, InUse
    <2>2. CASE offs' # offs
        <3>1. Current(a) /\ gen[a] = "current" /\ offs' = [offs EXCEPT ![Tid(a)] = pos[a]]
            BY Zenon, <2>2 DEF SendOffsetsToTransaction
        <3>2. Follows(a)
            BY Zenon, <1>8, <3>1 DEF Follows, Base, Running, Calls
        <3>3. \A t \in Apps : offs[t] # None => t = Tid(a)
            BY Zenon, <3>2 DEF Following
        <3>4. \A t \in Apps : offs'[t] # None => t = Tid(a)
            BY Zenon, <3>1, <3>3 DEF Typed
        <3> QED
            BY <1>8, <3>4 DEF Exclusive, InUse
    <2> QED
        BY Zenon, <2>1, <2>2
<1>4. Contents'
    BY DEF Typed, Contents, ContentsOf, Running, Calls, CallsAreValid, Exclusive, InUse,
           SendOffsetsToTransaction, Fault, React, resultVars, consumerVars
<1>5. Following'
    BY DEF Typed, Following, Follows, Base, Running, Calls, CallsAreValid, Exclusive,
           Contents, ContentsOf, Pending, InUse, SendOffsetsToTransaction, Fault, React,
           resultVars, consumerVars
<1>6. Pending'
    <2>1. /\ UNCHANGED <<fenced, wrote, start, committed, endtxn>>
          /\ \A b \in Apps \ {a} : phase'[b] = phase[b]
          /\ phase[a] = "work" /\ endtxn[a] = "none"
        BY DEF SendOffsetsToTransaction, React, Typed, Calls, resultVars, consumerVars
    <2>2. CASE UNCHANGED offs
        BY Zenon, <2>1, <2>2 DEF Pending, Running
    <2>3. CASE offs' # offs
        <3>1. Current(a) /\ gen[a] = "current" /\ offs' = [offs EXCEPT ![Tid(a)] = pos[a]]
            BY <2>3 DEF SendOffsetsToTransaction
        <3>2. start[a] = committed
            BY Zenon, <2>1, <3>1 DEF Following, Follows, Base, Running, Calls
        <3>3. \A b \in Apps \ {a} : Current(b) /\ Tid(b) = Tid(a) => ~InUse(b)
            BY Zenon, <2>1, <3>1 DEF Exclusive, InUse
        <3>4. ASSUME NEW b \in Apps \ {a}, Current(b), Tid(b) = Tid(a)
              PROVE  phase[b] \notin Running /\ endtxn[b] # "sent"
            BY Zenon, <3>3, <3>4 DEF InUse, Running
        <3>5. \A t \in Apps : t # Tid(a) => offs'[t] = offs[t]
            BY Zenon, <3>1 DEF Typed
        <3> QED
            BY <2>1, <3>2, <3>4, <3>5 DEF Pending
    <2> QED
        BY Zenon, <2>2, <2>3
<1>7. Reported'
    <2>1. /\ UNCHANGED <<told, committed, endtxn>>
          /\ \A b \in Apps \ {a} : phase'[b] = phase[b] /\ sent'[b] = sent[b]
          /\ phase'[a] # "commit"
        BY DEF SendOffsetsToTransaction, React, Typed, Calls, CallsAreValid, resultVars
    <2> QED
        BY Zenon, <2>1 DEF Reported
<1> QED
    BY <1>1, <1>2, <1>3, <1>4, <1>5, <1>6, <1>7 DEF IInv

LEMMA CommitTransactionStep ==
    ASSUME IInv, NEW a \in Apps, CommitTransaction(a), Fixed
    PROVE  IInv'
<1>0. Typed /\ Calls /\ Exclusive /\ Contents /\ Following /\ Pending /\ Reported
    BY DEF IInv
<1> USE <1>0, TransactionsAssumption DEF Fixed, Current, None, Inputs
<1>1. Typed'
    BY DEF Typed, Calls, CallsAreValid, CommitTransaction, Fault, RequestCommit, React,
           idVars, resultVars, consumerVars
<1>2. Calls'
    BY DEF Typed, Calls, CallsAreValid, Running, CommitTransaction, Fault, RequestCommit,
           React, idVars, resultVars, consumerVars
<1>3. Exclusive'
    BY DEF Typed, Exclusive, InUse, Calls, CallsAreValid, CommitTransaction, Fault,
           RequestCommit, React, idVars, resultVars, consumerVars
<1>4. Contents'
    BY DEF Typed, Contents, ContentsOf, Running, Calls, CallsAreValid, CommitTransaction,
           Fault, RequestCommit, React, idVars, resultVars, consumerVars
<1>5. Following'
    BY DEF Typed, Following, Follows, Base, Running, Calls, CallsAreValid,
           CommitTransaction, Fault, RequestCommit, React, idVars, resultVars, consumerVars
<1>6. Pending'
    <2>1. /\ UNCHANGED <<fenced, wrote, offs, start, committed>>
          /\ \A b \in Apps \ {a} : phase'[b] = phase[b] /\ endtxn'[b] = endtxn[b]
          /\ phase[a] \in Running /\ endtxn[a] = "none"
        BY DEF CommitTransaction, RequestCommit, React, Typed, idVars, resultVars, consumerVars,
               Calls, Running
    <2>2. CASE endtxn'[a] = "sent"
        <3>1. st[a] = "txn" /\ queue[a] = {} /\ sent[a] = pos[a]
            BY Zenon, <2>1, <2>2 DEF CommitTransaction, RequestCommit, Typed
        <3>2. start[a] # None /\ start[a] <= pos[a] /\ (sent[a] # None => start[a] < sent[a])
            BY Zenon, <2>1 DEF Calls
        <3>3. start[a] \in 0..End /\ pos[a] \in 0..End /\ start[a] < pos[a]
            BY <3>1, <3>2 DEF Typed
        <3>4. Current(a) => offs[Tid(a)] = pos[a] /\ wrote[Tid(a)] = start[a]..(pos[a] - 1)
            <4>1. Current(a) => ContentsOf(a)
                BY DEF Contents
            <4> QED
                BY Zenon, <2>1, <3>1, <4>1 DEF ContentsOf
        <3>5. Current(a) => start[a] = committed
            BY <2>1, <3>3, <3>4 DEF Pending
        <3> QED
            BY <2>1, <3>3, <3>4, <3>5 DEF Pending
    <2>3. CASE endtxn'[a] # "sent"
        BY Zenon, <2>1, <2>3 DEF Pending
    <2> QED
        BY Zenon, <2>2, <2>3
<1>7. Reported'
    BY DEF Typed, Reported, Calls, CallsAreValid, CommitTransaction, Fault, RequestCommit,
           React, idVars, resultVars, consumerVars
<1> QED
    BY <1>1, <1>2, <1>3, <1>4, <1>5, <1>6, <1>7 DEF IInv

LEMMA CommitReturnsStep ==
    ASSUME IInv, NEW a \in Apps, CommitReturns(a), Fixed
    PROVE  IInv'
<1>0. Typed /\ Calls /\ Exclusive /\ Contents /\ Following /\ Pending /\ Reported
    BY DEF IInv
<1> USE <1>0, TransactionsAssumption DEF Fixed, Current, None, Inputs
<1>1. Typed'
    <2>1. pos' \in {pos, [pos EXCEPT ![a] = None]}
        <3>1. pos \in [Apps -> {None} \cup 0..End]
            BY Zenon DEF Typed
        <3> QED
            BY Zenon, <3>1 DEF CommitReturns, Over
    <2>2. start' \in {start, [start EXCEPT ![a] = None]} /\ sent' \in {sent, [sent EXCEPT ![a] = None]}
        BY Zenon DEF CommitReturns, Over
    <2>3. /\ st' \in {[st EXCEPT ![a] = "ready"], [st EXCEPT ![a] = "fatal"], st}
          /\ endtxn' \in {endtxn, [endtxn EXCEPT ![a] = "none"]}
          /\ \E p \in {"idle", "commit", "stop"} : phase' = [phase EXCEPT ![a] = p]
        BY Zenon DEF CommitReturns, Over, React
    <2>4. sent[a] \in {None} \cup 0..End /\ told \in 0..End
        BY Zenon DEF Typed
    <2>5. told' \in 0..End
        BY <2>4 DEF CommitReturns
    <2>6. UNCHANGED <<fenced, wrote, offs, committed, queue, gen>>
        BY Zenon DEF CommitReturns, idVars, resultVars
    <2>7. /\ pos' \in [Apps -> {None} \cup 0..End]
          /\ start' \in [Apps -> {None} \cup 0..End]
          /\ sent' \in [Apps -> {None} \cup 0..End]
        BY Zenon, <2>1, <2>2 DEF Typed
    <2>8. /\ st' \in [Apps -> {"created", "ready", "txn", "committing", "abortable", "fatal"}]
          /\ endtxn' \in [Apps -> {"none", "sent", "done", "refused"}]
          /\ phase' \in [Apps -> {"off", "start", "idle", "work", "commit", "abort", "stop"}]
        BY <2>3 DEF Typed
    <2> QED
        BY Zenon, <2>5, <2>6, <2>7, <2>8 DEF Typed
<1>2. Calls'
    BY DEF Typed, Calls, CallsAreValid, Running, CommitReturns, Fault, Over, React, idVars,
           resultVars
<1>3. Exclusive'
    <2>1. /\ UNCHANGED <<fenced, offs, owner, gen>>
          /\ phase[a] = "commit" /\ phase'[a] \notin {"off", "start"}
          /\ \A b \in Apps \ {a} : phase'[b] = phase[b] /\ endtxn'[b] = endtxn[b]
        BY DEF CommitReturns, Over, React, Typed, idVars
    <2> QED
        BY <2>1 DEF Exclusive, InUse
<1>4. Contents'
    BY DEF Typed, Contents, ContentsOf, Running, CommitReturns, Fault, Over, React, idVars,
           resultVars
<1>5. Following'
    BY DEF Typed, Following, Follows, Base, Running, CommitReturns, Fault, Over, React,
           idVars, resultVars
<1>6. Pending'
    BY DEF Typed, Pending, Running, CommitReturns, Fault, Over, React, idVars, resultVars
<1>7. Reported'
    BY DEF Typed, Reported, CommitReturns, Fault, Over, React, idVars, resultVars
<1> QED
    BY <1>1, <1>2, <1>3, <1>4, <1>5, <1>6, <1>7 DEF IInv

LEMMA AbortsStep ==
    ASSUME IInv, NEW a \in Apps, phase[a] \in {"work", "abort"}, Aborts(a),
           Fixed
    PROVE  IInv'
<1>0. Typed /\ Calls /\ Exclusive /\ Contents /\ Following /\ Pending /\ Reported
    BY Zenon DEF IInv
<1> USE <1>0, TransactionsAssumption DEF Fixed, Current, None, Inputs
<1>1. Typed'
    <2>1. wrote' \in [Apps -> SUBSET Inputs] /\ offs' \in [Apps -> {None} \cup 0..End]
        BY Zenon DEF Typed, Aborts, Discard
    <2>2. /\ pos' \in [Apps -> {None} \cup 0..End]
          /\ start' \in [Apps -> {None} \cup 0..End]
          /\ sent' \in [Apps -> {None} \cup 0..End]
        BY Zenon DEF Typed, Aborts, Over
    <2>3. /\ st' \in [Apps -> {"created", "ready", "txn", "committing", "abortable", "fatal"}]
          /\ endtxn' \in [Apps -> {"none", "sent", "done", "refused"}]
        BY DEF Typed, Aborts, Over
    <2>4. phase' \in [Apps -> {"off", "start", "idle", "work", "commit", "abort", "stop"}]
        BY DEF Typed, Aborts, React, Over
    <2>5. queue' \in [Apps -> SUBSET Inputs]
        BY Zenon DEF Typed, Aborts
    <2> QED
        BY Zenon, <2>1, <2>2, <2>3, <2>4, <2>5 DEF Typed, Aborts, resultVars
<1>2. Calls'
    BY DEF Typed, Calls, CallsAreValid, Running, Aborts, React, Discard, Over, resultVars
<1>3. Exclusive'
    <2>1. /\ UNCHANGED <<fenced, owner, gen>>
          /\ phase'[a] # "off" /\ phase'[a] # "start"
          /\ \A b \in Apps \ {a} : phase'[b] = phase[b] /\ endtxn'[b] = endtxn[b]
          /\ endtxn'[a] = "none"
          /\ \A t \in Apps : offs'[t] # None => offs[t] # None
        <3>1. CASE st[a] = "fatal" \/ reports[a] \/ queue[a] # {} \/ ~Current(a)
            BY <3>1 DEF Aborts, React, Typed, Calls
        <3>2. CASE ~(st[a] = "fatal" \/ reports[a] \/ queue[a] # {} \/ ~Current(a))
            BY <3>2 DEF Aborts, Discard, Over, Typed, Calls
        <3> QED
            BY Zenon, <3>1, <3>2
    <2> QED
        BY <2>1 DEF Exclusive, InUse
<1>4. Contents'
    BY DEF Typed, Contents, ContentsOf, Running, Calls, CallsAreValid, Exclusive, InUse,
           Aborts, React, Discard, Over, resultVars
<1>5. Following'
    BY DEF Typed, Following, Follows, Base, Running, Aborts, React, Discard, Over,
           resultVars
<1>6. Pending'
    <2>1. UNCHANGED <<fenced, committed>>
        BY Zenon DEF Aborts, resultVars
    <2>2. CASE st[a] = "fatal" \/ reports[a] \/ queue[a] # {} \/ ~Current(a)
        <3>1. /\ UNCHANGED <<wrote, offs, endtxn, start>>
              /\ \A b \in Apps \ {a} : phase'[b] = phase[b]
            BY Zenon, <2>2 DEF Aborts, React, Typed
        <3> QED
            BY Zenon, <2>1, <3>1 DEF Pending, Running
    <2>3. CASE ~(st[a] = "fatal" \/ reports[a] \/ queue[a] # {} \/ ~Current(a))
        <3>1. /\ \A b \in Apps \ {a} :
                    phase'[b] = phase[b] /\ endtxn'[b] = endtxn[b] /\ start'[b] = start[b]
              /\ phase'[a] = "idle" /\ endtxn'[a] = "none"
              /\ \A t \in Apps \ {Tid(a)} : offs'[t] = offs[t] /\ wrote'[t] = wrote[t]
              /\ offs'[Tid(a)] = None
            BY <2>3 DEF Aborts, Discard, Over, Typed
        <3>2. \A b \in Apps : InUse(b) /\ Current(b) /\ Tid(b) = Tid(a) => b = a
            BY Zenon, <2>3 DEF Exclusive, InUse
        <3> QED
            BY <2>1, <3>1, <3>2 DEF Pending, Running, InUse
    <2> QED
        BY Zenon, <2>2, <2>3
<1>7. Reported'
    BY DEF Typed, Reported, Aborts, React, Discard, Over, resultVars
<1> QED
    BY Zenon, <1>1, <1>2, <1>3, <1>4, <1>5, <1>6, <1>7 DEF IInv

-----------------------------------------------------------------------------
(* Theorems *)

LEMMA InitIInv == Init => IInv
<1> SUFFICES ASSUME Init PROVE IInv
    OBVIOUS
<1> USE TransactionsAssumption DEF Init, None
<1>1. Typed
    BY DEF Typed
<1>2. Calls
    BY Zenon DEF Calls, CallsAreValid, Running
<1>3. Exclusive /\ Following /\ Reported
    BY DEF Exclusive, InUse, Following, Follows, Reported
<1>4. Contents /\ Pending
    BY Zenon DEF Contents, ContentsOf, Pending, Running
<1> QED
    BY Zenon, <1>1, <1>2, <1>3, <1>4 DEF IInv

\* Every action leaves the transactional ids alone.
LEMMA NextFixed == Next => Fixed
<1> SUFFICES ASSUME Next PROVE shared' = shared
    BY Zenon, TidFixed
<1>1. PICK a \in Apps : Environment(a) \/ Instance(a)
    BY Zenon DEF Next
<1>2. CASE Environment(a)
    BY <1>2, Zenon DEF Environment, EndTxn, TxnTimeout, GroupRebalances, Delivered, MessageFails,
                       Poll, Crash, Ends
<1>3. CASE TransactionalCall(a)
    BY <1>3, Zenon DEF TransactionalCall, InitTransactions, BeginTransaction,
                       SendOffsetsToTransaction, CommitTransaction, CommitReturns,
                       AbortTransaction, GiveUp, Aborts
<1>4. CASE Create(a) \/ Terminate(a) \/ Joins(a) \/ LearnsLoss(a) \/ FetchCommitted(a) \/ Send(a)
    BY <1>4, Zenon DEF Create, Terminate, Ends, Joins, LearnsLoss, FetchCommitted, Send
<1> QED
    BY Zenon, <1>1, <1>2, <1>3, <1>4 DEF Instance

\* A step that changes nothing keeps each part of the invariant.
LEMMA StutterTyped == Typed /\ UNCHANGED vars => Typed'
    BY Zenon DEF Typed, vars, idVars, resultVars, clientVars, consumerVars

LEMMA StutterCalls == Calls /\ UNCHANGED vars => Calls'
    BY DEF Calls, CallsAreValid, Running, vars, idVars, clientVars, consumerVars

LEMMA StutterExclusive == Exclusive /\ UNCHANGED vars => Exclusive'
    BY DEF Exclusive, InUse, Current, Tid, vars, idVars, clientVars, consumerVars

LEMMA StutterContents == Contents /\ UNCHANGED vars => Contents'
    BY DEF Contents, ContentsOf, Running, Current, Tid, vars, idVars, clientVars, consumerVars

LEMMA StutterFollowing == Following /\ UNCHANGED vars => Following'
    BY DEF Following, Follows, Base, Running, Current, Tid, vars, idVars, resultVars,
           clientVars, consumerVars

LEMMA StutterPending == Pending /\ UNCHANGED vars => Pending'
    BY DEF Pending, Running, Current, Tid, vars, idVars, resultVars, clientVars, consumerVars

LEMMA StutterReported == Reported /\ UNCHANGED vars => Reported'
    BY Zenon DEF Reported, vars, resultVars, clientVars

LEMMA Stutter == IInv /\ UNCHANGED vars => IInv'
    BY Zenon, StutterTyped, StutterCalls, StutterExclusive, StutterContents, StutterFollowing,
       StutterPending, StutterReported DEF IInv

LEMMA IInvStep == IInv /\ [Next]_vars => IInv'
<1> SUFFICES ASSUME IInv, [Next]_vars PROVE IInv'
    OBVIOUS
<1>1. CASE Next
    <2>0. Fixed
        BY Zenon, <1>1, NextFixed
    <2>1. PICK a \in Apps : Environment(a) \/ Instance(a)
        BY Zenon, <1>1 DEF Next
    <2>2. CASE Environment(a)
        BY Zenon, <2>0, <2>2, EndTxnStep, TxnTimeoutStep, GroupRebalancesStep, DeliveredStep,
           MessageFailsStep, PollStep, CrashStep DEF Environment
    <2>3. CASE AbortTransaction(a) \/ GiveUp(a)
        <3>1. phase[a] \in {"work", "abort"} /\ Aborts(a)
            BY Zenon, <2>3 DEF AbortTransaction, GiveUp
        <3> QED
            BY Zenon, <2>0, <3>1, AbortsStep
    <2>4. CASE TransactionalCall(a)
        BY Zenon, <2>0, <2>3, <2>4, InitTransactionsStep, BeginTransactionStep,
           SendOffsetsToTransactionStep, CommitTransactionStep, CommitReturnsStep
           DEF TransactionalCall
    <2> QED
        BY Zenon, <2>0, <2>1, <2>2, <2>4, CreateStep, TerminateStep, JoinsStep, LearnsLossStep,
           FetchCommittedStep, SendStep DEF Instance
<1>2. CASE UNCHANGED vars
    BY Zenon, <1>2, Stutter
<1> QED
    BY Zenon, <1>1, <1>2

\* In every behaviour one transaction at most can move the committed offset, it
\* starts there, and its outputs are those of the inputs it covers.
THEOREM TransactionsInvariance == Spec => []IInv
<1> QED
    BY InitIInv, IInvStep, PTL DEF Spec

\* A commit that commit_transaction has reported as Ok has taken place.
THEOREM OkIsTrue == Spec => []OkIsCommitted
<1>1. IInv => OkIsCommitted
    BY Zenon DEF IInv, Reported, OkIsCommitted
<1> QED
    BY <1>1, TransactionsInvariance, PTL

\* The application that follows the classes of RDKafkaError makes no call that
\* librdkafka refuses in the state of the transaction.
THEOREM CallsFollowTheState == Spec => []CallsAreValid
<1>1. IInv => CallsAreValid
    BY Zenon DEF IInv, Calls
<1> QED
    BY <1>1, TransactionsInvariance, PTL

\* What a step makes visible: nothing, or the outputs of the inputs between the old
\* and the new committed offset.
LEMMA PipelineStep == IInv /\ [Next]_vars => [Pipeline!Next]_(Pipeline!vars)
<1> SUFFICES ASSUME IInv, [Next]_vars PROVE [Pipeline!Next]_(Pipeline!vars)
    OBVIOUS
<1>1. ASSUME NEW a \in Apps, EndTxn(a), Current(a) PROVE Pipeline!Next
    <2> DEFINE n == offs[Tid(a)]
    <2>1. Tid(a) \in Apps
        BY Zenon, <1>1, TidFixed DEF Fixed, EndTxn
    <2>2. n # None /\ committed < n /\ wrote[Tid(a)] = committed..(n - 1)
        BY Zenon, <1>1 DEF IInv, Pending, EndTxn
    <2>3. n \in 0..End /\ committed \in 0..End /\ End \in Nat /\ committed < n
        BY Zenon, <2>1, <2>2, TransactionsAssumption DEF IInv, Typed
    <2>4. /\ committed' = n
          /\ visible' = [i \in Inputs |-> IF i \in wrote[Tid(a)] THEN visible[i] + 1 ELSE visible[i]]
        BY ZenonT(40), <1>1, <2>2 DEF EndTxn
    <2> HIDE DEF n
    <2>5. n \in (committed + 1)..End
        BY <2>3
    <2>6. Pipeline!Advance(n)
        BY Zenon, <2>2, <2>4 DEF Pipeline!Advance, Pipeline!Inputs, Inputs
    <2> QED
        BY Zenon, <2>5, <2>6 DEF Pipeline!Next
<1>2. CASE Next
    <2>1. PICK a \in Apps : Environment(a) \/ Instance(a)
        BY <1>2 DEF Next
    <2>2. (EndTxn(a) /\ Current(a)) \/ UNCHANGED <<committed, visible>>
        <3>1. CASE Environment(a)
            BY <3>1, Zenon DEF Environment, EndTxn, TxnTimeout, GroupRebalances, Delivered,
                               MessageFails, Poll, Crash, Ends, resultVars
        <3>2. CASE TransactionalCall(a)
            BY <3>2, Zenon DEF TransactionalCall, InitTransactions, BeginTransaction,
                               SendOffsetsToTransaction, CommitTransaction, CommitReturns,
                               AbortTransaction, GiveUp, Aborts, resultVars
        <3>3. CASE \/ Create(a) \/ Terminate(a) \/ Joins(a) \/ LearnsLoss(a)
                   \/ FetchCommitted(a) \/ Send(a)
            BY <3>3, Zenon DEF Create, Terminate, Ends, Joins, LearnsLoss, FetchCommitted, Send,
                               resultVars
        <3> QED
            BY Zenon, <2>1, <3>1, <3>2, <3>3 DEF Instance
    <2> QED
        BY Zenon, <1>1, <2>2 DEF Pipeline!vars
<1>3. CASE UNCHANGED vars
    BY Zenon, <1>3 DEF vars, resultVars, Pipeline!vars
<1> QED
    BY Zenon, <1>2, <1>3

\* The transactional pipeline implements ExactlyOnce: each input that counts as
\* consumed has one visible output, whatever instances crash, are fenced or time out.
THEOREM PipelineRefinement == Spec => ExactlyOncePipeline
<1>1. Init => Pipeline!Init
    BY Zenon DEF Init, Pipeline!Init, Inputs, Pipeline!Inputs
<1> QED
    BY <1>1, PipelineStep, TransactionsInvariance, PTL DEF Spec, ExactlyOncePipeline, Pipeline!Spec

=============================================================================
