---------------------------- MODULE Transactions ----------------------------
(***************************************************************************)
(* The transactional calls of the Producer trait (src/producer/mod.rs) as  *)
(* BaseProducer implements them (src/producer/base_producer.rs; the        *)
(* threaded and the future producer delegate to it), in an application     *)
(* that consumes an input partition, sends one output for each input and   *)
(* ties the consumed offset to the transaction.                            *)
(*                                                                         *)
(* phase[a] is what the application a has been told by the calls it made;  *)
(* st[a] is the transaction state inside librdkafka.  Applications crash,  *)
(* are restarted too early (so that two of them are at work), lose their   *)
(* partition in a rebalance, and their requests time out.  The transaction *)
(* coordinator, the group coordinator and librdkafka's half of every call  *)
(* are external.                                                           *)
(***************************************************************************)
EXTENDS Integers, FiniteSets

CONSTANTS
    Apps,        \* the application instances
    Threaded,    \* those whose producer has a polling thread
    Nobody,      \* no instance
    End,         \* the number of inputs
    MaxFaults    \* bound: crashes, timeouts, failed messages, rebalances

ASSUME TransactionsAssumption ==
    /\ Threaded \subseteq Apps
    /\ Nobody \notin Apps
    /\ End \in Nat
    /\ MaxFaults \in Nat

None == -1           \* no offset

VARIABLES
    shared,      \* whether all instances use the same transactional.id
    fenced,      \* the instances whose producer epoch is out of date
    wrote,       \* wrote[t]: the outputs in the open transaction of t
    offs,        \* offs[t]: the offset in the open transaction of t
    committed,   \* the committed offset of the input partition
    visible,     \* visible[i]: outputs of i a read_committed consumer reads
    owner,       \* the instance that has the input partition
    st,          \* st[a]: the transaction state of the producer of a
    queue,       \* queue[a]: the outputs it has not delivered
    reports,     \* reports[a]: whether delivery reports wait to be served
    endtxn,      \* endtxn[a]: its request to commit
    gen,         \* gen[a]: the group generation the consumer of a knows of
    pos,         \* pos[a]: its position
    start,       \* start[a]: its position when the transaction began
    sent,        \* sent[a]: the offset a has tied to its transaction
    phase,       \* phase[a]: what a has to do next
    told,        \* the largest offset whose commit was reported successful
    faults       \* how many faults there have been

idVars == <<fenced, wrote, offs>>
resultVars == <<committed, visible>>
clientVars == <<st, queue, reports, endtxn>>
consumerVars == <<gen, pos, start>>
vars == <<shared, idVars, resultVars, owner, clientVars, consumerVars,
          sent, phase, told, faults>>

Inputs == 0..(End - 1)

TypeOK ==
    /\ shared \in BOOLEAN
    /\ fenced \subseteq Apps
    /\ wrote \in [Apps -> SUBSET Inputs]
    /\ offs \in [Apps -> {None} \cup 0..End]
    /\ committed \in 0..End
    /\ visible \in [Inputs -> Nat]
    /\ owner \in Apps \cup {Nobody}
    /\ st \in [Apps -> {"created",      \* transactions are not initialised
                        "ready",        \* no transaction is open
                        "txn",
                        "committing",   \* the request to commit is out
                        "abortable",    \* the transaction must be aborted
                        "fatal"}]       \* the producer cannot be used any more
    /\ queue \in [Apps -> SUBSET Inputs]
    /\ reports \in [Apps -> BOOLEAN]
    /\ endtxn \in [Apps -> {"none", "sent", "done", "refused"}]
    /\ gen \in [Apps -> {"none", "current", "stale"}]
    /\ pos \in [Apps -> {None} \cup 0..End]
    /\ start \in [Apps -> {None} \cup 0..End]
    /\ sent \in [Apps -> {None} \cup 0..End]
    /\ phase \in [Apps -> {"off", "start", "idle", "work", "commit", "abort", "stop"}]
    /\ told \in 0..End
    /\ faults \in 0..MaxFaults

----------------------------------------------------------------------------
(* The coordinators (external)                                             *)

(* The transactional.id of an instance *)
Tid(a) == IF shared THEN CHOOSE b \in Apps : TRUE ELSE a

(* The coordinator takes requests of the latest epoch only. *)
Current(a) == a \notin fenced

Fault == faults < MaxFaults /\ faults' = faults + 1

(* A transaction ends without a result. *)
Discard(t) ==
    /\ wrote' = [wrote EXCEPT ![t] = {}]
    /\ offs' = [offs EXCEPT ![t] = None]

(* The fetch of a committed offset waits while a transaction holds one. *)
Stable == \A t \in Apps : offs[t] = None

(* The coordinator receives the request to commit. *)
EndTxn(a) ==
    /\ endtxn[a] = "sent"
    /\ IF Current(a)
         THEN /\ endtxn' = [endtxn EXCEPT ![a] = "done"]
              /\ committed' = IF offs[Tid(a)] = None THEN committed ELSE offs[Tid(a)]
              /\ visible' = [i \in Inputs |-> IF i \in wrote[Tid(a)]
                                                THEN visible[i] + 1 ELSE visible[i]]
              /\ Discard(Tid(a))
         ELSE /\ endtxn' = [endtxn EXCEPT ![a] = "refused"]
              /\ UNCHANGED <<resultVars, wrote, offs>>
    /\ UNCHANGED <<shared, fenced, owner, st, queue, reports, consumerVars,
                   sent, phase, told, faults>>

(* transaction.timeout.ms has passed: the coordinator aborts.  It is a     *)
(* fault of the instance that has the transaction open, if there is one.   *)
TxnTimeout(t) ==
    /\ wrote[t] # {} \/ offs[t] # None
    /\ IF \E a \in Apps : Tid(a) = t /\ Current(a) /\ phase[a] # "off"
         THEN Fault ELSE UNCHANGED faults
    /\ fenced' = fenced \cup {a \in Apps : Tid(a) = t}
    /\ Discard(t)
    /\ UNCHANGED <<shared, resultVars, owner, clientVars, consumerVars,
                   sent, phase, told>>

(* The group gives the partition to an instance: the one that had it has   *)
(* ended, or is taken for dead.                                            *)
GroupRebalances(a) ==
    /\ phase[a] \notin {"off", "stop"}
    /\ IF owner = Nobody THEN UNCHANGED faults
       ELSE IF phase[owner] = "off" THEN UNCHANGED faults
       ELSE Fault
    /\ owner' = a
    /\ gen' = [b \in Apps |-> IF gen[b] = "current" THEN "stale" ELSE gen[b]]
    /\ UNCHANGED <<shared, idVars, resultVars, clientVars, pos, start, sent, phase, told>>

----------------------------------------------------------------------------
(* librdkafka (external)                                                   *)

(* An output reaches the broker.  A fenced producer fails for good. *)
Delivered(a, i) ==
    /\ i \in queue[a]
    /\ st[a] \in {"txn", "abortable"}
    /\ reports' = [reports EXCEPT ![a] = TRUE]
    /\ IF Current(a)
         THEN /\ wrote' = [wrote EXCEPT ![Tid(a)] = @ \cup {i}]
              /\ queue' = [queue EXCEPT ![a] = @ \ {i}]
              /\ UNCHANGED st
         ELSE /\ queue' = [queue EXCEPT ![a] = {}]
              /\ st' = [st EXCEPT ![a] = "fatal"]
              /\ UNCHANGED wrote
    /\ UNCHANGED <<shared, fenced, offs, resultVars, owner, endtxn, consumerVars,
                   sent, phase, told, faults>>

(* An output is not delivered within message.timeout.ms: the transaction   *)
(* can only be aborted.                                                    *)
MessageFails(a, i) ==
    /\ i \in queue[a]
    /\ st[a] \in {"txn", "abortable"}
    /\ Fault
    /\ queue' = [queue EXCEPT ![a] = @ \ {i}]
    /\ reports' = [reports EXCEPT ![a] = TRUE]
    /\ st' = [st EXCEPT ![a] = "abortable"]
    /\ UNCHANGED <<shared, idVars, resultVars, owner, endtxn, consumerVars,
                   sent, phase, told>>

(* The delivery reports are served: at any time by a polling thread,       *)
(* otherwise when the application polls, which it does not do inside of    *)
(* the calls that end a transaction.                                       *)
Poll(a) ==
    /\ reports[a]
    /\ a \in Threaded \/ phase[a] \in {"work", "abort"}
    /\ reports' = [reports EXCEPT ![a] = FALSE]
    /\ UNCHANGED <<shared, idVars, resultVars, owner, st, queue, endtxn,
                   consumerVars, sent, phase, told, faults>>

----------------------------------------------------------------------------
(* What the application does with the result of a call: the classes of     *)
(* RDKafkaError (is_retriable, txn_requires_abort, is_fatal).  A           *)
(* KafkaError::Flush has no class; the transaction is still open, so it    *)
(* may be committed again or aborted.                                      *)
React(a, call, result) ==
    phase' = [phase EXCEPT ![a] = CASE result = "retriable" -> call
                                    [] result = "abortable" -> "abort"
                                    [] result = "fatal" -> "stop"]

----------------------------------------------------------------------------
(* The instances                                                           *)

(* An instance is started: when no other uses its transactional.id, or by  *)
(* a supervisor that wrongly takes the running one for dead.               *)
Create(a) ==
    /\ phase[a] = "off"
    /\ IF \A b \in Apps \ {a} : Tid(b) = Tid(a) => phase[b] = "off"
         THEN UNCHANGED faults
         ELSE Fault
    /\ phase' = [phase EXCEPT ![a] = "start"]
    /\ st' = [st EXCEPT ![a] = "created"]
    /\ UNCHANGED <<shared, idVars, resultVars, owner, queue, reports, endtxn,
                   consumerVars, sent, told>>

(* The process ends.  A request to commit may be under way. *)
Ends(a) ==
    /\ phase' = [phase EXCEPT ![a] = "off"]
    /\ queue' = [queue EXCEPT ![a] = {}]
    /\ reports' = [reports EXCEPT ![a] = FALSE]
    /\ gen' = [gen EXCEPT ![a] = "none"]
    /\ pos' = [pos EXCEPT ![a] = None]
    /\ start' = [start EXCEPT ![a] = None]
    /\ sent' = [sent EXCEPT ![a] = None]
    /\ UNCHANGED <<shared, idVars, resultVars, owner, st, told>>

Crash(a) ==
    /\ phase[a] # "off"
    /\ Fault
    /\ endtxn' \in {endtxn, [endtxn EXCEPT ![a] = "none"]}
    /\ Ends(a)

(* After a fatal error "the producer must be stopped and the application   *)
(* terminated".                                                            *)
Terminate(a) ==
    /\ phase[a] = "stop"
    /\ UNCHANGED <<endtxn, faults>>
    /\ Ends(a)

(* The earlier transaction of the transactional.id is aborted and its      *)
(* users are fenced, even when the answer is lost and the call times out.  *)
InitTransactions(a) ==
    /\ phase[a] = "start"
    /\ fenced' = (fenced \cup {b \in Apps : Tid(b) = Tid(a)}) \ {a}
    /\ endtxn' = [endtxn EXCEPT ![a] = "none"]
    /\ Discard(Tid(a))
    /\ \/ /\ st' = [st EXCEPT ![a] = "ready"]
          /\ phase' = [phase EXCEPT ![a] = "idle"]
          /\ UNCHANGED faults
       \/ /\ Fault
          /\ React(a, "start", "retriable")
          /\ UNCHANGED st
    /\ UNCHANGED <<shared, resultVars, owner, queue, reports, consumerVars, sent, told>>

(* The consumer learns that it has the partition ... *)
Joins(a) ==
    /\ phase[a] \in {"start", "idle"}
    /\ owner = a
    /\ gen[a] # "current"
    /\ gen' = [gen EXCEPT ![a] = "current"]
    /\ pos' = [pos EXCEPT ![a] = None]
    /\ UNCHANGED <<shared, idVars, resultVars, owner, clientVars, start, sent, phase, told,
                   faults>>

(* ... that it has lost it ... *)
LearnsLoss(a) ==
    /\ gen[a] = "stale"
    /\ gen' = [gen EXCEPT ![a] = "none"]
    /\ pos' = IF phase[a] \in {"start", "idle"} THEN [pos EXCEPT ![a] = None] ELSE pos
    /\ phase' = IF phase[a] = "work" THEN [phase EXCEPT ![a] = "abort"] ELSE phase
    /\ UNCHANGED <<shared, idVars, resultVars, owner, clientVars, start, sent, told, faults>>

(* ... and starts, or starts again after an abort, at the committed offset. *)
FetchCommitted(a) ==
    /\ phase[a] \in {"start", "idle"}
    /\ gen[a] = "current"
    /\ pos[a] = None
    /\ Stable
    /\ pos' = [pos EXCEPT ![a] = committed]
    /\ UNCHANGED <<shared, idVars, resultVars, owner, clientVars, gen, start, sent, phase,
                   told, faults>>

----------------------------------------------------------------------------
(* The transactional calls                                                 *)

BeginTransaction(a) ==
    /\ phase[a] = "idle"
    /\ gen[a] # "none"
    /\ pos[a] \in Inputs
    /\ st[a] = "ready"
    /\ st' = [st EXCEPT ![a] = "txn"]
    /\ start' = [start EXCEPT ![a] = pos[a]]
    /\ phase' = [phase EXCEPT ![a] = "work"]
    /\ UNCHANGED <<shared, idVars, resultVars, owner, queue, reports, endtxn,
                   gen, pos, sent, told, faults>>

(* An input is consumed and its output sent.  Once the transaction has     *)
(* failed, send returns an error and the application gives up.             *)
Send(a) ==
    /\ phase[a] = "work"
    /\ gen[a] # "none"
    /\ pos[a] \in Inputs
    /\ IF st[a] = "txn"
         THEN /\ queue' = [queue EXCEPT ![a] = @ \cup {pos[a]}]
              /\ pos' = [pos EXCEPT ![a] = @ + 1]
              /\ UNCHANGED phase
         ELSE /\ React(a, "work", st[a])
              /\ UNCHANGED <<queue, pos>>
    /\ UNCHANGED <<shared, idVars, resultVars, owner, st, reports, endtxn, gen, start,
                   sent, told, faults>>

(* Mutant: the error of send_offsets_to_transaction is dropped. *)
SendOffsetsUnheard(a) ==
    /\ phase[a] = "work"
    /\ sent[a] # pos[a] /\ start[a] # pos[a]
    /\ sent' = [sent EXCEPT ![a] = pos[a]]
    /\ offs' = IF Current(a) /\ gen[a] = "current"
                 THEN [offs EXCEPT ![Tid(a)] = pos[a]] ELSE offs
    /\ UNCHANGED <<shared, fenced, wrote, resultVars, owner, clientVars, consumerVars,
                   phase, told, faults>>

(* The coordinators refuse the offset of a fenced producer, and that of a  *)
(* consumer whose group metadata is out of date.  When the call times out  *)
(* the offset may have been taken; it is sent again.                       *)
SendOffsetsToTransaction(a) ==
    /\ phase[a] = "work"
    /\ gen[a] # "none"
    /\ pos[a] # start[a]
    /\ sent[a] # pos[a]
    /\ IF st[a] # "txn"
         THEN React(a, "work", st[a]) /\ UNCHANGED <<st, offs, sent, faults>>
       ELSE IF ~Current(a)
         THEN /\ st' = [st EXCEPT ![a] = "fatal"]
              /\ React(a, "work", "fatal")
              /\ UNCHANGED <<offs, sent, faults>>
       ELSE IF gen[a] # "current"
         THEN /\ st' = [st EXCEPT ![a] = "abortable"]
              /\ React(a, "work", "abortable")
              /\ UNCHANGED <<offs, sent, faults>>
       ELSE /\ offs' = [offs EXCEPT ![Tid(a)] = pos[a]]
            /\ UNCHANGED st
            /\ \/ /\ sent' = [sent EXCEPT ![a] = pos[a]]
                  /\ UNCHANGED <<phase, faults>>
               \/ /\ Fault
                  /\ React(a, "work", "retriable")
                  /\ UNCHANGED sent
    /\ UNCHANGED <<shared, fenced, wrote, resultVars, owner, queue, reports, endtxn,
                   consumerVars, told>>

(* The transaction is over for the application. *)
Over(a, position) ==
    /\ endtxn' = [endtxn EXCEPT ![a] = "none"]
    /\ st' = [st EXCEPT ![a] = "ready"]
    /\ phase' = [phase EXCEPT ![a] = "idle"]
    /\ sent' = [sent EXCEPT ![a] = None]
    /\ start' = [start EXCEPT ![a] = None]
    /\ pos' = [pos EXCEPT ![a] = position]

(* rd_kafka_commit_transaction sends the request, unless the transaction   *)
(* has failed, or delivery reports of it have not been served.             *)
RequestCommit(a) ==
    IF st[a] = "txn"
      THEN /\ st' = [st EXCEPT ![a] = "committing"]
           /\ endtxn' = [endtxn EXCEPT ![a] = "sent"]
           /\ phase' = [phase EXCEPT ![a] = "commit"]
      ELSE /\ React(a, "commit", st[a])
           /\ UNCHANGED <<st, endtxn>>

(* Mutant: the result of the flush is dropped; the call returns Ok. *)
CommitFlushUnheard(a) ==
    /\ phase[a] \in {"work", "commit"}
    /\ st[a] # "committing"
    /\ sent[a] = pos[a]
    /\ reports' = [reports EXCEPT ![a] = FALSE]
    /\ IF queue[a] # {}
         THEN /\ Fault
              /\ phase' = [phase EXCEPT ![a] = "idle"]
              /\ UNCHANGED <<st, endtxn>>
         ELSE RequestCommit(a) /\ UNCHANGED faults
    /\ UNCHANGED <<shared, idVars, resultVars, owner, queue, consumerVars, sent, told>>

(* Mutant: the transaction is committed without flushing first. *)
CommitUnflushed(a) ==
    /\ phase[a] \in {"work", "commit"}
    /\ st[a] # "committing"
    /\ sent[a] = pos[a]
    /\ IF queue[a] # {} \/ reports[a]
         THEN /\ phase' = [phase EXCEPT ![a] = "commit"]
              /\ UNCHANGED <<st, endtxn>>
         ELSE RequestCommit(a)
    /\ UNCHANGED <<shared, idVars, resultVars, owner, queue, reports, consumerVars,
                   sent, told, faults>>

(* The outstanding messages are flushed first, which serves the delivery   *)
(* reports; when they are not delivered in time the call ends there.       *)
CommitTransaction(a) ==
    /\ phase[a] \in {"work", "commit"}
    /\ st[a] # "committing"
    /\ sent[a] = pos[a]
    /\ reports' = [reports EXCEPT ![a] = FALSE]
    /\ IF queue[a] # {}
         THEN /\ Fault
              /\ \E p \in {"commit", "abort"} : phase' = [phase EXCEPT ![a] = p]
              /\ UNCHANGED <<st, endtxn>>
         ELSE RequestCommit(a) /\ UNCHANGED faults
    /\ UNCHANGED <<shared, idVars, resultVars, owner, queue, consumerVars, sent, told>>

(* Mutant: a refused commit is reported as a success. *)
CommitReturnsOk(a) ==
    /\ phase[a] = "commit"
    /\ st[a] = "committing"
    /\ endtxn[a] \in {"done", "refused"}
    /\ Over(a, pos[a])
    /\ told' = IF sent[a] > told THEN sent[a] ELSE told
    /\ UNCHANGED <<shared, idVars, resultVars, owner, queue, reports, gen, faults>>

(* The call returns with the answer of the coordinator, or times out       *)
(* before it: the commit is then in doubt and the call is made again.      *)
CommitReturns(a) ==
    /\ phase[a] = "commit"
    /\ st[a] = "committing"
    /\ \/ /\ endtxn[a] = "done"
          /\ Over(a, IF gen[a] = "none" THEN None ELSE pos[a])
          /\ told' = IF sent[a] > told THEN sent[a] ELSE told
          /\ UNCHANGED faults
       \/ /\ endtxn[a] = "refused"
          /\ st' = [st EXCEPT ![a] = "fatal"]
          /\ React(a, "commit", "fatal")
          /\ UNCHANGED <<endtxn, sent, start, pos, told, faults>>
       \/ /\ Fault
          /\ React(a, "commit", "retriable")
          /\ UNCHANGED <<st, endtxn, sent, start, pos, told>>
    /\ UNCHANGED <<shared, idVars, resultVars, owner, queue, reports, gen>>

(* The outstanding messages are purged.  Nothing serves their delivery     *)
(* reports during the call: while there are any it times out.              *)
Aborts(a) ==
    LET unserved == reports[a] \/ queue[a] # {} IN
    /\ queue' = [queue EXCEPT ![a] = {}]
    /\ reports' = [reports EXCEPT ![a] = unserved]
    /\ IF st[a] = "fatal"
         THEN React(a, "abort", "fatal") /\ UNCHANGED <<wrote, offs, st, endtxn, sent, start, pos>>
       ELSE IF unserved
         THEN /\ st' = [st EXCEPT ![a] = "abortable"]
              /\ React(a, "abort", "retriable")
              /\ UNCHANGED <<wrote, offs, endtxn, sent, start, pos>>
       ELSE IF ~Current(a)
         THEN /\ st' = [st EXCEPT ![a] = "fatal"]
              /\ React(a, "abort", "fatal")
              /\ UNCHANGED <<wrote, offs, endtxn, sent, start, pos>>
       ELSE Discard(Tid(a)) /\ Over(a, None)
    /\ UNCHANGED <<shared, fenced, resultVars, owner, gen, told>>

AbortTransaction(a) ==
    /\ phase[a] = "abort"
    /\ UNCHANGED faults
    /\ Aborts(a)

(* The application may change its mind. *)
GiveUp(a) ==
    /\ phase[a] = "work"
    /\ Fault
    /\ Aborts(a)

----------------------------------------------------------------------------

Init ==
    /\ shared \in BOOLEAN
    /\ fenced = {}
    /\ wrote = [t \in Apps |-> {}]
    /\ offs = [t \in Apps |-> None]
    /\ committed = 0
    /\ visible = [i \in Inputs |-> 0]
    /\ owner = Nobody
    /\ st = [a \in Apps |-> "created"]
    /\ queue = [a \in Apps |-> {}]
    /\ reports = [a \in Apps |-> FALSE]
    /\ endtxn = [a \in Apps |-> "none"]
    /\ gen = [a \in Apps |-> "none"]
    /\ pos = [a \in Apps |-> None]
    /\ start = [a \in Apps |-> None]
    /\ sent = [a \in Apps |-> None]
    /\ phase = [a \in Apps |-> "off"]
    /\ told = 0
    /\ faults = 0

(* What the coordinators and librdkafka do *)
Environment(a) ==
    \/ EndTxn(a)
    \/ TxnTimeout(a)
    \/ GroupRebalances(a)
    \/ \E i \in Inputs : Delivered(a, i) \/ MessageFails(a, i)
    \/ Poll(a)
    \/ Crash(a)

(* The calls of the Producer trait that have to do with transactions *)
TransactionalCall(a) ==
    \/ InitTransactions(a)
    \/ BeginTransaction(a)
    \/ SendOffsetsToTransaction(a)
    \/ CommitTransaction(a) \/ CommitReturns(a)
    \/ AbortTransaction(a) \/ GiveUp(a)

(* What an instance does *)
Instance(a) ==
    \/ Create(a) \/ Terminate(a)
    \/ Joins(a) \/ LearnsLoss(a) \/ FetchCommitted(a)
    \/ Send(a)
    \/ TransactionalCall(a)

Next == \E a \in Apps : Environment(a) \/ Instance(a)

(* Coordinators and librdkafka serve requests; instances make their calls. *)
Fairness ==
    \A a \in Apps :
        /\ WF_vars(EndTxn(a))
        /\ WF_vars(TxnTimeout(a) /\ UNCHANGED faults)
        /\ WF_vars(Poll(a))
        /\ WF_vars(\E i \in Inputs : Delivered(a, i))
        /\ WF_vars(GroupRebalances(a) /\ UNCHANGED faults)
        /\ WF_vars(Instance(a) /\ UNCHANGED faults)

Spec == Init /\ [][Next]_vars /\ Fairness

----------------------------------------------------------------------------

(* Each input that counts as consumed has exactly one visible output, no   *)
(* other has one, and both change in one step: whatever times out, crashes *)
(* or is fenced between init_transactions and commit_transaction.          *)
Pipeline == INSTANCE ExactlyOnce
ExactlyOncePipeline == Pipeline!Spec

(* When commit_transaction returns Ok, the offset tied to the transaction  *)
(* is committed: a fenced producer or a timeout is never taken for success. *)
OkIsCommitted == told <= committed

(* An application that follows the classes of RDKafkaError makes no call   *)
(* that librdkafka refuses in the state the transaction is in: what it was *)
(* told agrees with the state of its producer.                             *)
CallsAreValid ==
    \A a \in Apps :
        /\ phase[a] = "start" => st[a] = "created"
        /\ phase[a] = "idle" => st[a] = "ready"
        /\ phase[a] = "work" => st[a] \in {"txn", "abortable", "fatal"}
        /\ phase[a] = "commit" => st[a] \in {"txn", "committing", "abortable", "fatal"}
        /\ phase[a] = "abort" => st[a] \in {"txn", "abortable", "fatal"}
        /\ phase[a] = "stop" => st[a] = "fatal"

(* After the last fault every input is transformed: no transaction stays   *)
(* open for want of a flush, a retry or an abort.                          *)
EventuallyTransformed == <>(committed = End)

=============================================================================
