---------------------------- MODULE AdminRequests ----------------------------
(***************************************************************************)
(* The requests of the admin API and their results (src/admin.rs): what    *)
(* makes a request be refused while its native objects are built, and what *)
(* the future of each operation makes of librdkafka's answer.              *)
(*                                                                         *)
(* The objects of a request (NewTopic, NewPartitions, ...) are the records *)
(* below.  A name or a configuration entry is only whether CString::new    *)
(* and librdkafka take it; a replica assignment is the number of           *)
(* partitions it assigns.                                                  *)
(***************************************************************************)
EXTENDS Naturals, Sequences

CONSTANT MaxPartitions    \* the most partitions asked for or assigned

ASSUME PartitionsAssumption == MaxPartitions \in Nat

AdminOps == {"create_topics", "delete_topics", "delete_groups", "create_partitions",
             "delete_records", "describe_configs", "alter_configs"}

ConfigOps == {"describe_configs", "alter_configs"}

Counts == 0 .. MaxPartitions
Names == {"name", "nul"}                              \* "nul": it contains a NUL
Entries == {"none", "entry", "nul", "refused"}        \* "refused": librdkafka refuses it
Replicas == {"taken", "refused"}                      \* a list of broker ids

\* The assignment of as many partitions, if one is given (it is not in Fixed, None).
Assignments == [given : BOOLEAN, size : Counts]

NewTopics == [name : Names, num_partitions : Counts, replication : Assignments,
              replicas : Replicas, config : Entries]
NewPartitions == [topic_name : Names, new_partition_count : Counts, assignment : Assignments,
                  replicas : Replicas]
AlterConfigs == [specifier : Names \cup {"broker"}, entries : Entries]
AdminOptions == [{"request_timeout", "operation_timeout", "validate_only", "broker_id"} ->
                    {"unset", "set", "refused"}]

-----------------------------------------------------------------------------
(* to_native(): "ok", the error it returns, or "abort" where librdkafka       *)
(* aborts the process                                                         *)

\* rd_kafka_NewTopic_new and rd_kafka_NewPartitions_new refuse an empty topic.
NativeCreated(count) == count > 0

\* rd_kafka_NewPartitions_set_replica_assignment, for one partition after the
\* other: the native object has room for as many as it has partitions.
NativeAssigned(count, assigned, replicas) ==
    CASE assigned.given /\ assigned.size > count -> "abort"
      [] assigned.given /\ assigned.size > 0 /\ replicas = "refused" -> "AdminOpCreation"
      [] OTHER -> "ok"

\* The configuration entries of a topic or of a resource.
EntriesSet(entries) ==
    CASE entries = "nul" -> "Nul"
      [] entries = "refused" -> "AdminOpCreation"
      [] OTHER -> "ok"

NewTopicToNative(t) ==
    CASE t.name = "nul" -> "Nul"
      [] t.replication.given /\ t.replication.size # t.num_partitions -> "AdminOpCreation"
      [] ~NativeCreated(t.num_partitions) -> "AdminOpCreation"
      [] t.replication.given /\ t.replicas = "refused" -> "AdminOpCreation"
      [] OTHER -> EntriesSet(t.config)

\* Mutant: the assignment is not compared with the number of partitions.
NewPartitionsUnchecked(p) ==
    CASE p.topic_name = "nul" -> "Nul"
      [] ~NativeCreated(p.new_partition_count) -> "AdminOpCreation"
      [] OTHER -> NativeAssigned(p.new_partition_count, p.assignment, p.replicas)

NewPartitionsToNative(p) ==
    CASE p.topic_name = "nul" -> "Nul"
      [] p.assignment.given /\ p.assignment.size > p.new_partition_count -> "AdminOpCreation"
      [] ~NativeCreated(p.new_partition_count) -> "AdminOpCreation"
      [] OTHER -> NativeAssigned(p.new_partition_count, p.assignment, p.replicas)

\* A topic, a group, or a broker, whose name is its formatted id.
SpecifierToNative(s) == IF s = "nul" THEN "Nul" ELSE "ok"

AlterConfigToNative(c) ==
    IF SpecifierToNative(c.specifier) # "ok" THEN SpecifierToNative(c.specifier)
                                             ELSE EntriesSet(c.entries)

\* The names of delete_topics and delete_groups.
NameToNative(n) == IF n = "nul" THEN "Nul" ELSE "ok"

\* rd_kafka_DeleteRecords_new may refuse the list.
DeleteRecordsToNative(l) == IF l = "refused" THEN "AdminOpCreation" ELSE "ok"

\* AdminOptions::to_native: each option that is set may be refused.
OptionsToNative(opts) ==
    IF \E f \in DOMAIN opts : opts[f] = "refused" THEN "AdminOpCreation" ELSE "ok"

\* What the objects of a request to an operation may come to.
ToNative(o) ==
    CASE o = "create_topics"     -> {NewTopicToNative(t) : t \in NewTopics}
      [] o = "create_partitions" -> {NewPartitionsToNative(p) : p \in NewPartitions}
      [] o = "alter_configs"     -> {AlterConfigToNative(c) : c \in AlterConfigs}
      [] o = "describe_configs"  -> {SpecifierToNative(s) : s \in Names \cup {"broker"}}
      [] o = "delete_records"    -> {DeleteRecordsToNative(l) : l \in Replicas}
      [] OTHER                   -> {NameToNative(n) : n \in Names}

\* The ways a request is not made: the first object that is not taken ends it,
\* and then the options may.  The objects built so far are dropped.
Refusals(o) == (ToNative(o) \cup {OptionsToNative(opts) : opts \in AdminOptions}) \ {"ok"}

-----------------------------------------------------------------------------
(* The results *)

\* What became of one resource of a request.  "bogus": its type, its broker id
\* or the source of one of its entries is none the library knows.
Outcomes(o) == {"ok", "error"} \cup (IF o \in ConfigOps THEN {"bogus"} ELSE {})

Verdicts == {"Ok", "Err"}

\* build_topic_results, and build_group_results alike.
TopicResults(outcome) ==
    [i \in DOMAIN outcome |-> IF outcome[i] = "error" THEN "Err" ELSE "Ok"]

GroupResults(outcome) ==
    [i \in DOMAIN outcome |-> IF outcome[i] = "error" THEN "Err" ELSE "Ok"]

\* A copy of librdkafka's list, whose elements have their own errors.
RecordsResult(outcome) ==
    [i \in DOMAIN outcome |-> IF outcome[i] = "error" THEN "Err" ELSE "Ok"]

\* Neither the futures of describe_configs nor those of alter_configs look at the
\* error of a resource.
ConfigResults(outcome) == [i \in DOMAIN outcome |-> "Ok"]

\* extract_config_specifier and extract_config_source fail the whole future.
Extracted(o, outcome) ==
    ~(o \in ConfigOps /\ \E i \in DOMAIN outcome : outcome[i] = "bogus")

\* Mutant: an error of a single resource is not looked at.
ResultsUnseen(o, outcome) == [i \in DOMAIN outcome |-> "Ok"]

Results(o, outcome) ==
    CASE o \in ConfigOps       -> ConfigResults(outcome)
      [] o = "delete_groups"   -> GroupResults(outcome)
      [] o = "delete_records"  -> RecordsResult(outcome)
      [] OTHER                 -> TopicResults(outcome)

=============================================================================
