------------------------- MODULE TopicPartitionList -------------------------
(***************************************************************************)
(* rdkafka::topic_partition_list (src/topic_partition_list.rs): Offset,    *)
(* its integer form in librdkafka, and the lists of topic partitions that  *)
(* are built element by element, from a map or by collect(), cloned,       *)
(* compared and read back.  The metadata of the elements, which nothing is *)
(* computed from, is left out.                                             *)
(*                                                                         *)
(* A native element holds the integer; everything the crate reads from a   *)
(* list goes through from_raw and everything it writes through to_raw.     *)
(* i64 is -Half .. Half - 1, and arithmetic wraps as in a release build.   *)
(***************************************************************************)
EXTENDS Integers, Sequences, FiniteSets

CONSTANTS
    Lists,        \* the lists that exist
    Topics,       \* topic names
    Partitions,   \* partition numbers, PARTITION_UNASSIGNED among them
    Offsets,      \* the offsets callers pass
    MaxCount,     \* bound: lists grow only below this length
    Half          \* 2^63 for i64

OFFSET_BEGINNING == -2
OFFSET_END == -1
OFFSET_STORED == -1000
OFFSET_INVALID == -1001
OFFSET_TAIL_BASE == -2000

i64 == -Half .. Half - 1

Offset(kind, n) == [kind |-> kind, n |-> n]

OffsetType ==
    [kind : {"Beginning", "End", "Stored", "Invalid"}, n : {0}]
        \cup [kind : {"Offset", "OffsetTail"}, n : i64]

ASSUME ListAssumption ==
    /\ Half \in Nat
    /\ Half > 2001
    /\ Partitions \subseteq Int
    /\ Offsets \subseteq OffsetType
    /\ MaxCount \in Nat

-----------------------------------------------------------------------------
(* Offset *)

\* The subtraction of an i64 from a small number.
Wrap(n) == IF n < -Half THEN n + 2 * Half ELSE n

FromRaw(raw) ==
    CASE raw = OFFSET_BEGINNING -> Offset("Beginning", 0)
      [] raw = OFFSET_END       -> Offset("End", 0)
      [] raw = OFFSET_STORED    -> Offset("Stored", 0)
      [] raw = OFFSET_INVALID   -> Offset("Invalid", 0)
      [] raw <= OFFSET_TAIL_BASE -> Offset("OffsetTail", -(raw - OFFSET_TAIL_BASE))
      [] OTHER -> Offset("Offset", raw)

\* to_raw returns Some.
Representable(o) ==
    CASE o.kind = "Offset"     -> o.n >= 0
      [] o.kind = "OffsetTail" -> o.n > 0
      [] OTHER -> TRUE

\* Mutant: the tail is counted from the wrong end.
ToRawUp(o) ==
    CASE o.kind = "Beginning"  -> OFFSET_BEGINNING
      [] o.kind = "End"        -> OFFSET_END
      [] o.kind = "Stored"     -> OFFSET_STORED
      [] o.kind = "Invalid"    -> OFFSET_INVALID
      [] o.kind = "Offset"     -> o.n
      [] o.kind = "OffsetTail" -> Wrap(OFFSET_TAIL_BASE + o.n)

\* What it returns then.
ToRaw(o) ==
    CASE o.kind = "Beginning"  -> OFFSET_BEGINNING
      [] o.kind = "End"        -> OFFSET_END
      [] o.kind = "Stored"     -> OFFSET_STORED
      [] o.kind = "Invalid"    -> OFFSET_INVALID
      [] o.kind = "Offset"     -> o.n
      [] o.kind = "OffsetTail" -> Wrap(OFFSET_TAIL_BASE - o.n)

\* The offsets to_raw is right about: a tail must not be longer than i64 has room
\* for below OFFSET_TAIL_BASE.
Exact(o) == Representable(o) /\ (o.kind = "OffsetTail" => OFFSET_TAIL_BASE - o.n >= -Half)

-----------------------------------------------------------------------------
(* The native list, and how it is read *)

Keys == Topics \X Partitions

Elem(key, raw) == [key |-> key, offset |-> raw]

VARIABLES
    lists,       \* lists[l]: the native elements
    result       \* what the last operation returned

vars == <<lists, result>>

TypeOK ==
    /\ lists \in [Lists -> Seq([key : Topics \X Int, offset : i64])]
    /\ result \in {"Ok", "Err"}

\* rd_kafka_topic_partition_list_find: the first element of the partition.
Has(s, key) == \E i \in DOMAIN s : s[i].key = key

Find(s, key) == CHOOSE i \in DOMAIN s :
                    s[i].key = key /\ \A j \in 1..(i - 1) : s[j].key # key

\* PartialEq of two elements.
EqElem(e, f) == e.key = f.key /\ FromRaw(e.offset) = FromRaw(f.offset)

\* Mutant: the offsets are not compared.
EqKeys(s, r) ==
    /\ Len(s) = Len(r)
    /\ \A i \in DOMAIN s : Has(r, s[i].key)

\* PartialEq of two lists.
Eq(s, r) ==
    /\ Len(s) = Len(r)
    /\ \A i \in DOMAIN s : Has(r, s[i].key) /\ EqElem(s[i], r[Find(r, s[i].key)])

\* to_topic_map: of the elements of a partition the last one is kept.
ToTopicMap(s) ==
    [key \in {s[i].key : i \in DOMAIN s} |->
        FromRaw(s[CHOOSE i \in DOMAIN s :
                     s[i].key = key /\ \A j \in (i + 1)..Len(s) : s[j].key # key].offset)]

Distinct(s) == \A i, j \in DOMAIN s : i # j => s[i].key # s[j].key

-----------------------------------------------------------------------------
(* Operations *)

Becomes(l, s, r) ==
    /\ Len(s) <= MaxCount
    /\ lists' = [lists EXCEPT ![l] = s]
    /\ result' = r

Outcome(ok) == IF ok THEN "Ok" ELSE "Err"

AddPartition(l, key) == Becomes(l, Append(lists[l], Elem(key, OFFSET_INVALID)), "Ok")

AddPartitionRange(l, topic, start, stop) ==
    Becomes(l, lists[l] \o [i \in 1..(stop - start + 1) |->
                              Elem(<<topic, start + i - 1>>, OFFSET_INVALID)], "Ok")

\* set_offset on an element that elements(), find_partition or add_partition gave.
SetOffset(l, i, o) ==
    /\ i \in DOMAIN lists[l]
    /\ Becomes(l, IF Representable(o)
                  THEN [lists[l] EXCEPT ![i] = Elem(@.key, ToRaw(o))]
                  ELSE lists[l], Outcome(Representable(o)))

\* The list s after set_partition_offset, and what it returns.
Settable(s, key, o) == Representable(o) /\ Has(s, key)

WithOffset(s, key, o) ==
    IF Settable(s, key, o) THEN [s EXCEPT ![Find(s, key)].offset = ToRaw(o)] ELSE s

SetPartitionOffset(l, key, o) ==
    Becomes(l, WithOffset(lists[l], key, o), Outcome(Settable(lists[l], key, o)))

\* The element is added first, and is there even if its offset is refused.
AddPartitionOffset(l, key, o) ==
    LET s == Append(lists[l], Elem(key, OFFSET_INVALID))
    IN  Becomes(l, WithOffset(s, key, o), Outcome(Settable(s, key, o)))

\* Mutant: a refused offset is made an invalid one.
SetAllOffsetsAnyway(l, o) ==
    LET raw == IF Representable(o) THEN ToRaw(o) ELSE OFFSET_INVALID
    IN  Becomes(l, [i \in DOMAIN lists[l] |-> [lists[l][i] EXCEPT !.offset = raw]],
                Outcome(lists[l] = <<>> \/ Representable(o)))

\* The first element is refused if any is.
SetAllOffsets(l, o) ==
    LET s == lists[l]
        ok == s = <<>> \/ Representable(o)
    IN  Becomes(l, IF ok THEN [i \in DOMAIN s |-> [s[i] EXCEPT !.offset = ToRaw(o)]]
                         ELSE s, Outcome(ok))

\* clone() and the constructors below make a new list.
Fresh(l) == lists[l] = <<>>

Clone(l, k) == Fresh(k) /\ Becomes(k, lists[l], "Ok")

\* from_topic_map: the map is walked in any order; an offset that is refused
\* gives the whole list up.
FromTopicMap(l, map) ==
    LET ok == \A key \in DOMAIN map : Representable(map[key])
    IN  /\ Fresh(l)
        /\ \E order \in [1..Cardinality(DOMAIN map) -> DOMAIN map] :
              /\ \A i, j \in DOMAIN order : order[i] = order[j] => i = j
              /\ Becomes(l, IF ok
                            THEN [i \in DOMAIN order |-> Elem(order[i], ToRaw(map[order[i]]))]
                            ELSE <<>>, Outcome(ok))

\* FromIterator: the offset goes to the new element, and is one to_raw accepts,
\* or collect() panics.
Collect(l, items) ==
    /\ Fresh(l)
    /\ \A i \in DOMAIN items : Representable(items[i][2])
    /\ Becomes(l, [i \in DOMAIN items |-> Elem(items[i][1], ToRaw(items[i][2]))], "Ok")

-----------------------------------------------------------------------------
Init ==
    /\ lists = [l \in Lists |-> <<>>]
    /\ result = "Ok"

\* The maps and the sequences of items callers pass.
Maps == UNION {[ks -> Offsets] : ks \in {ks \in SUBSET Keys : IsFiniteSet(ks)}}

Items == UNION {[1..n -> Keys \X Offsets] : n \in 0..MaxCount}

Next ==
    \E l \in Lists :
        \/ \E key \in Keys :
              \/ AddPartition(l, key)
              \/ \E o \in Offsets : SetPartitionOffset(l, key, o) \/ AddPartitionOffset(l, key, o)
        \/ \E topic \in Topics, start, stop \in Partitions :
              start <= stop /\ AddPartitionRange(l, topic, start, stop)
        \/ \E o \in Offsets : SetAllOffsets(l, o) \/ \E i \in 1..MaxCount : SetOffset(l, i, o)
        \/ \E k \in Lists : Clone(l, k)
        \/ \E map \in Maps : FromTopicMap(l, map)
        \/ \E items \in Items : Collect(l, items)

Spec == Init /\ [][Next]_vars

-----------------------------------------------------------------------------
(* Properties *)

\* What is in a list can be read with offset() and written to another with
\* set_offset without a change: no operation puts an integer there that from_raw
\* takes for an offset to_raw refuses (-2000, a negative one) or encodes otherwise.
RawSurvives ==
    \A l \in Lists : \A i \in DOMAIN lists[l] :
        LET o == FromRaw(lists[l][i].offset)
        IN  Representable(o) /\ ToRaw(o) = lists[l][i].offset

\* Lists without a repeated partition are equal exactly if they have the same
\* elements, in whatever order they were built: for these == is symmetric.
EqIsContent ==
    \A l, k \in Lists :
        Distinct(lists[l]) /\ Distinct(lists[k]) =>
            LET Content(s) == {s[i] : i \in DOMAIN s}
            IN  Eq(lists[l], lists[k]) <=> Content(lists[l]) = Content(lists[k])

\* A refused offset changes no element that was in the list, although
\* add_partition_offset leaves the new one behind.
ErrKeepsElements ==
    [][result' = "Err" => \A l \in Lists : \A i \in DOMAIN lists[l] :
          i \in DOMAIN lists'[l] /\ lists'[l][i] = lists[l][i]]_vars

=============================================================================
