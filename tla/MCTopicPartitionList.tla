------------------------ MODULE MCTopicPartitionList ------------------------
(* Two lists over two partitions of a topic and a 12-bit integer type. *)
EXTENDS TopicPartitionList

\* The smallest absolute offset, one that is refused, the longest tail that fits
\* in the integer type, and one that does not.
SomeOffsets ==
    {Offset("Offset", 0), Offset("Offset", -1),
     Offset("OffsetTail", 48), Offset("OffsetTail", 49)}

SomePartitions == {-1, 0}

=============================================================================
