------------------------- MODULE MCConsumerOffsets --------------------------
(* Two members of a group, for each of the four kinds of applications. *)
EXTENDS ConsumerOffsets

=============================================================================
