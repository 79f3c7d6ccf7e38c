--------------------------- MODULE MCBaseConsumer ---------------------------
(* A member of an eager or a cooperative group, polled by one or two threads. *)
EXTENDS BaseConsumer

=============================================================================
