------------------------- MODULE MCThreadedProducer -------------------------
(* Small instances of ThreadedProducer. *)
EXTENDS ThreadedProducer

=============================================================================
