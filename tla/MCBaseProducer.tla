--------------------------- MODULE MCBaseProducer ---------------------------
(* Small instances of BaseProducer. *)
EXTENDS BaseProducer

=============================================================================
