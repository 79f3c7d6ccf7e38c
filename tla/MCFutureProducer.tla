-------------------------- MODULE MCFutureProducer --------------------------
(* Small instances of FutureProducer. *)
EXTENDS FutureProducer

=============================================================================
