-------------------------- MODULE MCStreamConsumer --------------------------
(* Small instances of StreamConsumer: the queue of a consumer, or the queue of a *)
(* partition that is split, dropped and split again.                            *)
EXTENDS StreamConsumer

CONSTANTS consumer, q1, q2

MCOwners == {consumer, q1, q2}
MCSetups == {{consumer}, {q1, q2}}
MCWakeLoops == {consumer}

=============================================================================
