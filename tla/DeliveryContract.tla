-------------------------- MODULE DeliveryContract --------------------------
(***************************************************************************)
(* What a producer promises about the records it is given, whatever        *)
(* threads, polls and flushes are behind it: a record is accepted or left  *)
(* with the caller, at most Limit records are waiting for their outcome,   *)
(* and every accepted record has its outcome reported to the delivery      *)
(* callback once, unless the producer is closed first.                     *)
(***************************************************************************)
EXTENDS Naturals, FiniteSets

CONSTANTS Records, Limit

VARIABLES status, closed

contractVars == <<status, closed>>

Pending == {r \in Records : status[r] = "accepted"}

ContractInit ==
    /\ status = [r \in Records |-> "offered"]
    /\ closed = FALSE

Accept(r) ==
    /\ ~closed
    /\ status[r] = "offered"
    /\ Cardinality(Pending) < Limit
    /\ status' = [status EXCEPT ![r] = "accepted"]
    /\ UNCHANGED closed

ReportOutcome(r) ==
    /\ ~closed
    /\ status[r] = "accepted"
    /\ status' = [status EXCEPT ![r] = "reported"]
    /\ UNCHANGED closed

\* Closing abandons the records that are still waiting.
Close ==
    /\ ~closed
    /\ closed' = TRUE
    /\ status' = [r \in Records |-> IF status[r] = "accepted" THEN "lost"
                                                             ELSE status[r]]

ContractNext ==
    \/ \E r \in Records : Accept(r) \/ ReportOutcome(r)
    \/ Close

ContractSpec == ContractInit /\ [][ContractNext]_contractVars

=============================================================================
