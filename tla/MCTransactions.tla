--------------------------- MODULE MCTransactions ---------------------------
(* Two instances, of which one has a polling thread, and two inputs. *)
EXTENDS Transactions

=============================================================================
