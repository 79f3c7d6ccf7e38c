----------------------------- MODULE ExactlyOnce -----------------------------
(***************************************************************************)
(* What transactions promise a consume-transform-produce loop (crate       *)
(* documentation, src/lib.rs, "Exactly-once semantics"): the outputs of a  *)
(* range of inputs become visible together with the offset that follows    *)
(* the range, so that every input that counts as consumed has exactly one  *)
(* visible output and no other input has any.                              *)
(***************************************************************************)
EXTENDS Integers

CONSTANT End         \* the number of inputs

VARIABLES committed, \* the next input to consume
          visible    \* visible[i]: how many outputs of input i can be read

vars == <<committed, visible>>

Inputs == 0..(End - 1)

Init ==
    /\ committed = 0
    /\ visible = [i \in Inputs |-> 0]

Advance(n) ==
    /\ committed' = n
    /\ visible' = [i \in Inputs |->
                     IF i \in committed..(n - 1) THEN visible[i] + 1 ELSE visible[i]]

Next == \E n \in (committed + 1)..End : Advance(n)

Spec == Init /\ [][Next]_vars

=============================================================================
