---------------------------- MODULE MCAdminClient ----------------------------
(* Small instances of AdminClient. *)
EXTENDS AdminClient, TLC

CONSTANTS r1, r2

\* No request looks at the operation of another: one of them is made with each.
MCOps == r1 :> AdminOps @@ r2 :> {"create_topics"}

=============================================================================
