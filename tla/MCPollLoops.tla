----------------------------- MODULE MCPollLoops -----------------------------
(* Integers of three bits, -4 to 3, and timeouts on both sides of that.  *)
EXTENDS PollLoops

MCLimits == {Never, 0, 1, 3, 4, 8}
=============================================================================
