--------------------------- MODULE MCProcActions ---------------------------
(* One PID, reused twice, and two detail fetches in flight.                 *)
EXTENDS ProcActions, TLC

CONSTANTS f1, f2
MCFetches  == {f1, f2}
MCSymmetry == Permutations(MCFetches)
=============================================================================
