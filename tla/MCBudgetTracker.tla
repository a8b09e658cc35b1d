--------------------------- MODULE MCBudgetTracker ---------------------------
(* Two sessions: one shared by two concurrent requests, one used by a      *)
(* single request at a time.                                               *)
EXTENDS BudgetTracker

CONSTANTS l1, l2, l3, s1, s2

MCSessionOf == [l \in Loops |-> IF l = l3 THEN s2 ELSE s1]
=============================================================================
