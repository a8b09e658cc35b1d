----------------------------- MODULE MCExecutor -----------------------------
(* Requests for the flaky tool t1, q1 cacheable and q2 not, and one, q3,   *)
(* for the healthy tool t2.                                                *)
EXTENDS Executor

CONSTANTS l1, l2, l3, t1, t2, q1, q2, q3

MCToolOf == [q \in Requests |-> IF q = q3 THEN t2 ELSE t1]
=============================================================================
