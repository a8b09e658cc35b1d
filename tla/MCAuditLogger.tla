---------------------------- MODULE MCAuditLogger ----------------------------
(* Three tool attempts; PostgreSQL refuses the row of one of them.         *)
EXTENDS AuditLogger

CONSTANTS r1, r2, r3
=============================================================================
