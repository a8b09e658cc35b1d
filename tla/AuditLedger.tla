----------------------------- MODULE AuditLedger -----------------------------
(***************************************************************************)
(* What the audit layer promises (class docstring of AuditLogger): every   *)
(* tool attempt that reaches record() becomes a row, or waits in the       *)
(* dead-letter queue, or its loss is reported at CRITICAL.  No queue, no   *)
(* drainer, no retries: only the fate of each record.                      *)
(***************************************************************************)
CONSTANT Records

VARIABLES
    fate,     \* what has become of each record
    alerted   \* the records a CRITICAL log line names

Fates == {"none", "pending", "queued", "stored", "lost"}

Init ==
    /\ fate = [r \in Records |-> "none"]
    /\ alerted = {}

Becomes(r, f) == fate' = [fate EXCEPT ![r] = f]

Accept(r) == fate[r] = "none" /\ Becomes(r, "pending") /\ UNCHANGED alerted

Store(r) ==
    /\ fate[r] \in {"pending", "queued"}
    /\ Becomes(r, "stored")
    /\ UNCHANGED alerted

Queue(r) == fate[r] = "pending" /\ Becomes(r, "queued") /\ UNCHANGED alerted

\* An alert may be false (the record is safe all the same), but a record is
\* only ever lost together with one.
Alert(r) ==
    /\ fate[r] # "none"
    /\ \/ UNCHANGED fate
       \/ /\ fate[r] \in {"pending", "queued"}
          /\ \E f \in {"queued", "stored", "lost"} : Becomes(r, f)
    /\ alerted' = alerted \cup {r}

Next == \E r \in Records : Accept(r) \/ Store(r) \/ Queue(r) \/ Alert(r)

Spec == Init /\ [][Next]_<<fate, alerted>>
=============================================================================
