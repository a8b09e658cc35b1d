----------------------------- MODULE AuditLogger -----------------------------
(***************************************************************************)
(* Layer 6: record() writes one PostgreSQL row per tool attempt and falls  *)
(* back to the Redis list audit:dlq; a background drainer replays the list *)
(* every 30 s.  Each command to PostgreSQL or Redis is an await and an     *)
(* action here.                                                            *)
(*                                                                         *)
(* Faults selects what may go wrong:                                       *)
(*   "db"        an INSERT fails                                           *)
(*   "ack"       an INSERT commits but its reply is lost                   *)
(*   "push"      the RPUSH of record() fails, applied or not               *)
(*   "pushback"  the LPUSH of the drainer fails                            *)
(*   "pop"       an LPOP fails, applied or not                             *)
(*   "cancel"    the request's task is cancelled inside record()           *)
(*   "shutdown"  the application shuts down and starts again               *)
(*   "crash"     the process dies and starts again                         *)
(***************************************************************************)
EXTENDS Naturals, Sequences

CONSTANTS
    Records,    \* tool attempts
    Poison,     \* those PostgreSQL refuses (a session_id over VARCHAR(255))
    MaxRetry,   \* _MAX_DLQ_RETRY
    Faults,
    None        \* the drainer holds no entry

AllFaults ==
    {"db", "ack", "push", "pushback", "pop", "cancel", "shutdown", "crash"}

ASSUME AuditAssumption ==
    /\ Poison \subseteq Records
    /\ MaxRetry \in Nat \ {0}
    /\ Faults \subseteq AllFaults
    /\ None \notin [rec : Records, retries : Nat]

VARIABLES
    stage,     \* how far record() is with each record
    rows,      \* audit_log: the number of rows of each record
    dlq,       \* the Redis list
    drainer,   \* where the drain loop is; "stopped" while the app is down
    hand,      \* the entry the drainer has popped
    alerted    \* records named by a CRITICAL log line

vars == <<stage, rows, dlq, drainer, hand, alerted>>

Entry == [rec : Records, retries : 0 .. MaxRetry]
Queued == {e \in Entry : e.retries < MaxRetry}
Active == {"writing", "pushing"}
Stages == {"none", "done"} \cup Active
DrainerStates == {"sleeping", "popping", "replaying", "returning", "stopped"}

Init ==
    /\ stage = [r \in Records |-> "none"]
    /\ rows = [r \in Records |-> 0]
    /\ dlq = <<>>
    /\ drainer = "sleeping"
    /\ hand = None
    /\ alerted = {}

Goto(r, s) == stage' = [stage EXCEPT ![r] = s]
Inserted(r) == rows' = [rows EXCEPT ![r] = @ + 1]

\* Definitions named ...Mutant stand for a plausible bug in the code of the
\* definition that follows them; no behaviour uses them.
CriticalMutant(r) == UNCHANGED alerted
Critical(r) == alerted' = alerted \cup {r}

-----------------------------------------------------------------------------
(* record()                                                                *)

Record(r) ==
    /\ drainer # "stopped"
    /\ stage[r] = "none"
    /\ Goto(r, "writing")
    /\ UNCHANGED <<rows, dlq, drainer, hand, alerted>>

Write(r) ==
    /\ stage[r] = "writing"
    /\ r \notin Poison
    /\ Inserted(r)
    /\ Goto(r, "done")
    /\ UNCHANGED <<dlq, drainer, hand, alerted>>

AfterFailedWriteMutant == "done"
AfterFailedWrite == "pushing"

WriteFails(r) ==
    /\ stage[r] = "writing"
    /\ \/ (r \in Poison \/ "db" \in Faults) /\ UNCHANGED rows
       \/ r \notin Poison /\ "ack" \in Faults /\ Inserted(r)
    /\ Goto(r, AfterFailedWrite)
    /\ UNCHANGED <<dlq, drainer, hand, alerted>>

DlqPush(r) ==
    /\ stage[r] = "pushing"
    /\ dlq' = Append(dlq, [rec |-> r, retries |-> 0])
    /\ Goto(r, "done")
    /\ UNCHANGED <<rows, drainer, hand, alerted>>

DlqPushFails(r) ==
    /\ "push" \in Faults
    /\ stage[r] = "pushing"
    /\ dlq' \in {dlq, Append(dlq, [rec |-> r, retries |-> 0])}
    /\ Critical(r)
    /\ Goto(r, "done")
    /\ UNCHANGED <<rows, drainer, hand>>

\* CancelledError is not an Exception: record() neither falls back nor logs.
\* A cancelled command that PostgreSQL or Redis applies all the same is
\* Write(r) or DlqPush(r); so it is with StopDrainer and Crash below.
CancelRecord(r) ==
    /\ "cancel" \in Faults
    /\ stage[r] \in Active
    /\ Goto(r, "done")
    /\ UNCHANGED <<rows, dlq, drainer, hand, alerted>>

-----------------------------------------------------------------------------
(* _drain_loop() and _drain_once()                                         *)

Wake ==
    /\ drainer = "sleeping"
    /\ drainer' = "popping"
    /\ UNCHANGED <<stage, rows, dlq, hand, alerted>>

PopEmpty ==
    /\ drainer = "popping"
    /\ dlq = <<>>
    /\ drainer' = "sleeping"
    /\ UNCHANGED <<stage, rows, dlq, hand, alerted>>

PoppedMutant == dlq
Popped == Tail(dlq)

CountedMutant(entry) == entry
Counted(entry) == [rec |-> entry.rec, retries |-> entry.retries + 1]

Pop ==
    /\ drainer = "popping"
    /\ dlq # <<>>
    /\ hand' = Counted(Head(dlq))
    /\ dlq' = Popped
    /\ drainer' = "replaying"
    /\ UNCHANGED <<stage, rows, alerted>>

\* The sweep ends in the loop's own handler, which logs at ERROR.
PopFails ==
    /\ "pop" \in Faults
    /\ drainer = "popping"
    /\ dlq' \in {dlq} \cup (IF dlq = <<>> THEN {} ELSE {Popped})
    /\ drainer' = "sleeping"
    /\ UNCHANGED <<stage, rows, hand, alerted>>

Replay ==
    /\ drainer = "replaying"
    /\ hand.rec \notin Poison
    /\ Inserted(hand.rec)
    /\ hand' = None
    /\ drainer' = "popping"
    /\ UNCHANGED <<stage, dlq, alerted>>

ExhaustedMutantLate == hand.retries > MaxRetry
ExhaustedMutantEarly == hand.retries >= MaxRetry - 1
Exhausted == hand.retries >= MaxRetry

ReplayFails ==
    /\ drainer = "replaying"
    /\ \/ (hand.rec \in Poison \/ "db" \in Faults) /\ UNCHANGED rows
       \/ hand.rec \notin Poison /\ "ack" \in Faults /\ Inserted(hand.rec)
    /\ \/ /\ Exhausted
          /\ Critical(hand.rec)
          /\ hand' = None
          /\ drainer' = "sleeping"
       \/ /\ ~Exhausted
          /\ drainer' = "returning"
          /\ UNCHANGED <<hand, alerted>>
    /\ UNCHANGED <<stage, dlq>>

PushedBackMutant == Append(dlq, hand)
PushedBack == <<hand>> \o dlq

PushBack ==
    /\ drainer = "returning"
    /\ dlq' = PushedBack
    /\ hand' = None
    /\ drainer' = "sleeping"
    /\ UNCHANGED <<stage, rows, alerted>>

PushBackFails ==
    /\ "pushback" \in Faults
    /\ drainer = "returning"
    /\ hand' = None
    /\ drainer' = "sleeping"
    /\ UNCHANGED <<stage, rows, dlq, alerted>>

-----------------------------------------------------------------------------
(* Shutdown, crash and restart                                             *)

\* stop_drainer() cancels the task wherever it waits; the server has let
\* the running requests finish before.
StopDrainer ==
    /\ "shutdown" \in Faults
    /\ drainer # "stopped"
    /\ \A r \in Records : stage[r] \notin Active
    /\ hand' = None
    /\ drainer' = "stopped"
    /\ UNCHANGED <<stage, rows, dlq, alerted>>

Crash ==
    /\ "crash" \in Faults
    /\ drainer # "stopped"
    /\ stage' = [r \in Records |-> IF stage[r] \in Active THEN "done" ELSE stage[r]]
    /\ hand' = None
    /\ drainer' = "stopped"
    /\ UNCHANGED <<rows, dlq, alerted>>

StartDrainer ==
    /\ drainer = "stopped"
    /\ drainer' = "sleeping"
    /\ UNCHANGED <<stage, rows, dlq, hand, alerted>>

-----------------------------------------------------------------------------
RecordStep(r) ==
    \/ Write(r) \/ WriteFails(r)
    \/ DlqPush(r) \/ DlqPushFails(r)
    \/ CancelRecord(r)

DrainerStep ==
    \/ Wake \/ PopEmpty \/ Pop \/ PopFails
    \/ Replay \/ ReplayFails
    \/ PushBack \/ PushBackFails

Next ==
    \/ \E r \in Records : Record(r) \/ RecordStep(r)
    \/ DrainerStep
    \/ StopDrainer \/ Crash \/ StartDrainer

Spec == Init /\ [][Next]_vars

\* Every command returns or fails in the end, and the drainer's sleep is
\* over after 30 s.
FairSpec ==
    /\ Spec
    /\ \A r \in Records : WF_vars(RecordStep(r))
    /\ WF_vars(DrainerStep)

-----------------------------------------------------------------------------
TypeOK ==
    /\ stage \in [Records -> Stages]
    /\ rows \in [Records -> Nat]
    /\ dlq \in Seq(Queued)
    /\ drainer \in DrainerStates
    /\ drainer = "replaying" => hand \in Entry
    /\ drainer = "returning" => hand \in Queued
    /\ drainer \notin {"replaying", "returning"} => hand = None
    /\ alerted \subseteq Records

Waiting(r) == \E i \in 1 .. Len(dlq) : dlq[i].rec = r
InHand(r) == hand # None /\ hand.rec = r

\* Where a record that has no row yet is kept.
Safe(r) == rows[r] > 0 \/ Waiting(r) \/ InHand(r)

(* README.md:187 "loss is always logged at CRITICAL": a record that        *)
(* record() has finished with is in the table, in the queue, in the        *)
(* drainer's hands, or named by a CRITICAL line.                           *)
NoSilentLoss ==
    \A r \in Records : stage[r] = "done" => Safe(r) \/ r \in alerted

\* The records in replay order, the one being replayed first.
Line ==
    (IF hand = None THEN <<>> ELSE <<hand.rec>>)
        \o [i \in 1 .. Len(dlq) |-> dlq[i].rec]

(* Records are replayed in the order they were queued: whatever the        *)
(* drainer and the requests do between a pop and a push-back, records      *)
(* leave the line at its front and join it at its end.                     *)
QueueOrderKept ==
    [][ \/ Line' = Line
        \/ Line # <<>> /\ Line' = Tail(Line)
        \/ \E r \in Records : Line' = Append(Line, r) ]_vars

(* A queued record is given up only after MaxRetry replays, and loudly.    *)
GivenUpOnlyWhenExhausted ==
    [][ \A r \in Records :
          (Waiting(r) \/ InHand(r)) /\ ~(Waiting(r) \/ InHand(r))' /\ rows'[r] = 0
              => hand.retries = MaxRetry /\ r \in alerted' ]_vars

(* A record is in one place at a time: held by record(), popped, queued    *)
(* (once), or written (once).                                              *)
SingleCustody ==
    /\ \A i, j \in 1 .. Len(dlq) : dlq[i].rec = dlq[j].rec => i = j
    /\ \A r \in Records :
          /\ rows[r] <= 1
          /\ stage[r] # "done" => rows[r] = 0 /\ ~Waiting(r) /\ ~InHand(r)
          /\ rows[r] = 1 => ~Waiting(r) /\ ~InHand(r)
          /\ ~(Waiting(r) /\ InHand(r))

(* init.sql:1 "one row per tool call attempt": an INSERT that commits while *)
(* its reply is lost is repeated, so a record may have several rows, but   *)
(* never more than one for its first INSERT and one for each replay:       *)
(* whatever fails, crashes and restarts, no path through the queue tries a *)
(* record more often.                                                      *)
RowsBounded == \A r \in Records : rows[r] <= MaxRetry + 1

(* Every record is settled in the end: it has a row or a CRITICAL line,    *)
(* and it no longer waits for a replay.  A row PostgreSQL always refuses   *)
(* blocks neither itself nor the rows queued behind it for ever.           *)
EverythingSettles ==
    \A r \in Records :
        stage[r] = "writing"
            ~> (rows[r] > 0 \/ r \in alerted) /\ ~Waiting(r) /\ ~InHand(r)

\* Refinement mapping to AuditLedger.
Fate(r) ==
    IF stage[r] = "none" THEN "none"
    ELSE IF rows[r] > 0 THEN "stored"
    ELSE IF stage[r] \in Active THEN "pending"
    ELSE IF Safe(r) THEN "queued"
    ELSE "lost"

Ledger == INSTANCE AuditLedger WITH fate <- [r \in Records |-> Fate(r)]

LedgerSpec == Ledger!Spec
=============================================================================
