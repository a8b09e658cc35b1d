------------------------- MODULE AuditLogger_proofs -------------------------
(***************************************************************************)
(* The audit layer for any set of records, any number of retries and any   *)
(* number of failures:                                                     *)
(*   TypeCorrect  the variables keep their types; in particular an entry   *)
(*                in the queue has been replayed fewer than MaxRetry times *)
(*   InOnePlace   without a lost INSERT reply a record is in one place at  *)
(*                a time, whatever else fails, crashes included            *)
(*   RowsLimited  whatever fails, a record never has more rows than its    *)
(*                first INSERT and MaxRetry replays can have written       *)
(*   LossIsLoud   while only INSERTs and the first RPUSH fail, a record is *)
(*                never lost without a CRITICAL line                       *)
(*   KeepsLedger  under these faults the layer implements AuditLedger      *)
(*   OrderKept    records are replayed in order, whatever fails            *)
(*   GivenUpLate  under these faults a queued record is given up only      *)
(*                after MaxRetry replays, and loudly                       *)
(***************************************************************************)
EXTENDS AuditLogger, SequenceTheorems, TLAPS

LEMMA QueueTypes ==
    /\ \A e \in Queued : e \in Entry /\ e.rec \in Records
    /\ \A e \in Entry : e.rec \in Records /\ e.retries \in 0 .. MaxRetry /\ e # None
    /\ \A e \in Queued : Counted(e) \in Entry /\ Counted(e).rec = e.rec
    /\ \A r \in Records : [rec |-> r, retries |-> 0] \in Queued
BY AuditAssumption DEF Queued, Entry, Counted

\* The three ways the queue changes, element by element.
LEMMA AppendQueue ==
    ASSUME NEW q \in Seq(Queued), NEW r \in Records
    PROVE  LET q2 == Append(q, [rec |-> r, retries |-> 0])
           IN  /\ q2 \in Seq(Queued)
               /\ Len(q2) = Len(q) + 1 /\ Len(q) \in Nat
               /\ \A i \in 1 .. Len(q) : q2[i] = q[i]
               /\ q2[Len(q) + 1].rec = r
BY QueueTypes, AppendProperties, LenProperties

LEMMA PopQueue ==
    ASSUME NEW q \in Seq(Queued), q # <<>>
    PROVE  /\ Head(q) \in Queued /\ Head(q) = q[1]
           /\ Tail(q) \in Seq(Queued)
           /\ Len(Tail(q)) = Len(q) - 1 /\ Len(q) \in Nat /\ Len(q) > 0
           /\ \A i \in 1 .. Len(q) - 1 : Tail(q)[i] = q[i + 1]
BY HeadTailProperties, LenProperties, EmptySeq

LEMMA PushBackQueue ==
    ASSUME NEW q \in Seq(Queued), NEW e \in Queued
    PROVE  LET q2 == <<e>> \o q
           IN  /\ q2 \in Seq(Queued)
               /\ Len(q2) = Len(q) + 1 /\ Len(q) \in Nat
               /\ q2[1] = e
               /\ \A i \in 1 .. Len(q) : q2[i + 1] = q[i]
<1>1. <<e>> \in Seq(Queued) /\ Len(<<e>>) = 1 /\ <<e>>[1] = e
  OBVIOUS
<1>2. Len(q) \in Nat
  BY LenProperties
<1> QED BY <1>1, <1>2, ConcatProperties

(* The variables keep their types.                                         *)
THEOREM TypeCorrect == Spec => []TypeOK
<1> USE AuditAssumption DEF TypeOK, Stages, Active, DrainerStates, Goto, Critical
<1>1. Init => TypeOK
  BY EmptySeq DEF Init
<1>2. TypeOK /\ [Next]_vars => TypeOK'
  <2> SUFFICES ASSUME TypeOK, [Next]_vars PROVE TypeOK'
    OBVIOUS
  <2>1. ASSUME NEW r \in Records, Record(r) PROVE TypeOK'
    BY <2>1 DEF Record
  <2>2. ASSUME NEW r \in Records, RecordStep(r) PROVE TypeOK'
    <3>1. CASE Write(r)         BY <3>1 DEF Write, Inserted
    <3>2. CASE WriteFails(r)    BY <3>2 DEF WriteFails, Inserted, AfterFailedWrite
    <3>3. CASE DlqPush(r)       BY <3>3, AppendQueue DEF DlqPush
    <3>4. CASE DlqPushFails(r)
      <4>1. Append(dlq, [rec |-> r, retries |-> 0]) \in Seq(Queued)
        BY AppendQueue
      <4> QED BY <3>4, <4>1 DEF DlqPushFails
    <3>5. CASE CancelRecord(r)  BY <3>5 DEF CancelRecord
    <3> QED BY <2>2, <3>1, <3>2, <3>3, <3>4, <3>5 DEF RecordStep
  <2>3. CASE Wake          BY <2>3 DEF Wake
  <2>4. CASE PopEmpty      BY <2>4 DEF PopEmpty
  <2>5. CASE Pop
    BY <2>5, PopQueue, QueueTypes DEF Pop, Popped
  <2>6. CASE PopFails      BY <2>6, PopQueue DEF PopFails, Popped
  <2>7. CASE Replay
    BY <2>7, QueueTypes DEF Replay, Inserted
  <2>8. CASE ReplayFails
    <3>1. hand \in Entry /\ hand.rec \in Records
      BY <2>8, QueueTypes DEF ReplayFails
    <3>2. rows' \in [Records -> Nat]
      BY <2>8, <3>1 DEF ReplayFails, Inserted
    <3>3. CASE Exhausted
      BY <2>8, <3>1, <3>2, <3>3 DEF ReplayFails
    <3>4. CASE ~Exhausted
      <4>1. hand \in Queued
        BY <3>1, <3>4, QueueTypes DEF Exhausted, Queued
      <4> QED BY <2>8, <3>2, <3>4, <4>1 DEF ReplayFails
    <3> QED BY <3>3, <3>4
  <2>9. CASE PushBack
    BY <2>9, PushBackQueue DEF PushBack, PushedBack
  <2>10. CASE PushBackFails BY <2>10 DEF PushBackFails
  <2>11. CASE StopDrainer   BY <2>11 DEF StopDrainer
  <2>12. CASE Crash         BY <2>12 DEF Crash
  <2>13. CASE StartDrainer  BY <2>13 DEF StartDrainer
  <2>14. CASE UNCHANGED vars BY <2>14 DEF vars
  <2> QED
    BY <2>1, <2>2, <2>3, <2>4, <2>5, <2>6, <2>7, <2>8, <2>9, <2>10, <2>11,
       <2>12, <2>13, <2>14 DEF Next, DrainerStep
<1> QED BY <1>1, <1>2, PTL DEF Spec

-----------------------------------------------------------------------------
\* Where the records of the queue are after each kind of change.
LEMMA WaitingAppended ==
    ASSUME TypeOK, NEW r \in Records,
           dlq' = Append(dlq, [rec |-> r, retries |-> 0])
    PROVE  \A x \in Records : Waiting(x)' <=> Waiting(x) \/ x = r
<1> SUFFICES ASSUME NEW x \in Records PROVE Waiting(x)' <=> Waiting(x) \/ x = r
  OBVIOUS
<1>1. /\ Len(dlq') = Len(dlq) + 1 /\ Len(dlq) \in Nat
      /\ \A i \in 1 .. Len(dlq) : dlq'[i] = dlq[i]
      /\ dlq'[Len(dlq) + 1].rec = r
  BY AppendQueue DEF TypeOK
<1> QED BY <1>1 DEF Waiting

LEMMA WaitingPopped ==
    ASSUME TypeOK, dlq # <<>>, dlq' = Tail(dlq)
    PROVE  /\ Head(dlq) \in Queued
           /\ \A x \in Records : Waiting(x) <=> Waiting(x)' \/ Head(dlq).rec = x
<1>1. /\ Head(dlq) \in Queued /\ Head(dlq) = dlq[1]
      /\ Len(dlq') = Len(dlq) - 1 /\ Len(dlq) \in Nat /\ Len(dlq) > 0
      /\ \A i \in 1 .. Len(dlq) - 1 : dlq'[i] = dlq[i + 1]
  BY PopQueue DEF TypeOK
<1> SUFFICES ASSUME NEW x \in Records
             PROVE  Waiting(x) <=> Waiting(x)' \/ Head(dlq).rec = x
  BY <1>1
<1>2. Waiting(x)' => Waiting(x)
  BY <1>1 DEF Waiting
<1>3. Head(dlq).rec = x => Waiting(x)
  BY <1>1 DEF Waiting
<1>4. Waiting(x) => Waiting(x)' \/ Head(dlq).rec = x
  <2> SUFFICES ASSUME NEW i \in 1 .. Len(dlq), dlq[i].rec = x, i # 1
               PROVE  Waiting(x)'
    BY <1>1 DEF Waiting
  <2>1. i - 1 \in 1 .. Len(dlq') /\ dlq'[i - 1] = dlq[i]
    BY <1>1
  <2> QED BY <2>1 DEF Waiting
<1> QED BY <1>1, <1>2, <1>3, <1>4

LEMMA WaitingPushedBack ==
    ASSUME TypeOK, hand \in Queued, dlq' = <<hand>> \o dlq
    PROVE  \A x \in Records : Waiting(x)' <=> Waiting(x) \/ hand.rec = x
<1> SUFFICES ASSUME NEW x \in Records
             PROVE  Waiting(x)' <=> Waiting(x) \/ hand.rec = x
  OBVIOUS
<1>1. /\ Len(dlq') = Len(dlq) + 1 /\ Len(dlq) \in Nat
      /\ dlq'[1] = hand
      /\ \A i \in 1 .. Len(dlq) : dlq'[i + 1] = dlq[i]
  BY PushBackQueue DEF TypeOK
<1>2. Waiting(x) => Waiting(x)'
  <2> SUFFICES ASSUME NEW i \in 1 .. Len(dlq), dlq[i].rec = x PROVE Waiting(x)'
    BY DEF Waiting
  <2>1. i + 1 \in 1 .. Len(dlq') /\ dlq'[i + 1].rec = x
    BY <1>1
  <2> QED BY <2>1 DEF Waiting
<1>3. hand.rec = x => Waiting(x)'
  BY <1>1 DEF Waiting
<1>4. Waiting(x)' => Waiting(x) \/ hand.rec = x
  <2> SUFFICES ASSUME NEW i \in 1 .. Len(dlq'), dlq'[i].rec = x, i # 1
               PROVE  Waiting(x)
    BY <1>1 DEF Waiting
  <2>1. i - 1 \in 1 .. Len(dlq) /\ dlq'[i] = dlq[i - 1]
    BY <1>1
  <2> QED BY <2>1 DEF Waiting
<1> QED BY <1>2, <1>3, <1>4

-----------------------------------------------------------------------------
\* The faults the layer is built for.
HandledFaults == Faults \subseteq {"db", "ack", "push"}

\* NoSilentLoss is inductive under those faults: whoever gives a record up
\* has put it somewhere else or names it in a CRITICAL line.
LEMMA StepKeepsRecords ==
    ASSUME HandledFaults, TypeOK, NoSilentLoss, [Next]_vars
    PROVE  NoSilentLoss'
<1> USE DEF Goto, Stages, Active
<1> SUFFICES ASSUME NEW x \in Records, stage'[x] = "done"
             PROVE  Safe(x)' \/ x \in alerted'
  BY DEF NoSilentLoss
<1>a. stage[x] = "done" => Safe(x) \/ x \in alerted
  BY DEF NoSilentLoss
<1>1. ASSUME NEW r \in Records, Record(r) PROVE Safe(x)' \/ x \in alerted'
  <2>1. stage[x] = "done" /\ UNCHANGED <<rows, dlq, hand, alerted>>
    BY <1>1 DEF Record, TypeOK
  <2> QED BY <1>a, <2>1 DEF Safe, Waiting, InHand
<1>2. ASSUME NEW r \in Records, Write(r) PROVE Safe(x)' \/ x \in alerted'
  <2>1. CASE x = r
    BY <1>2, <2>1 DEF Write, Inserted, TypeOK, Safe
  <2>2. CASE x # r
    <3>1. stage[x] = "done" /\ rows'[x] = rows[x] /\ UNCHANGED <<dlq, hand, alerted>>
      BY <1>2, <2>2 DEF Write, Inserted, TypeOK
    <3> QED BY <1>a, <3>1 DEF Safe, Waiting, InHand
  <2> QED BY <2>1, <2>2
<1>3. ASSUME NEW r \in Records, WriteFails(r) PROVE Safe(x)' \/ x \in alerted'
  <2>1. stage[x] = "done" /\ UNCHANGED <<dlq, hand, alerted>>
    BY <1>3 DEF WriteFails, AfterFailedWrite, TypeOK
  <2>2. rows'[x] >= rows[x] /\ rows[x] \in Nat /\ rows'[x] \in Nat
    BY <1>3 DEF WriteFails, Inserted, TypeOK
  <2> QED BY <1>a, <2>1, <2>2 DEF Safe, Waiting, InHand
<1>4. ASSUME NEW r \in Records, DlqPush(r) PROVE Safe(x)' \/ x \in alerted'
  <2>1. \A y \in Records : Waiting(y)' <=> Waiting(y) \/ y = r
    BY <1>4, WaitingAppended DEF DlqPush
  <2>2. UNCHANGED <<rows, hand, alerted>> /\ (x # r => stage[x] = "done")
    BY <1>4 DEF DlqPush, TypeOK
  <2> QED BY <1>a, <2>1, <2>2 DEF Safe, InHand
<1>5. ASSUME NEW r \in Records, DlqPushFails(r) PROVE Safe(x)' \/ x \in alerted'
  <2>1. UNCHANGED <<rows, hand>> /\ alerted' = alerted \cup {r}
        /\ (x # r => stage[x] = "done")
    BY <1>5 DEF DlqPushFails, Critical, TypeOK
  <2>2. Waiting(x) => Waiting(x)'
    <3>1. CASE dlq' = dlq BY <3>1 DEF Waiting
    <3>2. CASE dlq' = Append(dlq, [rec |-> r, retries |-> 0])
      BY <3>2, WaitingAppended
    <3> QED BY <1>5, <3>1, <3>2 DEF DlqPushFails
  <2> QED BY <1>a, <2>1, <2>2 DEF Safe, InHand
<1>6. CASE Wake \/ PopEmpty \/ StartDrainer \/ UNCHANGED vars
  <2>1. UNCHANGED <<stage, rows, dlq, hand, alerted>>
    BY <1>6 DEF Wake, PopEmpty, StartDrainer, vars
  <2> QED BY <1>a, <2>1 DEF Safe, Waiting, InHand
<1>7. CASE Pop
  <2>1. Head(dlq) \in Queued
        /\ \A y \in Records : Waiting(y) <=> Waiting(y)' \/ Head(dlq).rec = y
    BY <1>7, WaitingPopped DEF Pop, Popped
  <2>2. UNCHANGED <<stage, rows, alerted>> /\ hand' # None
        /\ hand'.rec = Head(dlq).rec
    BY <1>7, <2>1, QueueTypes DEF Pop
  <2>3. hand = None
    BY <1>7 DEF Pop, TypeOK
  <2> QED BY <1>a, <2>1, <2>2, <2>3 DEF Safe, InHand
<1>8. CASE Replay
  <2>1. hand.rec \in Records
    BY <1>8, QueueTypes DEF Replay, TypeOK
  <2>2. UNCHANGED <<stage, dlq, alerted>> /\ rows'[hand.rec] = rows[hand.rec] + 1
        /\ \A y \in Records : y # hand.rec => rows'[y] = rows[y]
    BY <1>8, <2>1 DEF Replay, Inserted, TypeOK
  <2>3. rows[hand.rec] \in Nat
    BY <2>1 DEF TypeOK
  <2>4. CASE x = hand.rec
    BY <2>2, <2>3, <2>4 DEF Safe
  <2>5. CASE x # hand.rec
    BY <1>a, <2>2, <2>5 DEF Safe, Waiting, InHand
  <2> QED BY <2>4, <2>5
<1>9. CASE ReplayFails
  <2>1. hand.rec \in Records
    BY <1>9, QueueTypes DEF ReplayFails, TypeOK
  <2>2. UNCHANGED <<stage, dlq>> /\ rows'[x] >= rows[x] /\ rows[x] \in Nat /\ rows'[x] \in Nat
    BY <1>9, <2>1 DEF ReplayFails, Inserted, TypeOK
  <2>3. CASE Exhausted
    <3>1. alerted' = alerted \cup {hand.rec}
      BY <1>9, <2>3 DEF ReplayFails, Critical
    <3> QED BY <1>a, <2>2, <3>1 DEF Safe, Waiting, InHand
  <2>4. CASE ~Exhausted
    <3>1. UNCHANGED <<hand, alerted>>
      BY <1>9, <2>4 DEF ReplayFails
    <3> QED BY <1>a, <2>2, <3>1 DEF Safe, Waiting, InHand
  <2> QED BY <2>3, <2>4
<1>10. CASE PushBack
  <2>1. \A y \in Records : Waiting(y)' <=> Waiting(y) \/ hand.rec = y
    BY <1>10, WaitingPushedBack DEF PushBack, PushedBack, TypeOK
  <2>2. UNCHANGED <<stage, rows, alerted>>
    BY <1>10 DEF PushBack
  <2> QED BY <1>a, <2>1, <2>2 DEF Safe, InHand
<1>11. ~PopFails /\ ~PushBackFails /\ ~StopDrainer /\ ~Crash
  BY DEF HandledFaults, PopFails, PushBackFails, StopDrainer, Crash
<1>12. \A r \in Records : ~CancelRecord(r)
  BY DEF HandledFaults, CancelRecord
<1> QED
  BY <1>1, <1>2, <1>3, <1>4, <1>5, <1>6, <1>7, <1>8, <1>9, <1>10, <1>11, <1>12
  DEF Next, RecordStep, DrainerStep

(* Under those faults a record is never lost without a CRITICAL line.      *)
THEOREM LossIsLoud ==
    ASSUME HandledFaults
    PROVE  Spec => []NoSilentLoss
<1>1. Init => NoSilentLoss
  BY DEF Init, NoSilentLoss
<1>2. TypeOK /\ NoSilentLoss /\ [Next]_vars => NoSilentLoss'
  BY StepKeepsRecords
<1> QED BY <1>1, <1>2, TypeCorrect, PTL DEF Spec

-----------------------------------------------------------------------------
\* The queue holds no record twice.
Unique(q) == \A i, j \in 1 .. Len(q) : q[i].rec = q[j].rec => i = j

\* What SingleCustody says of one record.
Custody(r) ==
    /\ rows[r] <= 1
    /\ stage[r] # "done" => rows[r] = 0 /\ ~Waiting(r) /\ ~InHand(r)
    /\ rows[r] = 1 => ~Waiting(r) /\ ~InHand(r)
    /\ ~(Waiting(r) /\ InHand(r))

LEMMA CustodyOfAll == SingleCustody <=> Unique(dlq) /\ \A r \in Records : Custody(r)
BY DEF SingleCustody, Unique, Custody

\* A record joins the queue, at either end, only when it is not in it.
LEMMA UniqueAppended ==
    ASSUME TypeOK, Unique(dlq), NEW r \in Records, ~Waiting(r),
           dlq' = Append(dlq, [rec |-> r, retries |-> 0])
    PROVE  Unique(dlq')
<1>1. /\ Len(dlq') = Len(dlq) + 1 /\ Len(dlq) \in Nat
      /\ \A i \in 1 .. Len(dlq) : dlq'[i] = dlq[i]
      /\ dlq'[Len(dlq) + 1].rec = r
  BY AppendQueue DEF TypeOK
<1> QED BY <1>1 DEF Unique, Waiting

LEMMA UniquePopped ==
    ASSUME TypeOK, Unique(dlq), dlq # <<>>, dlq' = Tail(dlq)
    PROVE  /\ Unique(dlq')
           /\ \A x \in Records : Head(dlq).rec = x => ~Waiting(x)'
<1>1. /\ Head(dlq) = dlq[1]
      /\ Len(dlq') = Len(dlq) - 1 /\ Len(dlq) \in Nat /\ Len(dlq) > 0
      /\ \A i \in 1 .. Len(dlq) - 1 : dlq'[i] = dlq[i + 1]
  BY PopQueue DEF TypeOK
<1>2. \A i \in 1 .. Len(dlq') : i + 1 \in 1 .. Len(dlq) /\ dlq'[i] = dlq[i + 1]
  BY <1>1
<1>3. Unique(dlq')
  <2> SUFFICES ASSUME NEW i \in 1 .. Len(dlq'), NEW j \in 1 .. Len(dlq'),
                      dlq'[i].rec = dlq'[j].rec
               PROVE  i = j
    BY DEF Unique
  <2>1. i + 1 = j + 1
    BY <1>2 DEF Unique
  <2> QED BY <2>1, <1>1
<1>4. ASSUME NEW x \in Records, Head(dlq).rec = x
      PROVE  ~Waiting(x)'
  <2> SUFFICES ASSUME NEW i \in 1 .. Len(dlq'), dlq'[i].rec = x
               PROVE  FALSE
    BY DEF Waiting
  <2>1. i + 1 = 1
    BY <1>1, <1>2, <1>4 DEF Unique
  <2> QED BY <2>1, <1>1
<1> QED BY <1>3, <1>4

LEMMA UniquePushedBack ==
    ASSUME TypeOK, Unique(dlq), hand \in Queued, ~Waiting(hand.rec),
           dlq' = <<hand>> \o dlq
    PROVE  Unique(dlq')
<1>1. /\ Len(dlq') = Len(dlq) + 1 /\ Len(dlq) \in Nat
      /\ dlq'[1] = hand
      /\ \A i \in 1 .. Len(dlq) : dlq'[i + 1] = dlq[i]
  BY PushBackQueue DEF TypeOK
<1>2. \A i \in 1 .. Len(dlq') : i # 1 => i - 1 \in 1 .. Len(dlq) /\ dlq'[i] = dlq[i - 1]
  BY <1>1
<1> SUFFICES ASSUME NEW i \in 1 .. Len(dlq'), NEW j \in 1 .. Len(dlq'),
                    dlq'[i].rec = dlq'[j].rec
             PROVE  i = j
  BY DEF Unique
<1>3. CASE i = 1 /\ j # 1 BY <1>1, <1>2, <1>3 DEF Waiting
<1>4. CASE i # 1 /\ j = 1 BY <1>1, <1>2, <1>4 DEF Waiting
<1>5. CASE i # 1 /\ j # 1
  <2>1. /\ i - 1 \in 1 .. Len(dlq) /\ j - 1 \in 1 .. Len(dlq)
        /\ dlq[i - 1].rec = dlq[j - 1].rec
    BY <1>2, <1>5
  <2>2. i - 1 = j - 1
    BY <2>1 DEF Unique
  <2> QED BY <2>2, <1>1
<1> QED BY <1>3, <1>4, <1>5

\* SingleCustody is inductive when no INSERT is reported failed that was
\* committed.
LEMMA StepKeepsCustody ==
    ASSUME "ack" \notin Faults, TypeOK, SingleCustody, [Next]_vars
    PROVE  SingleCustody'
<1> USE DEF Goto, Stages, Active
<1>a. Unique(dlq) /\ \A r \in Records : Custody(r)
  BY CustodyOfAll
<1>g. Unique(dlq') /\ (\A r \in Records : Custody(r)') => SingleCustody'
  BY DEF SingleCustody, Unique, Custody
<1>1. ASSUME NEW r \in Records, Record(r) \/ WriteFails(r) \/ CancelRecord(r)
      PROVE  SingleCustody'
  <2>1. UNCHANGED <<rows, dlq, hand>>
    BY <1>1 DEF Record, WriteFails, CancelRecord
  <2>2. \A x \in Records : stage'[x] # "done" => stage[x] # "done"
    BY <1>1 DEF Record, WriteFails, CancelRecord, AfterFailedWrite, TypeOK
  <2>3. \A x \in Records : Custody(x)'
    BY <1>a, <2>1, <2>2 DEF Custody, Waiting, InHand
  <2> QED BY <1>a, <1>g, <2>1, <2>3
<1>2. ASSUME NEW r \in Records, Write(r) PROVE SingleCustody'
  <2>1. UNCHANGED <<dlq, hand>> /\ stage'[r] = "done" /\ rows'[r] = 1
        /\ ~Waiting(r) /\ ~InHand(r)
    BY <1>2, <1>a DEF Write, Inserted, Custody, TypeOK
  <2>2. \A x \in Records : x # r => rows'[x] = rows[x] /\ stage'[x] = stage[x]
    BY <1>2 DEF Write, Inserted, TypeOK
  <2>3. \A x \in Records : Custody(x)'
    BY <1>a, <2>1, <2>2 DEF Custody, Waiting, InHand
  <2> QED BY <1>a, <1>g, <2>1, <2>3
<1>3. ASSUME NEW r \in Records, DlqPush(r) \/ DlqPushFails(r) PROVE SingleCustody'
  <2>1. UNCHANGED <<rows, hand>> /\ rows[r] = 0 /\ ~Waiting(r) /\ ~InHand(r)
        /\ stage'[r] = "done" /\ \A x \in Records : x # r => stage'[x] = stage[x]
    BY <1>3, <1>a DEF DlqPush, DlqPushFails, Custody, TypeOK
  <2>2. Unique(dlq') /\ \A x \in Records : Waiting(x)' => Waiting(x) \/ x = r
    <3>1. CASE dlq' = dlq BY <1>a, <3>1 DEF Waiting
    <3>2. CASE dlq' = Append(dlq, [rec |-> r, retries |-> 0])
      BY <1>a, <2>1, <3>2, UniqueAppended, WaitingAppended
    <3> QED BY <1>3, <3>1, <3>2 DEF DlqPush, DlqPushFails
  <2>3. \A x \in Records : Custody(x)'
    BY <1>a, <2>1, <2>2 DEF Custody, InHand
  <2> QED BY <1>g, <2>2, <2>3
<1>4. CASE Wake \/ PopEmpty \/ StartDrainer \/ UNCHANGED vars
  <2>1. UNCHANGED <<stage, rows, dlq, hand>>
    BY <1>4 DEF Wake, PopEmpty, StartDrainer, vars
  <2>2. \A x \in Records : Custody(x)'
    BY <1>a, <2>1 DEF Custody, Waiting, InHand
  <2> QED BY <1>a, <1>g, <2>1, <2>2
<1>5. CASE Pop
  <2>1. UNCHANGED <<stage, rows>> /\ hand = None /\ hand'.rec = Head(dlq).rec
    BY <1>5, WaitingPopped, QueueTypes DEF Pop, Popped, TypeOK
  <2>2. /\ Unique(dlq')
        /\ \A x \in Records : Head(dlq).rec = x => ~Waiting(x)'
        /\ \A x \in Records : Waiting(x) <=> Waiting(x)' \/ Head(dlq).rec = x
    BY <1>5, <1>a, UniquePopped, WaitingPopped DEF Pop, Popped
  <2>3. ASSUME NEW x \in Records PROVE Custody(x)'
    BY <1>a, <2>1, <2>2, <2>3 DEF Custody, InHand
  <2> QED BY <1>g, <2>2, <2>3
<1>6. CASE PopFails
  <2>1. UNCHANGED <<stage, rows, hand>>
    BY <1>6 DEF PopFails
  <2>2. Unique(dlq') /\ \A x \in Records : Waiting(x)' => Waiting(x)
    <3>1. CASE dlq' = dlq BY <1>a, <3>1 DEF Waiting
    <3>2. CASE dlq # <<>> /\ dlq' = Tail(dlq)
      BY <1>a, <3>2, UniquePopped, WaitingPopped
    <3> QED BY <1>6, <3>1, <3>2 DEF PopFails, Popped
  <2>3. \A x \in Records : Custody(x)'
    BY <1>a, <2>1, <2>2 DEF Custody, InHand
  <2> QED BY <1>g, <2>2, <2>3
<1>7. CASE Replay
  <2>1. hand.rec \in Records /\ hand # None
    BY <1>7, QueueTypes DEF Replay, TypeOK
  <2>2. UNCHANGED <<stage, dlq>> /\ hand' = None
        /\ rows'[hand.rec] = rows[hand.rec] + 1
        /\ \A x \in Records : x # hand.rec => rows'[x] = rows[x]
    BY <1>7, <2>1 DEF Replay, Inserted, TypeOK
  <2>3. rows[hand.rec] = 0 /\ stage[hand.rec] = "done" /\ ~Waiting(hand.rec)
    BY <1>a, <2>1 DEF Custody, InHand, TypeOK
  <2>4. \A x \in Records : Custody(x)'
    BY <1>a, <2>1, <2>2, <2>3 DEF Custody, Waiting, InHand
  <2> QED BY <1>a, <1>g, <2>2, <2>4
<1>8. CASE ReplayFails \/ PushBackFails \/ StopDrainer \/ Crash
  <2>1. UNCHANGED <<rows, dlq>> /\ hand' \in {hand, None}
    BY <1>8 DEF ReplayFails, PushBackFails, StopDrainer, Crash
  <2>2. \A x \in Records : stage'[x] # "done" => stage[x] # "done"
    BY <1>8 DEF ReplayFails, PushBackFails, StopDrainer, Crash, TypeOK
  <2>3. \A x \in Records : Custody(x)'
    BY <1>a, <2>1, <2>2 DEF Custody, Waiting, InHand
  <2> QED BY <1>a, <1>g, <2>1, <2>3
<1>9. CASE PushBack
  <2>1. UNCHANGED <<stage, rows>> /\ hand' = None /\ hand \in Queued /\ hand # None
        /\ hand.rec \in Records
    BY <1>9, QueueTypes DEF PushBack, TypeOK
  <2>2. rows[hand.rec] = 0 /\ stage[hand.rec] = "done" /\ ~Waiting(hand.rec)
    BY <1>a, <2>1 DEF Custody, InHand, TypeOK
  <2>3. Unique(dlq') /\ \A x \in Records : Waiting(x)' <=> Waiting(x) \/ hand.rec = x
    BY <1>9, <1>a, <2>1, <2>2, UniquePushedBack, WaitingPushedBack
    DEF PushBack, PushedBack
  <2>4. \A x \in Records : Custody(x)'
    BY <1>a, <2>1, <2>2, <2>3 DEF Custody, InHand
  <2> QED BY <1>g, <2>3, <2>4
<1> QED
  BY <1>1, <1>2, <1>3, <1>4, <1>5, <1>6, <1>7, <1>8, <1>9
  DEF Next, RecordStep, DrainerStep

(* Without a lost INSERT reply, every record is in one place at a time,    *)
(* whatever crashes.                                                       *)
THEOREM InOnePlace ==
    ASSUME "ack" \notin Faults
    PROVE  Spec => []SingleCustody
<1>1. Init => SingleCustody
  BY DEF Init, SingleCustody, Waiting, InHand
<1>2. TypeOK /\ SingleCustody /\ [Next]_vars => SingleCustody'
  BY StepKeepsCustody
<1> QED BY <1>1, <1>2, TypeCorrect, PTL DEF Spec

-----------------------------------------------------------------------------
(* The refinement of AuditLedger.  record() is done with a record before   *)
(* the record is queued, and has written no row before its INSERT.         *)

Held(r) == Waiting(r) \/ InHand(r)

Placed ==
    \A r \in Records :
        /\ stage[r] \in {"none", "writing"} => rows[r] = 0
        /\ Held(r) => stage[r] = "done"

\* What the steps that only move the queue and the hand do to Held.
LEMMA HeldKept ==
    ASSUME TypeOK,
           \/ UNCHANGED <<dlq, hand>>
           \/ Pop \/ PushBack
    PROVE  \A x \in Records : Held(x)' <=> Held(x)
<1>1. CASE UNCHANGED <<dlq, hand>>
  BY <1>1 DEF Held, Waiting, InHand
<1>2. CASE Pop
  <2>1. /\ Head(dlq) \in Queued
        /\ \A y \in Records : Waiting(y) <=> Waiting(y)' \/ Head(dlq).rec = y
    BY <1>2, WaitingPopped DEF Pop, Popped
  <2>2. hand = None /\ hand' # None /\ hand'.rec = Head(dlq).rec
    BY <1>2, <2>1, QueueTypes DEF Pop, TypeOK
  <2> QED BY <2>1, <2>2 DEF Held, InHand
<1>3. CASE PushBack
  <2>1. hand \in Queued /\ hand # None /\ hand' = None
    BY <1>3, QueueTypes DEF PushBack, TypeOK
  <2>2. \A y \in Records : Waiting(y)' <=> Waiting(y) \/ hand.rec = y
    BY <1>3, <2>1, WaitingPushedBack DEF PushBack, PushedBack
  <2> QED BY <2>1, <2>2 DEF Held, InHand
<1> QED BY <1>1, <1>2, <1>3

\* A record leaves the hand, or the queue.
LEMMA HeldDropped ==
    ASSUME TypeOK,
           \/ UNCHANGED dlq /\ hand' = None
           \/ PopFails
    PROVE  \A x \in Records : Held(x)' => Held(x)
<1>1. CASE UNCHANGED dlq /\ hand' = None
  BY <1>1 DEF Held, Waiting, InHand
<1>2. CASE PopFails
  <2>1. UNCHANGED hand /\ \A x \in Records : Waiting(x)' => Waiting(x)
    <3>1. CASE dlq' = dlq
      BY <1>2, <3>1 DEF PopFails, Waiting
    <3>2. CASE dlq # <<>> /\ dlq' = Tail(dlq)
      BY <1>2, <3>2, WaitingPopped DEF PopFails
    <3> QED BY <1>2, <3>1, <3>2 DEF PopFails, Popped
  <2> QED BY <2>1 DEF Held, InHand
<1> QED BY <1>1, <1>2

LEMMA StepKeepsPlaced ==
    ASSUME TypeOK, Placed, [Next]_vars
    PROVE  Placed'
<1> USE DEF Goto, Stages, Active
<1>a. \A x \in Records : (stage[x] \in {"none", "writing"} => rows[x] = 0)
                         /\ (Held(x) => stage[x] = "done")
  BY DEF Placed
<1>b. ASSUME \A x \in Records :
                /\ stage'[x] \in {"none", "writing"} => rows'[x] = 0
                /\ Held(x)' => stage'[x] = "done"
      PROVE  Placed'
  BY <1>b DEF Placed
<1>1. ASSUME NEW r \in Records, Record(r) \/ CancelRecord(r) \/ WriteFails(r)
      PROVE  Placed'
  <2>1. /\ stage[r] # "done"
        /\ \A x \in Records : x # r => stage'[x] = stage[x] /\ rows'[x] = rows[x]
        /\ stage'[r] \in {"none", "writing"} => rows'[r] = 0
    BY <1>1, <1>a DEF Record, CancelRecord, WriteFails, AfterFailedWrite, Inserted, TypeOK
  <2>2. UNCHANGED <<dlq, hand>>
    BY <1>1 DEF Record, CancelRecord, WriteFails
  <2>3. \A x \in Records : Held(x)' <=> Held(x)
    BY <2>2, HeldKept
  <2> QED BY <1>a, <1>b, <2>1, <2>3
<1>2. ASSUME NEW r \in Records, Write(r) PROVE Placed'
  <2>1. /\ stage'[r] = "done" /\ UNCHANGED <<dlq, hand>>
        /\ \A x \in Records : x # r => stage'[x] = stage[x] /\ rows'[x] = rows[x]
    BY <1>2 DEF Write, Inserted, TypeOK
  <2>2. \A x \in Records : Held(x)' <=> Held(x)
    BY <2>1, HeldKept
  <2> QED BY <1>a, <1>b, <2>1, <2>2
<1>3. ASSUME NEW r \in Records, DlqPush(r) \/ DlqPushFails(r) PROVE Placed'
  <2>1. /\ stage'[r] = "done" /\ UNCHANGED <<rows, hand>>
        /\ \A x \in Records : x # r => stage'[x] = stage[x]
    BY <1>3 DEF DlqPush, DlqPushFails, TypeOK
  <2>2. \A x \in Records : Waiting(x)' => Waiting(x) \/ x = r
    <3>1. CASE dlq' = dlq BY <3>1 DEF Waiting
    <3>2. CASE dlq' = Append(dlq, [rec |-> r, retries |-> 0])
      BY <3>2, WaitingAppended
    <3> QED BY <1>3, <3>1, <3>2 DEF DlqPush, DlqPushFails
  <2>3. \A x \in Records : Held(x)' => Held(x) \/ x = r
    BY <2>1, <2>2 DEF Held, InHand
  <2> QED BY <1>a, <1>b, <2>1, <2>3
<1>4. CASE Wake \/ PopEmpty \/ StartDrainer \/ UNCHANGED vars \/ Pop \/ PushBack
  <2>1. UNCHANGED <<stage, rows>>
    BY <1>4 DEF Wake, PopEmpty, StartDrainer, vars, Pop, PushBack
  <2>2. UNCHANGED <<dlq, hand>> \/ Pop \/ PushBack
    BY <1>4 DEF Wake, PopEmpty, StartDrainer, vars
  <2>3. \A x \in Records : Held(x)' <=> Held(x)
    BY <2>2, HeldKept
  <2> QED BY <1>a, <1>b, <2>1, <2>3
<1>5. CASE PopFails \/ PushBackFails \/ StopDrainer \/ Crash
  <2>1. /\ UNCHANGED rows
        /\ \A x \in Records : stage'[x] = stage[x] \/ (stage'[x] = "done" /\ stage[x] # "done")
    BY <1>5 DEF PopFails, PushBackFails, StopDrainer, Crash, TypeOK
  <2>2. (UNCHANGED dlq /\ hand' = None) \/ PopFails
    BY <1>5 DEF PushBackFails, StopDrainer, Crash
  <2>3. \A x \in Records : Held(x)' => Held(x)
    BY <2>2, HeldDropped
  <2> QED BY <1>a, <1>b, <2>1, <2>3
<1>6. CASE Replay \/ ReplayFails
  <2>1. hand.rec \in Records /\ hand # None
    BY <1>6, QueueTypes DEF Replay, ReplayFails, TypeOK
  <2>2. Held(hand.rec)
    BY <2>1 DEF Held, InHand
  <2>3. /\ UNCHANGED <<stage, dlq>> /\ hand' \in {hand, None}
        /\ \A x \in Records : x # hand.rec => rows'[x] = rows[x]
    BY <1>6, <2>1 DEF Replay, ReplayFails, Inserted, TypeOK
  <2>4. \A x \in Records : Held(x)' => Held(x)
    BY <2>3 DEF Held, Waiting, InHand
  <2> QED BY <1>a, <1>b, <2>1, <2>2, <2>3, <2>4
<1> QED
  BY <1>1, <1>2, <1>3, <1>4, <1>5, <1>6 DEF Next, RecordStep, DrainerStep

LEMMA PlacedAlways == Spec => []Placed
<1>1. Init => Placed
  <2> SUFFICES ASSUME Init, NEW x \in Records PROVE rows[x] = 0 /\ ~Held(x)
    BY DEF Placed
  <2>1. Len(dlq) = 0 /\ hand = None
    BY EmptySeq DEF Init
  <2>2. ~Waiting(x)
    BY <2>1 DEF Waiting
  <2> QED BY <2>1, <2>2 DEF Init, Held, InHand
<1>2. TypeOK /\ Placed /\ [Next]_vars => Placed'
  BY StepKeepsPlaced
<1> QED BY <1>1, <1>2, TypeCorrect, PTL DEF Spec

-----------------------------------------------------------------------------
(* How often a record is tried.  No record is queued twice, nor queued     *)
(* while the drainer holds it, so its INSERTs are counted by the retries   *)
(* of its only entry: one row at most for the first INSERT, and one for    *)
(* each replay.                                                            *)

OnePlace ==
    /\ Unique(dlq)
    /\ \A r \in Records : ~(Waiting(r) /\ InHand(r))

Tries ==
    /\ \A r \in Records : stage[r] = "pushing" => rows[r] <= 1
    /\ RowsBounded
    /\ \A i \in 1 .. Len(dlq) : rows[dlq[i].rec] <= dlq[i].retries + 1
    /\ drainer = "replaying" => rows[hand.rec] <= hand.retries
    /\ drainer = "returning" => rows[hand.rec] <= hand.retries + 1

LEMMA StepKeepsOnePlace ==
    ASSUME TypeOK, Placed, OnePlace, [Next]_vars
    PROVE  OnePlace'
<1>1. CASE UNCHANGED dlq /\ hand' \in {hand, None}
  BY <1>1 DEF OnePlace, Unique, Waiting, InHand
<1>2. ASSUME NEW r \in Records, DlqPush(r) \/ DlqPushFails(r), dlq' # dlq
      PROVE  OnePlace'
  <2>1. /\ dlq' = Append(dlq, [rec |-> r, retries |-> 0]) /\ UNCHANGED hand
        /\ stage[r] = "pushing"
    BY <1>2 DEF DlqPush, DlqPushFails
  <2>2. ~Waiting(r) /\ ~InHand(r)
    BY <2>1 DEF Placed, Held
  <2>3. Unique(dlq') /\ \A x \in Records : Waiting(x)' => Waiting(x) \/ x = r
    BY <2>1, <2>2, UniqueAppended, WaitingAppended DEF OnePlace
  <2> QED BY <2>1, <2>2, <2>3 DEF OnePlace, InHand
<1>3. CASE Pop
  <2>1. hand' # None /\ hand'.rec = Head(dlq).rec
    BY <1>3, WaitingPopped, QueueTypes DEF Pop, Popped
  <2>2. /\ Unique(dlq')
        /\ \A x \in Records : Head(dlq).rec = x => ~Waiting(x)'
    BY <1>3, UniquePopped DEF Pop, Popped, OnePlace
  <2> QED BY <2>1, <2>2 DEF OnePlace, InHand
<1>4. CASE PopFails
  <2>1. UNCHANGED hand
    BY <1>4 DEF PopFails
  <2>2. CASE dlq' = dlq
    BY <1>1, <2>1, <2>2
  <2>3. CASE dlq # <<>> /\ dlq' = Tail(dlq)
    <3>1. Unique(dlq') /\ \A x \in Records : Waiting(x)' => Waiting(x)
      BY <2>3, UniquePopped, WaitingPopped DEF OnePlace
    <3> QED BY <2>1, <3>1 DEF OnePlace, InHand
  <2> QED BY <1>4, <2>2, <2>3 DEF PopFails, Popped
<1>5. CASE PushBack
  <2>1. hand' = None /\ hand \in Queued /\ hand # None /\ hand.rec \in Records
    BY <1>5, QueueTypes DEF PushBack, TypeOK
  <2>2. ~Waiting(hand.rec)
    BY <2>1 DEF OnePlace, InHand
  <2>3. Unique(dlq')
    BY <1>5, <2>1, <2>2, UniquePushedBack DEF PushBack, PushedBack, OnePlace
  <2> QED BY <2>1, <2>3 DEF OnePlace, InHand
<1>6. ASSUME NEW r \in Records, Record(r) \/ RecordStep(r) PROVE OnePlace'
  <2>1. UNCHANGED <<dlq, hand>> \/ ((DlqPush(r) \/ DlqPushFails(r)) /\ dlq' # dlq)
    BY <1>6 DEF Record, RecordStep, Write, WriteFails, DlqPush, DlqPushFails, CancelRecord
  <2> QED BY <1>1, <1>2, <2>1
<1>7. CASE DrainerStep \/ StopDrainer \/ Crash \/ StartDrainer \/ UNCHANGED vars
  <2>1. (UNCHANGED dlq /\ hand' \in {hand, None}) \/ Pop \/ PopFails \/ PushBack
    BY <1>7 DEF DrainerStep, Wake, PopEmpty, Replay, ReplayFails, PushBackFails,
                StopDrainer, Crash, StartDrainer, vars
  <2> QED BY <1>1, <1>3, <1>4, <1>5, <2>1
<1> QED BY <1>6, <1>7 DEF Next

\* Tries follows from what it says of the entries of the new queue.
LEMMA StepKeepsTries ==
    ASSUME TypeOK, Placed, OnePlace, Tries, [Next]_vars
    PROVE  Tries'
<1> USE AuditAssumption DEF Goto, Stages, Active
<1>a. /\ MaxRetry \in Nat /\ Len(dlq) \in Nat
      /\ \A r \in Records : rows[r] \in Nat /\ rows[r] <= MaxRetry + 1
      /\ \A i \in 1 .. Len(dlq) : dlq[i].rec \in Records /\ dlq[i].retries \in Nat
  <2>1. \A i \in 1 .. Len(dlq) : dlq[i] \in Queued
    BY ElementOfSeq DEF TypeOK
  <2>2. Len(dlq) \in Nat
    BY LenProperties DEF TypeOK
  <2> QED BY <2>1, <2>2, QueueTypes DEF Tries, RowsBounded, TypeOK
<1>1. ASSUME NEW r \in Records, Record(r) \/ Write(r) \/ WriteFails(r) \/ CancelRecord(r)
      PROVE  Tries'
  <2>1. /\ UNCHANGED <<dlq, hand, drainer>>
        /\ stage[r] # "done"
        /\ \A x \in Records : x # r => stage'[x] = stage[x] /\ rows'[x] = rows[x]
    BY <1>1 DEF Record, Write, WriteFails, CancelRecord, Inserted, TypeOK
  <2>2. ~Waiting(r) /\ ~InHand(r)
    BY <2>1 DEF Placed, Held
  <2>3. /\ rows'[r] <= MaxRetry + 1
        /\ stage'[r] = "pushing" => rows'[r] <= 1
    <3>1. CASE Record(r) \/ CancelRecord(r)
      BY <1>a, <3>1 DEF Record, CancelRecord, TypeOK
    <3>2. CASE Write(r) \/ WriteFails(r)
      <4>1. rows[r] = 0 /\ rows'[r] \in {0, 1}
        BY <3>2 DEF Write, WriteFails, Inserted, Placed, TypeOK
      <4> QED BY <1>a, <4>1
    <3> QED BY <1>1, <3>1, <3>2
  <2>4. \A i \in 1 .. Len(dlq) : dlq[i].rec # r
    BY <2>2 DEF Waiting
  <2>5. drainer \in {"replaying", "returning"} => hand.rec \in Records /\ hand.rec # r
    BY <2>2, QueueTypes DEF InHand, TypeOK
  <2> QED BY <1>a, <2>1, <2>3, <2>4, <2>5 DEF Tries, RowsBounded
<1>2. ASSUME NEW r \in Records, DlqPush(r) \/ DlqPushFails(r)
      PROVE  Tries'
  <2>1. /\ UNCHANGED <<rows, hand, drainer>>
        /\ stage[r] = "pushing"
        /\ \A x \in Records : stage'[x] = "pushing" => stage[x] = "pushing"
        /\ dlq' = dlq \/ dlq' = Append(dlq, [rec |-> r, retries |-> 0])
    BY <1>2 DEF DlqPush, DlqPushFails, TypeOK
  <2>2. \A i \in 1 .. Len(dlq') : rows[dlq'[i].rec] <= dlq'[i].retries + 1
    <3>1. CASE dlq' = dlq
      BY <3>1 DEF Tries
    <3>2. CASE dlq' = Append(dlq, [rec |-> r, retries |-> 0])
      <4>1. /\ Len(dlq') = Len(dlq) + 1
            /\ \A i \in 1 .. Len(dlq) : dlq'[i] = dlq[i]
            /\ dlq'[Len(dlq) + 1] = [rec |-> r, retries |-> 0]
        BY <3>2, QueueTypes, AppendProperties DEF TypeOK
      <4>2. rows[r] <= 0 + 1
        BY <1>a, <2>1 DEF Tries
      <4>3. ASSUME NEW i \in 1 .. Len(dlq')
            PROVE  i \in 1 .. Len(dlq) \/ i = Len(dlq) + 1
        BY <1>a, <4>1
      <4> QED BY <4>1, <4>2, <4>3 DEF Tries
    <3> QED BY <2>1, <3>1, <3>2
  <2> QED BY <2>1, <2>2 DEF Tries, RowsBounded
<1>3. CASE UNCHANGED <<rows, dlq>> /\ drainer' \notin {"replaying", "returning"}
           /\ \A x \in Records : stage'[x] = "pushing" => stage[x] = "pushing"
  BY <1>3 DEF Tries, RowsBounded
<1>4. CASE Pop \/ PopFails
  <2>1. /\ UNCHANGED <<stage, rows>>
        /\ dlq' = dlq \/ (dlq # <<>> /\ dlq' = Tail(dlq))
        /\ drainer' # "returning"
        /\ drainer' = "replaying" => Pop
    BY <1>4 DEF Pop, PopFails, Popped
  <2>2. ASSUME dlq # <<>>
        PROVE  /\ Head(dlq) = dlq[1] /\ Head(dlq) \in Queued /\ Len(dlq) > 0
               /\ Len(Tail(dlq)) = Len(dlq) - 1
               /\ \A i \in 1 .. Len(dlq) - 1 : Tail(dlq)[i] = dlq[i + 1]
    BY <2>2, PopQueue DEF TypeOK
  <2>3. \A i \in 1 .. Len(dlq') : rows[dlq'[i].rec] <= dlq'[i].retries + 1
    <3>1. CASE dlq' = dlq
      BY <3>1 DEF Tries
    <3>2. CASE dlq # <<>> /\ dlq' = Tail(dlq)
      <4>1. \A i \in 1 .. Len(dlq') : i + 1 \in 1 .. Len(dlq) /\ dlq'[i] = dlq[i + 1]
        BY <1>a, <2>2, <3>2
      <4> QED BY <4>1 DEF Tries
    <3> QED BY <2>1, <3>1, <3>2
  <2>4. Pop => rows[hand'.rec] <= hand'.retries
    <3> SUFFICES ASSUME Pop PROVE rows[hand'.rec] <= hand'.retries
      OBVIOUS
    <3>1. /\ Head(dlq) = dlq[1] /\ 1 \in 1 .. Len(dlq)
          /\ hand'.rec = Head(dlq).rec /\ hand'.retries = Head(dlq).retries + 1
      BY <1>a, <2>2 DEF Pop, Counted
    <3> QED BY <3>1 DEF Tries
  <2> QED BY <2>1, <2>3, <2>4 DEF Tries, RowsBounded
<1>5. CASE Replay \/ ReplayFails
  <2>1. /\ hand \in Entry /\ hand.rec \in Records /\ hand # None
        /\ hand.retries \in Nat /\ hand.retries <= MaxRetry
        /\ drainer = "replaying" /\ rows[hand.rec] <= hand.retries
    BY <1>5, QueueTypes DEF Replay, ReplayFails, TypeOK, Tries
  <2>2. /\ UNCHANGED <<stage, dlq>>
        /\ rows'[hand.rec] \in {rows[hand.rec], rows[hand.rec] + 1}
        /\ \A x \in Records : x # hand.rec => rows'[x] = rows[x]
    BY <1>5, <2>1 DEF Replay, ReplayFails, Inserted, TypeOK
  <2>3. /\ drainer' # "replaying"
        /\ drainer' = "returning" => hand' = hand
    BY <1>5, <2>1 DEF Replay, ReplayFails
  <2>4. rows'[hand.rec] <= hand.retries + 1 /\ rows'[hand.rec] <= MaxRetry + 1
    BY <1>a, <2>1, <2>2
  <2>5. stage[hand.rec] = "done" /\ \A i \in 1 .. Len(dlq) : dlq[i].rec # hand.rec
    BY <2>1 DEF Placed, Held, InHand, OnePlace, Waiting
  <2> QED BY <1>a, <2>2, <2>3, <2>4, <2>5 DEF Tries, RowsBounded
<1>6. CASE PushBack
  <2>1. /\ hand \in Queued /\ rows[hand.rec] <= hand.retries + 1
        /\ UNCHANGED <<stage, rows>> /\ drainer' = "sleeping"
        /\ dlq' = <<hand>> \o dlq
    BY <1>6 DEF PushBack, PushedBack, TypeOK, Tries
  <2>2. /\ Len(dlq') = Len(dlq) + 1 /\ dlq'[1] = hand
        /\ \A i \in 1 .. Len(dlq) : dlq'[i + 1] = dlq[i]
    BY <2>1, PushBackQueue DEF TypeOK
  <2>3. ASSUME NEW i \in 1 .. Len(dlq')
        PROVE  rows[dlq'[i].rec] <= dlq'[i].retries + 1
    <3>1. CASE i = 1
      BY <2>1, <2>2, <3>1
    <3>2. CASE i # 1
      <4>1. i - 1 \in 1 .. Len(dlq) /\ (i - 1) + 1 = i
        BY <1>a, <2>2, <3>2
      <4>2. dlq'[i] = dlq[i - 1]
        BY <2>2, <4>1
      <4> QED BY <4>1, <4>2 DEF Tries
    <3> QED BY <3>1, <3>2
  <2> QED BY <2>1, <2>3 DEF Tries, RowsBounded
<1>7. CASE UNCHANGED vars
  BY <1>7 DEF vars, Tries, RowsBounded
<1>8. CASE Wake \/ PopEmpty \/ PushBackFails \/ StopDrainer \/ Crash \/ StartDrainer
  BY <1>3, <1>8
  DEF Wake, PopEmpty, PushBackFails, StopDrainer, Crash, StartDrainer, TypeOK
<1> QED
  BY <1>1, <1>2, <1>4, <1>5, <1>6, <1>7, <1>8 DEF Next, RecordStep, DrainerStep

(* Whatever is lost, cancelled or crashes: a record never has more rows    *)
(* than its first INSERT and MaxRetry replays can have written.            *)
THEOREM RowsLimited == Spec => []RowsBounded
<1>1. Init => OnePlace /\ Tries
  <2> SUFFICES ASSUME Init PROVE OnePlace /\ Tries
    OBVIOUS
  <2>1. Len(dlq) = 0 /\ hand = None
    BY EmptySeq DEF Init
  <2>2. OnePlace
    BY <2>1 DEF OnePlace, Unique, InHand
  <2>3. Tries
    BY <2>1, AuditAssumption DEF Init, Tries, RowsBounded
  <2> QED BY <2>2, <2>3
<1>2. TypeOK /\ Placed /\ OnePlace /\ [Next]_vars => OnePlace'
  BY StepKeepsOnePlace
<1>3. TypeOK /\ Placed /\ OnePlace /\ Tries /\ [Next]_vars => Tries'
  BY StepKeepsTries
<1>4. Tries => RowsBounded
  BY DEF Tries
<1> QED BY <1>1, <1>2, <1>3, <1>4, TypeCorrect, PlacedAlways, PTL DEF Spec

-----------------------------------------------------------------------------
\* The fate of a record is decided by where record() is, by its row and by
\* whether it is held; a step that disturbs none of these is a stutter of
\* the ledger, and a step that disturbs them for one record changes its fate.
LEMMA FateOf ==
    ASSUME NEW x \in Records
    PROVE  Fate(x) =
              IF stage[x] = "none" THEN "none"
              ELSE IF rows[x] > 0 THEN "stored"
              ELSE IF stage[x] \in Active THEN "pending"
              ELSE IF Held(x) THEN "queued"
              ELSE "lost"
BY DEF Fate, Safe, Held

LEMMA FateKept ==
    ASSUME NEW x \in Records, stage'[x] = stage[x], rows'[x] = rows[x],
           Held(x)' <=> Held(x)
    PROVE  Fate(x)' = Fate(x)
<1>1. Fate(x)' =
         IF stage'[x] = "none" THEN "none"
         ELSE IF rows'[x] > 0 THEN "stored"
         ELSE IF stage'[x] \in Active THEN "pending"
         ELSE IF Held(x)' THEN "queued"
         ELSE "lost"
  BY DEF Fate, Safe, Held
<1> QED BY <1>1, FateOf

Fates == [x \in Records |-> Fate(x)]

LEMMA AllFatesKept ==
    ASSUME \A x \in Records : Fate(x)' = Fate(x)
    PROVE  Fates' = Fates
BY DEF Fates

LEMMA OneFate ==
    ASSUME NEW r \in Records,
           \A x \in Records : x # r => Fate(x)' = Fate(x)
    PROVE  Fates' = [Fates EXCEPT ![r] = Fate(r)']
BY DEF Fates

\* A step of the ledger, said of Fate.
LEMMA LedgerMoves ==
    ASSUME NEW r \in Records,
           \A x \in Records : x # r => Fate(x)' = Fate(x),
           \/ Fate(r) = "none" /\ Fate(r)' = "pending" /\ UNCHANGED alerted
           \/ /\ Fate(r) \in {"pending", "queued"}
              /\ Fate(r)' = "stored"
              /\ UNCHANGED alerted
           \/ Fate(r) = "pending" /\ Fate(r)' = "queued" /\ UNCHANGED alerted
           \/ /\ Fate(r) # "none" /\ Fate(r)' = Fate(r)
              /\ alerted' = alerted \cup {r}
           \/ /\ Fate(r) \in {"pending", "queued"}
              /\ Fate(r)' \in {"queued", "stored", "lost"}
              /\ alerted' = alerted \cup {r}
    PROVE  Ledger!Next
<1>1. Fates' = [Fates EXCEPT ![r] = Fate(r)']
  BY OneFate
<1>2. Fates[r] = Fate(r)
  BY DEF Fates
<1>3. CASE Fate(r) = "none" /\ Fate(r)' = "pending" /\ UNCHANGED alerted
  <2>1. Ledger!Accept(r)
    BY <1>1, <1>2, <1>3 DEF Ledger!Accept, Ledger!Becomes, Fates
  <2> QED BY <2>1 DEF Ledger!Next
<1>4. CASE /\ Fate(r) \in {"pending", "queued"}
           /\ Fate(r)' = "stored"
           /\ UNCHANGED alerted
  <2>1. Ledger!Store(r)
    BY <1>1, <1>2, <1>4 DEF Ledger!Store, Ledger!Becomes, Fates
  <2> QED BY <2>1 DEF Ledger!Next
<1>5. CASE Fate(r) = "pending" /\ Fate(r)' = "queued" /\ UNCHANGED alerted
  <2>1. Ledger!Queue(r)
    BY <1>1, <1>2, <1>5 DEF Ledger!Queue, Ledger!Becomes, Fates
  <2> QED BY <2>1 DEF Ledger!Next
<1>6. CASE /\ Fate(r) # "none" /\ Fate(r)' = Fate(r)
           /\ alerted' = alerted \cup {r}
  <2>1. Fates' = Fates
    BY <1>6, AllFatesKept
  <2>2. Ledger!Alert(r)
    BY <1>2, <1>6, <2>1 DEF Ledger!Alert, Fates
  <2> QED BY <2>2 DEF Ledger!Next
<1>7. CASE /\ Fate(r) \in {"pending", "queued"}
           /\ Fate(r)' \in {"queued", "stored", "lost"}
           /\ alerted' = alerted \cup {r}
  <2>1. Ledger!Alert(r)
    BY <1>1, <1>2, <1>7 DEF Ledger!Alert, Ledger!Becomes, Fates
  <2> QED BY <2>1 DEF Ledger!Next
<1> QED BY <1>3, <1>4, <1>5, <1>6, <1>7

\* A step of record() with record r.
LEMMA RecordRefines ==
    ASSUME HandledFaults, TypeOK, Placed, NEW r \in Records,
           Record(r) \/ RecordStep(r)
    PROVE  Ledger!Next \/ (Fates' = Fates /\ alerted' = alerted)
<1> USE DEF Goto, Stages, Active
<1>a. /\ stage[r] \in {"none", "writing"} => rows[r] = 0
      /\ rows[r] \in Nat
      /\ stage[r] # "done" => ~Held(r)
  BY DEF Placed, TypeOK
<1>b. ~CancelRecord(r)
  BY DEF HandledFaults, CancelRecord
<1>c. \A x \in Records : x # r => stage'[x] = stage[x] /\ rows'[x] = rows[x]
  BY <1>b DEF Record, RecordStep, Write, WriteFails, DlqPush, DlqPushFails,
              Inserted, TypeOK
<1>d. ASSUME UNCHANGED <<dlq, hand>>
      PROVE  \A x \in Records : x # r => Fate(x)' = Fate(x)
  BY <1>c, <1>d, HeldKept, FateKept
<1>1. CASE Record(r)
  <2>1. Fate(r) = "none" /\ Fate(r)' = "pending" /\ UNCHANGED alerted
    BY <1>1, <1>a DEF Record, Fate, TypeOK
  <2>2. UNCHANGED <<dlq, hand>>
    BY <1>1 DEF Record
  <2> QED BY <1>d, <2>1, <2>2, LedgerMoves
<1>2. CASE Write(r)
  <2>1. Fate(r) = "pending" /\ Fate(r)' = "stored" /\ UNCHANGED alerted
    BY <1>2, <1>a DEF Write, Inserted, Fate, TypeOK
  <2>2. UNCHANGED <<dlq, hand>>
    BY <1>2 DEF Write
  <2> QED BY <1>d, <2>1, <2>2, LedgerMoves
<1>3. CASE WriteFails(r)
  <2>1. UNCHANGED <<dlq, hand, alerted>>
    BY <1>3 DEF WriteFails
  <2>2. CASE rows' = rows
    <3>1. Fate(r)' = Fate(r)
      BY <1>3, <1>a, <2>2 DEF WriteFails, AfterFailedWrite, Fate, TypeOK
    <3> QED BY <1>d, <2>1, <3>1, AllFatesKept
  <2>3. CASE Inserted(r)
    <3>1. Fate(r) = "pending" /\ Fate(r)' = "stored"
      BY <1>3, <1>a, <2>3 DEF WriteFails, AfterFailedWrite, Inserted, Fate, TypeOK
    <3> QED BY <1>d, <2>1, <3>1, LedgerMoves
  <2> QED BY <1>3, <2>2, <2>3 DEF WriteFails
<1>4. CASE DlqPush(r) \/ DlqPushFails(r)
  <2>1. /\ stage[r] = "pushing" /\ stage'[r] = "done" /\ UNCHANGED <<rows, hand>>
        /\ alerted' \in {alerted, alerted \cup {r}}
        /\ dlq' = dlq \/ dlq' = Append(dlq, [rec |-> r, retries |-> 0])
        /\ alerted' = alerted => dlq' = Append(dlq, [rec |-> r, retries |-> 0])
                                 \/ alerted' = alerted \cup {r}
    BY <1>4 DEF DlqPush, DlqPushFails, Critical, TypeOK
  <2>2. /\ \A x \in Records : x # r => (Held(x)' <=> Held(x))
        /\ dlq' = Append(dlq, [rec |-> r, retries |-> 0]) => Held(r)'
    <3>1. CASE dlq' = dlq /\ ~(dlq' = Append(dlq, [rec |-> r, retries |-> 0]))
      BY <2>1, <3>1 DEF Held, Waiting, InHand
    <3>2. CASE dlq' = Append(dlq, [rec |-> r, retries |-> 0])
      <4>1. \A x \in Records : Waiting(x)' <=> Waiting(x) \/ x = r
        BY <3>2, WaitingAppended
      <4> QED BY <2>1, <4>1 DEF Held, InHand
    <3> QED BY <2>1, <3>1, <3>2
  <2>3. \A x \in Records : x # r => Fate(x)' = Fate(x)
    BY <1>c, <2>2, FateKept
  <2>4. /\ Fate(r) = IF rows[r] > 0 THEN "stored" ELSE "pending"
        /\ Fate(r)' = IF rows[r] > 0 THEN "stored" ELSE IF Held(r)' THEN "queued" ELSE "lost"
    BY <2>1 DEF Fate, Safe, Held
  <2>5. CASE alerted' = alerted \cup {r}
    <3>1. CASE rows[r] > 0
      BY <2>3, <2>4, <2>5, <3>1, LedgerMoves
    <3>2. CASE ~(rows[r] > 0)
      BY <2>3, <2>4, <2>5, <3>2, LedgerMoves
    <3> QED BY <3>1, <3>2
  <2>6. CASE ~(alerted' = alerted \cup {r})
    <3>1. alerted' = alerted /\ Held(r)'
      BY <2>1, <2>2, <2>6
    <3>2. CASE rows[r] > 0
      BY <2>3, <2>4, <3>1, <3>2, AllFatesKept
    <3>3. CASE ~(rows[r] > 0)
      BY <2>3, <2>4, <3>1, <3>3, LedgerMoves
    <3> QED BY <3>2, <3>3
  <2> QED BY <2>5, <2>6
<1> QED BY <1>b, <1>1, <1>2, <1>3, <1>4 DEF RecordStep

\* A step of the drainer.
LEMMA DrainerRefines ==
    ASSUME HandledFaults, TypeOK, Placed, DrainerStep
    PROVE  Ledger!Next \/ (Fates' = Fates /\ alerted' = alerted)
<1>a. ~PopFails /\ ~PushBackFails
  BY DEF HandledFaults, PopFails, PushBackFails
<1>1. CASE Wake \/ PopEmpty \/ Pop \/ PushBack
  <2>1. UNCHANGED <<stage, rows, alerted>>
    BY <1>1 DEF Wake, PopEmpty, Pop, PushBack
  <2>2. UNCHANGED <<dlq, hand>> \/ Pop \/ PushBack
    BY <1>1 DEF Wake, PopEmpty
  <2> QED BY <2>1, <2>2, HeldKept, FateKept, AllFatesKept
<1>2. CASE Replay \/ ReplayFails
  <2>0. hand # None /\ hand.rec \in Records
    BY <1>2, QueueTypes DEF Replay, ReplayFails, TypeOK
  <2>1. PICK r \in Records : r = hand.rec
    BY <2>0
  <2>2. Held(r) /\ stage[r] = "done" /\ rows[r] \in Nat
    BY <2>0, <2>1 DEF Held, InHand, Placed, TypeOK
  <2>3. /\ UNCHANGED <<stage, dlq>> /\ hand' \in {hand, None}
        /\ \A x \in Records : x # r => rows'[x] = rows[x]
    BY <1>2, <2>1 DEF Replay, ReplayFails, Inserted, TypeOK
  <2>4. \A x \in Records : x # r => Fate(x)' = Fate(x)
    <3>1. \A x \in Records : x # r => (Held(x)' <=> Held(x))
      BY <2>1, <2>3 DEF Held, Waiting, InHand
    <3> QED BY <2>3, <3>1, FateKept
  <2>5. /\ Fate(r) = IF rows[r] > 0 THEN "stored" ELSE "queued"
        /\ Fate(r)' = IF rows'[r] > 0 THEN "stored"
                      ELSE IF Held(r)' THEN "queued" ELSE "lost"
    BY <2>2, <2>3 DEF Fate, Safe, Held, Active
  <2>6. \/ rows' = rows /\ ReplayFails
        \/ rows'[r] = rows[r] + 1
    BY <1>2, <2>1 DEF Replay, ReplayFails, Inserted, TypeOK
  <2>7. CASE alerted' = alerted \cup {r}
    <3>1. CASE rows[r] > 0
      <4>1. Fate(r) = "stored" /\ Fate(r)' = "stored"
        BY <2>2, <2>5, <2>6, <3>1
      <4> QED BY <2>1, <2>4, <2>7, <4>1, LedgerMoves
    <3>2. CASE ~(rows[r] > 0)
      <4>1. Fate(r) = "queued" /\ Fate(r)' \in {"queued", "stored", "lost"}
        BY <2>5, <3>2
      <4> QED BY <2>1, <2>4, <2>7, <4>1, LedgerMoves
    <3> QED BY <3>1, <3>2
  <2>8. CASE ~(alerted' = alerted \cup {r})
    <3>1. alerted' = alerted /\ (ReplayFails => hand' = hand)
      BY <1>2, <2>1, <2>8 DEF Replay, ReplayFails, Critical
    <3>2. CASE rows' = rows /\ ReplayFails
      <4>1. Held(r)'
        BY <2>2, <2>3, <3>1, <3>2 DEF Held, Waiting, InHand
      <4>2. Fate(r)' = Fate(r)
        BY <2>5, <3>2, <4>1
      <4> QED BY <2>4, <3>1, <4>2, AllFatesKept
    <3>3. CASE rows'[r] = rows[r] + 1
      <4>1. Fate(r)' = "stored" /\ Fate(r) \in {"stored", "queued"}
        BY <2>2, <2>5, <3>3
      <4>2. CASE Fate(r) = "stored"
        BY <2>4, <3>1, <4>1, <4>2, AllFatesKept
      <4>3. CASE Fate(r) = "queued"
        BY <2>1, <2>4, <3>1, <4>1, <4>3, LedgerMoves
      <4> QED BY <4>1, <4>2, <4>3
    <3> QED BY <2>6, <3>2, <3>3
  <2> QED BY <2>7, <2>8
<1> QED BY <1>a, <1>1, <1>2 DEF DrainerStep

(* Under the handled faults the audit layer keeps its promise: it          *)
(* implements AuditLedger.  Every step of record() and of the drain loop   *)
(* accepts, stores, queues or reports one record, or changes no fate.      *)
THEOREM KeepsLedger ==
    ASSUME HandledFaults
    PROVE  Spec => LedgerSpec
<1>1. Init => Ledger!Init
  <2> SUFFICES ASSUME Init PROVE Ledger!Init
    OBVIOUS
  <2>1. \A r \in Records : Fate(r) = "none"
    BY DEF Init, Fate
  <2> QED BY <2>1 DEF Init, Ledger!Init
<1>2. TypeOK /\ Placed /\ [Next]_vars
          => [Ledger!Next]_<<[r \in Records |-> Fate(r)], alerted>>
  <2> SUFFICES ASSUME TypeOK, Placed, [Next]_vars
               PROVE  Ledger!Next \/ (Fates' = Fates /\ alerted' = alerted)
    BY DEF Fates
  <2>1. CASE StartDrainer \/ UNCHANGED vars
    <3>1. UNCHANGED <<stage, rows, dlq, hand, alerted>>
      BY <2>1 DEF StartDrainer, vars
    <3> QED BY <3>1, HeldKept, FateKept, AllFatesKept
  <2>2. ~StopDrainer /\ ~Crash
    BY DEF HandledFaults, StopDrainer, Crash
  <2> QED BY <2>1, <2>2, RecordRefines, DrainerRefines DEF Next
<1> QED BY <1>1, <1>2, TypeCorrect, PlacedAlways, PTL
        DEF Spec, LedgerSpec, Ledger!Spec

-----------------------------------------------------------------------------
(* The order of replay.  Line is what the drainer holds, if anything,      *)
(* before the records of the queue.                                        *)

Recs(q) == [i \in 1 .. Len(q) |-> q[i].rec]
Front == IF hand = None THEN <<>> ELSE <<hand.rec>>

LEMMA LineParts == Line = Front \o Recs(dlq)
BY DEF Line, Front, Recs

LEMMA RecsType ==
    ASSUME NEW q \in Seq(Queued)
    PROVE  /\ Recs(q) \in Seq(Records) /\ Len(Recs(q)) = Len(q)
           /\ \A i \in 1 .. Len(q) : Recs(q)[i] = q[i].rec
<1>1. Len(q) \in Nat /\ \A i \in 1 .. Len(q) : q[i].rec \in Records
  BY LenProperties, QueueTypes, ElementOfSeq
<1>2. Recs(q) \in [1 .. Len(q) -> Records]
  BY <1>1 DEF Recs
<1>3. Recs(q) \in Seq(Records)
  BY <1>1, <1>2, SeqDef
<1> QED BY <1>1, <1>2, <1>3, LenProperties DEF Recs

LEMMA RecsAppended ==
    ASSUME NEW q \in Seq(Queued), NEW r \in Records
    PROVE  Recs(Append(q, [rec |-> r, retries |-> 0])) = Append(Recs(q), r)
<1> DEFINE q2 == Append(q, [rec |-> r, retries |-> 0])
<1>1. /\ q2 \in Seq(Queued) /\ Len(q2) = Len(q) + 1 /\ Len(q) \in Nat
      /\ \A i \in 1 .. Len(q) : q2[i] = q[i]
      /\ q2[Len(q) + 1].rec = r
  BY AppendQueue
<1> HIDE DEF q2
<1>2. /\ Recs(q2) \in Seq(Records) /\ Len(Recs(q2)) = Len(q) + 1
      /\ \A i \in 1 .. Len(q) + 1 : Recs(q2)[i] = q2[i].rec
  BY <1>1, RecsType
<1>3. /\ Append(Recs(q), r) \in Seq(Records)
      /\ Len(Append(Recs(q), r)) = Len(q) + 1
      /\ \A i \in 1 .. Len(q) : Append(Recs(q), r)[i] = q[i].rec
      /\ Append(Recs(q), r)[Len(q) + 1] = r
  BY RecsType, AppendProperties
<1>4. \A i \in 1 .. Len(q) + 1 : Recs(q2)[i] = Append(Recs(q), r)[i]
  <2> SUFFICES ASSUME NEW i \in 1 .. Len(q) + 1
               PROVE  Recs(q2)[i] = Append(Recs(q), r)[i]
    OBVIOUS
  <2>1. CASE i = Len(q) + 1
    BY <1>1, <1>2, <1>3, <2>1
  <2>2. CASE i # Len(q) + 1
    <3>1. i \in 1 .. Len(q)
      BY <1>1, <2>2
    <3> QED BY <1>1, <1>2, <1>3, <3>1
  <2> QED BY <2>1, <2>2
<1>5. Recs(q2) = Append(Recs(q), r)
  BY <1>2, <1>3, <1>4, SeqEqual
<1> QED BY <1>5 DEF q2

\* An entry in front of a queue, on its way in or out.
LEMMA RecsFronted ==
    ASSUME NEW q \in Seq(Queued), NEW e \in Queued
    PROVE  Recs(<<e>> \o q) = <<e.rec>> \o Recs(q)
<1> DEFINE q2 == <<e>> \o q
           s2 == <<e.rec>> \o Recs(q)
<1>1. /\ q2 \in Seq(Queued) /\ Len(q2) = Len(q) + 1 /\ Len(q) \in Nat
      /\ q2[1] = e
      /\ \A i \in 1 .. Len(q) : q2[i + 1] = q[i]
  BY PushBackQueue
<1>2. /\ s2 \in Seq(Records) /\ Len(s2) = Len(q) + 1
      /\ s2[1] = e.rec
      /\ \A i \in 1 .. Len(q) : s2[i + 1] = q[i].rec
  <2>1. <<e.rec>> \in Seq(Records) /\ Len(<<e.rec>>) = 1 /\ <<e.rec>>[1] = e.rec
    BY QueueTypes
  <2>2. Recs(q) \in Seq(Records) /\ Len(Recs(q)) = Len(q)
        /\ \A i \in 1 .. Len(q) : Recs(q)[i] = q[i].rec
    BY RecsType
  <2>3. /\ s2 \in Seq(Records) /\ Len(s2) = 1 + Len(q)
        /\ \A i \in 1 .. 1 + Len(q) : s2[i] = IF i <= 1 THEN <<e.rec>>[i] ELSE Recs(q)[i - 1]
    BY <2>1, <2>2, ConcatProperties
  <2> HIDE DEF s2
  <2>4. s2[1] = e.rec
    BY <1>1, <2>1, <2>3
  <2>5. ASSUME NEW i \in 1 .. Len(q) PROVE s2[i + 1] = q[i].rec
    <3>1. i + 1 \in 1 .. 1 + Len(q) /\ ~(i + 1 <= 1) /\ (i + 1) - 1 = i
      BY <1>1
    <3> QED BY <2>2, <2>3, <3>1
  <2> QED BY <1>1, <2>3, <2>4, <2>5
<1> HIDE DEF q2, s2
<1>3. /\ Recs(q2) \in Seq(Records) /\ Len(Recs(q2)) = Len(q) + 1
      /\ \A i \in 1 .. Len(q) + 1 : Recs(q2)[i] = q2[i].rec
  BY <1>1, RecsType
<1>4. \A i \in 1 .. Len(q) + 1 : Recs(q2)[i] = s2[i]
  <2> SUFFICES ASSUME NEW i \in 1 .. Len(q) + 1 PROVE Recs(q2)[i] = s2[i]
    OBVIOUS
  <2>1. CASE i = 1
    BY <1>1, <1>2, <1>3, <2>1
  <2>2. CASE i # 1
    <3>1. i - 1 \in 1 .. Len(q) /\ (i - 1) + 1 = i
      BY <1>1, <2>2
    <3>2. q2[i] = q[i - 1] /\ s2[i] = q[i - 1].rec
      BY <1>1, <1>2, <3>1
    <3> QED BY <1>3, <3>2
  <2> QED BY <2>1, <2>2
<1>5. Recs(q2) = s2
  BY <1>2, <1>3, <1>4, SeqEqual
<1> QED BY <1>5 DEF q2, s2

\* A queue is its head in front of its tail.
LEMMA RecsSplit ==
    ASSUME NEW q \in Seq(Queued), q # <<>>
    PROVE  /\ Recs(q) = <<Head(q).rec>> \o Recs(Tail(q))
           /\ Head(q) \in Queued /\ Tail(q) \in Seq(Queued)
<1>1. Head(q) \in Queued /\ Tail(q) \in Seq(Queued)
  BY PopQueue
<1>2. q = <<Head(q)>> \o Tail(q)
  <2> DEFINE q2 == <<Head(q)>> \o Tail(q)
  <2>1. /\ Head(q) = q[1] /\ Len(Tail(q)) = Len(q) - 1 /\ Len(q) \in Nat
        /\ \A i \in 1 .. Len(q) - 1 : Tail(q)[i] = q[i + 1]
    BY PopQueue
  <2>2. /\ q2 \in Seq(Queued) /\ Len(q2) = Len(Tail(q)) + 1
        /\ q2[1] = Head(q)
        /\ \A i \in 1 .. Len(Tail(q)) : q2[i + 1] = Tail(q)[i]
    BY <1>1, PushBackQueue
  <2> HIDE DEF q2
  <2>3. ASSUME NEW i \in 1 .. Len(q) PROVE q[i] = q2[i]
    <3>1. CASE i = 1 BY <2>1, <2>2, <3>1
    <3>2. CASE i # 1
      <4>1. i - 1 \in 1 .. Len(q) - 1 /\ (i - 1) + 1 = i
        BY <2>1, <3>2
      <4> QED BY <2>1, <2>2, <4>1
    <3> QED BY <3>1, <3>2
  <2>4. q = q2
    BY <2>1, <2>2, <2>3, SeqEqual
  <2> QED BY <2>4 DEF q2
<1>3. Recs(<<Head(q)>> \o Tail(q)) = <<Head(q).rec>> \o Recs(Tail(q))
  BY <1>1, RecsFronted
<1> QED BY <1>1, <1>2, <1>3

LEMMA TailOfFronted ==
    ASSUME NEW s \in Seq(Records), NEW r \in Records
    PROVE  <<r>> \o s # <<>> /\ Tail(<<r>> \o s) = s
OBVIOUS

\* One step of the line.
LineMoves ==
    \/ Line' = Line
    \/ Line # <<>> /\ Line' = Tail(Line)
    \/ \E r \in Records : Line' = Append(Line, r)

LEMMA StepKeepsOrder ==
    ASSUME TypeOK, [Next]_vars
    PROVE  LineMoves
<1>a. /\ Line = Front \o Recs(dlq) /\ Line' = Front' \o Recs(dlq')
      /\ dlq \in Seq(Queued)
      /\ Recs(dlq) \in Seq(Records)
  BY LineParts, RecsType DEF TypeOK, Line, Front, Recs
<1>1. CASE UNCHANGED <<dlq, hand>>
  BY <1>1 DEF LineMoves, Line
<1>2. ASSUME NEW r \in Records, UNCHANGED hand,
             dlq' = Append(dlq, [rec |-> r, retries |-> 0])
      PROVE  LineMoves
  <2>1. Recs(dlq') = Append(Recs(dlq), r) /\ Front' = Front
    BY <1>2, <1>a, RecsAppended DEF Front
  <2>2. Front \in Seq(Records)
    BY QueueTypes, EmptySeq DEF Front, TypeOK
  <2>3. Front \o Append(Recs(dlq), r) = Append(Front \o Recs(dlq), r)
    <3>1. /\ Append(Recs(dlq), r) = Recs(dlq) \o <<r>>
          /\ Append(Front \o Recs(dlq), r) = (Front \o Recs(dlq)) \o <<r>>
          /\ <<r>> \in Seq(Records)
      BY <1>a, <2>2, AppendIsConcat, ConcatProperties
    <3> QED BY <1>a, <2>2, <3>1, ConcatAssociative
  <2> QED BY <1>a, <2>1, <2>3 DEF LineMoves
<1>3. CASE UNCHANGED dlq /\ hand' = None
  <2>1. Recs(dlq') = Recs(dlq) /\ Front' = <<>>
    BY <1>3 DEF Recs, Front
  <2>2. Line' = Recs(dlq)
    BY <1>a, <2>1, ConcatEmptySeq
  <2>3. CASE hand = None
    BY <1>3, <2>3 DEF LineMoves, Line
  <2>4. CASE hand # None
    <3>1. Front = <<hand.rec>> /\ hand.rec \in Records
      BY <2>4, QueueTypes DEF Front, TypeOK
    <3> QED BY <1>a, <2>2, <3>1, TailOfFronted DEF LineMoves
  <2> QED BY <2>3, <2>4
<1>4. CASE Pop
  <2>1. dlq # <<>> /\ dlq' = Tail(dlq) /\ hand = None /\ hand' = Counted(Head(dlq))
    BY <1>4 DEF Pop, Popped, TypeOK
  <2>2. /\ Recs(dlq) = <<Head(dlq).rec>> \o Recs(dlq')
        /\ Head(dlq) \in Queued
    BY <1>a, <2>1, RecsSplit
  <2>3. Front' = <<Head(dlq).rec>> /\ Front = <<>>
    BY <2>1, <2>2, QueueTypes DEF Front
  <2>4. Line = Recs(dlq)
    BY <1>a, <2>3, ConcatEmptySeq
  <2> QED BY <1>a, <2>2, <2>3, <2>4 DEF LineMoves
<1>5. CASE PopFails
  <2>1. UNCHANGED hand /\ hand = None
    BY <1>5 DEF PopFails, TypeOK
  <2>2. CASE dlq # <<>> /\ dlq' = Tail(dlq)
    <3>1. /\ Recs(dlq) = <<Head(dlq).rec>> \o Recs(dlq')
          /\ Head(dlq).rec \in Records /\ Recs(dlq') \in Seq(Records)
      BY <1>a, <2>2, RecsSplit, RecsType, QueueTypes
    <3>2. Line = Recs(dlq) /\ Line' = Recs(dlq')
      BY <1>a, <2>1, <3>1, ConcatEmptySeq DEF Front
    <3> QED BY <3>1, <3>2, TailOfFronted DEF LineMoves
  <2> QED BY <1>1, <1>5, <2>1, <2>2 DEF PopFails, Popped
<1>6. CASE PushBack
  <2>1. hand \in Queued /\ hand # None /\ hand' = None /\ dlq' = <<hand>> \o dlq
    BY <1>6, QueueTypes DEF PushBack, PushedBack, TypeOK
  <2>2. /\ Recs(dlq') = <<hand.rec>> \o Recs(dlq) /\ Front' = <<>> /\ Front = <<hand.rec>>
        /\ dlq' \in Seq(Queued)
    BY <1>a, <2>1, RecsFronted, PushBackQueue DEF Front
  <2>3. Line' = Recs(dlq')
    BY <1>a, <2>2, RecsType, ConcatEmptySeq
  <2> QED BY <1>a, <2>2, <2>3 DEF LineMoves
<1>7. ASSUME NEW r \in Records, Record(r) \/ RecordStep(r) PROVE LineMoves
  <2>1. \/ UNCHANGED <<dlq, hand>>
        \/ UNCHANGED hand /\ dlq' = Append(dlq, [rec |-> r, retries |-> 0])
    BY <1>7 DEF Record, RecordStep, Write, WriteFails, DlqPush, DlqPushFails, CancelRecord
  <2> QED BY <1>1, <1>2, <2>1
<1>8. CASE DrainerStep \/ StopDrainer \/ Crash \/ StartDrainer \/ UNCHANGED vars
  <2>1. \/ UNCHANGED <<dlq, hand>>
        \/ UNCHANGED dlq /\ hand' = None
        \/ Pop \/ PopFails \/ PushBack
    BY <1>8 DEF DrainerStep, Wake, PopEmpty, Replay, ReplayFails, PushBackFails,
                StopDrainer, Crash, StartDrainer, vars
  <2> QED BY <1>1, <1>3, <1>4, <1>5, <1>6, <2>1
<1> QED BY <1>7, <1>8 DEF Next

(* Whatever fails, crashes included: records leave the line at its front   *)
(* and join it at its end, so none overtakes another.                      *)
THEOREM OrderKept == Spec => QueueOrderKept
<1>1. TypeOK /\ [Next]_vars
        => [ \/ Line' = Line
             \/ Line # <<>> /\ Line' = Tail(Line)
             \/ \E r \in Records : Line' = Append(Line, r) ]_vars
  BY StepKeepsOrder DEF LineMoves
<1> QED BY <1>1, TypeCorrect, PTL DEF Spec, QueueOrderKept

-----------------------------------------------------------------------------
LEMMA StepGivesUpLoudly ==
    ASSUME HandledFaults, TypeOK, [Next]_vars, NEW x \in Records,
           Held(x), ~Held(x)', rows'[x] = 0
    PROVE  hand.retries = MaxRetry /\ x \in alerted'
<1>1. ASSUME NEW r \in Records, Record(r) \/ RecordStep(r) PROVE FALSE
  <2>1. UNCHANGED hand
    BY <1>1 DEF Record, RecordStep, Write, WriteFails, DlqPush, DlqPushFails, CancelRecord
  <2>2. Waiting(x) => Waiting(x)'
    <3>1. CASE dlq' = dlq BY <3>1 DEF Waiting
    <3>2. CASE dlq' = Append(dlq, [rec |-> r, retries |-> 0])
      BY <3>2, WaitingAppended
    <3> QED BY <1>1, <3>1, <3>2
            DEF Record, RecordStep, Write, WriteFails, DlqPush, DlqPushFails, CancelRecord
  <2> QED BY <2>1, <2>2 DEF Held, InHand
<1>2. ~PopFails /\ ~PushBackFails /\ ~StopDrainer /\ ~Crash
  BY DEF HandledFaults, PopFails, PushBackFails, StopDrainer, Crash
<1>3. ~(UNCHANGED <<dlq, hand>>) /\ ~Pop /\ ~PushBack
  BY HeldKept
<1>4. Replay \/ ReplayFails
  BY <1>1, <1>2, <1>3 DEF Next, DrainerStep, Wake, PopEmpty, StartDrainer, vars
<1>5. hand \in Entry /\ hand.rec \in Records /\ UNCHANGED dlq
  BY <1>4, QueueTypes DEF Replay, ReplayFails, TypeOK
<1>6. hand.rec = x
  BY <1>5 DEF Held, Waiting, InHand
<1>7. ~Replay
  <2>1. Replay => rows'[x] = rows[x] + 1 /\ rows[x] \in Nat
    BY <1>6 DEF Replay, Inserted, TypeOK
  <2> QED BY <2>1
<1>8. Exhausted /\ x \in alerted'
  BY <1>3, <1>4, <1>6, <1>7 DEF ReplayFails, Critical
<1>9. hand.retries \in 0 .. MaxRetry /\ MaxRetry \in Nat
  BY <1>5, QueueTypes, AuditAssumption
<1> QED BY <1>8, <1>9 DEF Exhausted

(* Under the handled faults a queued record is given up only after         *)
(* MaxRetry replays, and with a CRITICAL line.                             *)
THEOREM GivenUpLate ==
    ASSUME HandledFaults
    PROVE  Spec => GivenUpOnlyWhenExhausted
<1>1. TypeOK /\ [Next]_vars
        => [ \A r \in Records :
               (Waiting(r) \/ InHand(r)) /\ ~(Waiting(r) \/ InHand(r))' /\ rows'[r] = 0
                  => hand.retries = MaxRetry /\ r \in alerted' ]_vars
  BY StepGivesUpLoudly DEF Held
<1> QED BY <1>1, TypeCorrect, PTL DEF Spec, GivenUpOnlyWhenExhausted
=============================================================================
