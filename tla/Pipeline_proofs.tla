-------------------------- MODULE Pipeline_proofs --------------------------
(***************************************************************************)
(* What run_tool_call() guarantees for any number of concurrent calls, any *)
(* sessions and any limit.                                                 *)
(*                                                                         *)
(* The argument is local: CallInv relates the context, the row, the budget *)
(* phase and the history of one call to the place where the call is, and a *)
(* step changes these for one call only.  Only the counter is shared; it   *)
(* is kept between the number of calls that have paid and the number that  *)
(* may have paid.                                                          *)
(* AuditInv does for the audit record what CallInv does for the context.   *)
(***************************************************************************)
EXTENDS Pipeline, FiniteSetTheorems, TLAPS

\* What a step of the budget gate does to the call's phase and to the counter.
Counted(c, n) ==
    counter' = [counter EXCEPT ![Budget!Key(c, "calls")] = @ + n]

GateMoves(c, p) ==
    \/ phase[c] = "idle" /\ p \in {"read_calls", "unavailable"} /\ counter' = counter
    \/ /\ phase[c] = "read_calls"
       /\ p \in {"allowed", "rejected", "unavailable"}
       /\ counter' = counter
    \/ phase[c] = "allowed" /\ p = "incremented" /\ Counted(c, 1)
    \/ phase[c] = "allowed" /\ p = "failed" /\ \E n \in {0, 1} : Counted(c, n)
    \/ phase[c] = "incremented" /\ p \in {"charged", "failed"} /\ counter' = counter
    \/ phase[c] \in Budget!Verdicts /\ p = "idle" /\ counter' = counter

LEMMA GateEffect ==
    ASSUME Budget!TypeOK, NEW c \in Calls, Budget!GateCall(c)
    PROVE  /\ Budget!TypeOK'
           /\ \E p \in Budget!Phases :
                 phase' = [phase EXCEPT ![c] = p] /\ GateMoves(c, p)
<1> USE PipelineAssumption
    DEF Budget!TypeOK, Budget!Keys, Budget!Metrics, Budget!Key, Budget!Phases,
        Budget!Verdicts, Budget!Goto, GateMoves, Counted
<1>1. CASE Budget!ReadCalls(c)        BY <1>1 DEF Budget!ReadCalls
<1>2. CASE Budget!ReadTokens(c)       BY <1>2 DEF Budget!ReadTokens
<1>3. CASE Budget!CheckFails(c)       BY <1>3 DEF Budget!CheckFails
<1>4. CASE Budget!IncrCalls(c)        BY <1>4 DEF Budget!IncrCalls
<1>5. CASE Budget!IncrFails(c)
  <2>1. PICK n \in {0, 1} : Counted(c, n)
    BY <1>5 DEF Budget!IncrFails
  <2>2. phase[c] = "allowed" /\ phase' = [phase EXCEPT ![c] = "failed"]
    BY <1>5 DEF Budget!IncrFails
  <2>3. GateMoves(c, "failed")
    BY <2>1, <2>2
  <2>4. Budget!TypeOK'
    BY <1>5, <2>1, <2>2 DEF Budget!IncrFails
  <2> QED BY <2>2, <2>3, <2>4
<1>6. CASE Budget!ExpireCalls(c)      BY <1>6 DEF Budget!ExpireCalls, Budget!SetTTL
<1>7. CASE Budget!ExpireCallsFails(c) BY <1>7 DEF Budget!ExpireCallsFails
<1>8. CASE Budget!Finish(c)           BY <1>8 DEF Budget!Finish
<1> QED
  BY <1>1, <1>2, <1>3, <1>4, <1>5, <1>6, <1>7, <1>8 DEF Budget!GateCall

-----------------------------------------------------------------------------
\* The types of the two variables that a layer writes.
CallTypeOK ==
    /\ pc \in [Calls -> Within \cup {"finally", "recording"} \cup Left]
    /\ ctx \in [Calls -> {x \in Context : x.status = "pending" <=> x.told = "none"}]

LEMMA VerdictType ==
    ASSUME CallTypeOK, NEW c \in Calls, NEW s \in Statuses \ {"pending"},
           NEW l \in Layers, NEW t \in {"content", "error"}, Verdict(c, s, l, t)
    PROVE  CallTypeOK'
<1>1. ctx[c].granted \in BOOLEAN
  BY DEF CallTypeOK, Context
<1>2. [status |-> s, layer |-> l, told |-> t, granted |-> ctx[c].granted]
          \in {x \in Context : x.status = "pending" <=> x.told = "none"}
  BY <1>1 DEF Context
<1>3. ctx' \in [Calls -> {x \in Context : x.status = "pending" <=> x.told = "none"}]
  BY <1>2 DEF Verdict, CallTypeOK
<1>4. pc' \in [Calls -> Within \cup {"finally", "recording"} \cup Left]
  BY DEF Verdict, Goto, CallTypeOK
<1> QED BY <1>3, <1>4 DEF CallTypeOK

LEMMA GotoType ==
    ASSUME CallTypeOK, NEW c \in Calls, UNCHANGED ctx,
           NEW p \in Within \cup {"finally", "recording"} \cup Left, Goto(c, p)
    PROVE  CallTypeOK'
BY DEF CallTypeOK, Goto

LEMMA GrantedType ==
    ASSUME CallTypeOK, NEW c \in Calls, pc[c] \in {"permission", "approval"}, Granted(c)
    PROVE  CallTypeOK'
<1>1. Unruled(TRUE) \in {x \in Context : x.status = "pending" <=> x.told = "none"}
  BY DEF Unruled, Context, Statuses, Layers
<1>2. pc' = [pc EXCEPT ![c] = "registry"] /\ "registry" \in Within
  BY DEF Granted, Goto, Following, Within
<1> QED BY <1>1, <1>2 DEF Granted, CallTypeOK

LEMMA RaisedType ==
    ASSUME CallTypeOK, NEW c \in Calls, Raised(c)
    PROVE  CallTypeOK'
BY VerdictType, GotoType DEF Raised, Refuse, Statuses, Layers

LEMMA PassesType ==
    ASSUME CallTypeOK, NEW c \in Calls, pc[c] \in {"guard", "registry", "budget"}, Passes(c)
    PROVE  CallTypeOK'
BY GotoType DEF Passes, Following, Within, Awaiting

\* A step of a call through the layers keeps the types of both.
LEMMA LayerType ==
    ASSUME CallTypeOK, NEW c \in Calls,
           \/ Guard(c) \/ Permission(c) \/ Approval(c) \/ Registry(c)
           \/ BudgetGate(c) \/ Execute(c) \/ ToolEnds(c)
    PROVE  CallTypeOK'
<1> USE VerdictType, GotoType, GrantedType, RaisedType, PassesType
    DEF Refuse, Statuses, Layers
<1>1. CASE Guard(c)
  BY <1>1 DEF Guard
<1>2. CASE Permission(c)
  BY <1>2 DEF Permission, Within, Awaiting
<1>3. CASE Approval(c)
  BY <1>3 DEF Approval, Denied
<1>4. CASE Registry(c)
  BY <1>4 DEF Registry
<1>5. CASE BudgetGate(c)
  <2>1. CASE UNCHANGED <<pc, ctx>>
    BY <2>1 DEF CallTypeOK
  <2>2. CASE \/ Refuse(c, "budget_exceeded", "BudgetTracker")
             \/ Unavailable(c) \/ Raised(c)
    BY <2>2 DEF Unavailable
  <2>3. CASE Passes(c)
    BY <1>5, <2>3 DEF BudgetGate
  <2> QED BY <1>5, <2>1, <2>2, <2>3 DEF BudgetGate
<1>6. CASE Execute(c)
  BY <1>6 DEF Execute, Within, Awaiting
<1>7. CASE ToolEnds(c)
  BY <1>7 DEF ToolEnds
<1> QED BY <1>1, <1>2, <1>3, <1>4, <1>5, <1>6, <1>7

(* Every reachable value of the variables has its type; in particular a    *)
(* context has a result exactly when it has a verdict, so _safe_result()   *)
(* never needs its fallback for a call that was not cancelled.             *)
THEOREM TypeCorrect == Spec => []TypeOK
<1> USE PipelineAssumption
<1>1. Init => TypeOK
  BY DEF Init, TypeOK, Unruled, Context, Statuses, Layers, Within, Awaiting, Left,
         Budget!Init, Budget!TypeOK, Budget!Keys, Budget!Phases, Ledger!Init, Ledger!Fates
<1>2. TypeOK /\ [Next]_vars => TypeOK'
  <2> SUFFICES ASSUME TypeOK, [Next]_vars PROVE TypeOK'
    OBVIOUS
  <2>a. CallTypeOK
    BY DEF TypeOK, CallTypeOK
  <2>0. CASE UNCHANGED vars
    BY <2>0 DEF vars, budget, audit, TypeOK, Budget!TypeOK
  <2>1. ASSUME NEW c \in Calls, Step(c) PROVE TypeOK'
    <3>1. CASE \/ Guard(c) \/ Permission(c) \/ Approval(c) \/ Registry(c)
               \/ BudgetGate(c) \/ Execute(c) \/ ToolEnds(c)
      <4>1. CallTypeOK'
        BY <2>a, <3>1, LayerType
      <4>2. Budget!TypeOK'
        <5>1. CASE BudgetGate(c)
          BY <5>1, GateEffect DEF BudgetGate, TypeOK
        <5>2. CASE UNCHANGED budget
          BY <5>2 DEF budget, TypeOK, Budget!TypeOK
        <5> QED BY <3>1, <5>1, <5>2
               DEF Guard, Permission, Approval, Registry, Execute, ToolEnds
      <4>3. ran' \subseteq Calls /\ UNCHANGED <<cancelled, audit>>
        BY <3>1 DEF TypeOK, Guard, Permission, Approval, Registry, BudgetGate,
                    Execute, ToolEnds
      <4> QED BY <4>1, <4>2, <4>3 DEF TypeOK, CallTypeOK, audit
    <3>2. CASE Cancel(c) \/ CutOff(c)
      <4>1. CallTypeOK'
        BY <2>a, <3>2, GotoType DEF Cancel, CutOff, Left
      <4>2. cancelled' \subseteq Calls /\ UNCHANGED <<ran, budget, row>>
        BY <3>2 DEF TypeOK, Cancel, CutOff, audit
      <4>3. fate' \in [Calls -> Ledger!Fates] /\ alerted' = alerted
        BY <3>2 DEF TypeOK, Cancel, CutOff, audit, Ledger!Store, Ledger!Queue,
                    Ledger!Becomes, Ledger!Fates
      <4> QED BY <4>1, <4>2, <4>3 DEF TypeOK, CallTypeOK, budget, Budget!TypeOK
    <3>3. CASE Record(c)
      <4>1. CallTypeOK'
        BY <2>a, <3>3, GotoType DEF Record
      <4>2. fate' \in [Calls -> Ledger!Fates] /\ alerted' = alerted
        BY <3>3 DEF TypeOK, Record, Ledger!Accept, Ledger!Becomes, Ledger!Fates
      <4>3. row' \in [Calls -> Context \cup {NoRow}]
        BY <3>3 DEF TypeOK, Record
      <4> QED
        BY <3>3, <4>1, <4>2, <4>3 DEF TypeOK, CallTypeOK, Record, budget, Budget!TypeOK
    <3>4. CASE Recorded(c)
      <4>1. CallTypeOK'
        BY <2>a, <3>4, GotoType DEF Recorded, Left
      <4>2. fate' \in [Calls -> Ledger!Fates] /\ alerted' \subseteq Calls
        BY <3>4 DEF TypeOK, Recorded, Ledger!Store, Ledger!Queue, Ledger!Alert,
                    Ledger!Becomes, Ledger!Fates
      <4> QED
        BY <3>4, <4>1, <4>2 DEF TypeOK, CallTypeOK, Recorded, budget, Budget!TypeOK
    <3> QED
      BY <2>1, <3>1, <3>2, <3>3, <3>4
         DEF Step, Proceed
  <2> QED BY <2>0, <2>1 DEF Next
<1> QED BY <1>1, <1>2, PTL DEF Spec

-----------------------------------------------------------------------------
Gates == {"SecurityGuard", "PermissionResolver", "ToolRegistry", "BudgetTracker"}
Unpaid == {"guard", "permission", "approval", "registry"}
Paying == {"incremented", "charged"}

\* What holds of a call wherever it is.
RowInv(c) ==
    /\ pc[c] \in Within => ctx[c].told = "none" /\ ctx[c].status = "pending"
    /\ pc[c] \in Within \cup {"finally"} => row[c] = NoRow
    /\ row[c] = NoRow \/ row[c] = ctx[c]
    /\ ctx[c].status = "success" <=> ctx[c].told = "content"
    /\ ctx[c].status \in Refusals => c \notin ran
    /\ ctx[c].status = "pending" => pc[c] \in Within \/ c \in cancelled

GateInv(c) ==
    /\ c \in ran => pc[c] \notin Unpaid \cup {"budget", "executor"}
    /\ pc[c] \in {"registry", "budget", "executor", "tool"} \/ c \in ran => ctx[c].granted
    /\ pc[c] \in Unpaid => phase[c] = "idle"
    /\ pc[c] = "budget" => phase[c] \in {"idle", "read_calls", "allowed", "incremented"}
    /\ pc[c] \in {"executor", "tool"} \/ c \in ran => phase[c] = "charged"
    /\ pc[c] \in Within => ctx[c].layer = "none"
    /\ ctx[c].layer \in Gates => phase[c] \notin Paying \cup {"failed"}

CallInv(c) == RowInv(c) /\ GateInv(c)

\* The entries of a call that CallInv reads.
Same(c) ==
    /\ pc'[c] = pc[c] /\ ctx'[c] = ctx[c] /\ row'[c] = row[c] /\ phase'[c] = phase[c]
    /\ c \in ran' <=> c \in ran
    /\ c \in cancelled' <=> c \in cancelled

LEMMA SameKeeps ==
    ASSUME NEW c \in Calls, CallInv(c), Same(c)
    PROVE  CallInv(c)'
BY DEF CallInv, RowInv, GateInv, Same

\* A verdict, with the budget left alone.
LEMMA VerdictKeeps ==
    ASSUME TypeOK, NEW c \in Calls, CallInv(c), pc[c] \in Within,
           NEW s \in Statuses \ {"pending"}, NEW l \in Layers,
           NEW t \in {"content", "error"}, Verdict(c, s, l, t),
           s = "success" <=> t = "content",
           s \in Refusals => c \notin ran,
           UNCHANGED <<ran, cancelled, row>>,
           phase'[c] \notin Paying \cup {"failed"} \/ l \notin Gates,
           c \in ran => phase'[c] = "charged"
    PROVE  CallInv(c)'
<1>1. /\ ctx'[c] = [status |-> s, layer |-> l, told |-> t, granted |-> ctx[c].granted]
      /\ pc'[c] = "finally"
  BY DEF Verdict, Goto, TypeOK
<1>2. "finally" \notin Within \cup Unpaid
  BY DEF Within, Awaiting, Unpaid
<1>3. RowInv(c)'
  BY <1>1, <1>2 DEF CallInv, RowInv
<1>4. GateInv(c)'
  BY <1>1, <1>2 DEF CallInv, GateInv, Unpaid, Gates
<1> QED BY <1>3, <1>4 DEF CallInv

\* Only the call that takes the step changes.
LEMMA OthersSame ==
    ASSUME TypeOK, NEW c \in Calls, Step(c), NEW d \in Calls \ {c}
    PROVE  Same(d)
<1> USE DEF TypeOK, Same, Goto, Verdict, Refuse, Raised, Passes, Granted
<1>1. CASE Guard(c)      BY <1>1 DEF Guard, budget, audit
<1>2. CASE Permission(c) BY <1>2 DEF Permission, budget, audit
<1>3. CASE Approval(c)   BY <1>3 DEF Approval, Denied, budget, audit
<1>4. CASE Registry(c)   BY <1>4 DEF Registry, budget, audit
<1>5. CASE BudgetGate(c)
  <2>1. PICK p \in Budget!Phases : phase' = [phase EXCEPT ![c] = p]
    BY <1>5, GateEffect DEF BudgetGate
  <2>2. phase'[d] = phase[d]
    BY <2>1 DEF Budget!TypeOK
  <2>3. pc'[d] = pc[d] /\ ctx'[d] = ctx[d]
    BY <1>5 DEF BudgetGate, Unavailable
  <2> QED BY <1>5, <2>2, <2>3 DEF BudgetGate, audit
<1>6. CASE Execute(c)    BY <1>6 DEF Execute, budget, audit
<1>7. CASE ToolEnds(c)   BY <1>7 DEF ToolEnds, budget, audit
<1>8. CASE Cancel(c)     BY <1>8 DEF Cancel, budget, audit
<1>9. CASE Record(c)     BY <1>9 DEF Record, budget
<1>10. CASE Recorded(c)  BY <1>10 DEF Recorded, budget
<1>11. CASE CutOff(c)    BY <1>11 DEF CutOff, budget
<1> QED
  BY <1>1, <1>2, <1>3, <1>4, <1>5, <1>6, <1>7, <1>8, <1>9, <1>10, <1>11
     DEF Step, Proceed

\* The except clause, and a call that goes on to the next layer.
LEMMA RaisedKeeps ==
    ASSUME TypeOK, NEW c \in Calls, CallInv(c), pc[c] \in Within, Raised(c),
           UNCHANGED <<ran, cancelled, row>>, c \in ran => phase'[c] = "charged"
    PROVE  CallInv(c)'
<1>1. Verdict(c, "error", "Pipeline", "error")
  BY DEF CallInv, RowInv, Raised, Refuse
<1> QED BY <1>1, VerdictKeeps DEF Statuses, Layers, Refusals, Gates

LEMMA RefuseKeeps ==
    ASSUME TypeOK, NEW c \in Calls, CallInv(c), pc[c] \in Unpaid,
           NEW s \in Statuses \ {"pending", "success"}, NEW l \in Layers, Refuse(c, s, l),
           UNCHANGED <<ran, cancelled, row, phase>>
    PROVE  CallInv(c)'
<1>1. c \notin ran /\ phase[c] = "idle"
  BY DEF CallInv, GateInv, Unpaid
<1>2. pc[c] \in Within
  BY DEF Unpaid, Within, Awaiting
<1> QED BY <1>1, <1>2, VerdictKeeps DEF Refuse, Paying

\* Layers 1 to 3.
LEMMA UnpaidKeeps ==
    ASSUME TypeOK, NEW c \in Calls, CallInv(c),
           Guard(c) \/ Permission(c) \/ Approval(c) \/ Registry(c)
    PROVE  CallInv(c)'
<1> USE DEF Statuses, Layers
<1>1. pc[c] \in Unpaid /\ pc[c] \in Within /\ c \notin ran
  BY DEF CallInv, GateInv, Guard, Permission, Approval, Registry, Unpaid, Within, Awaiting
<1>2. UNCHANGED <<ran, cancelled, row, phase>>
  BY DEF Guard, Permission, Approval, Registry, budget, audit
<1>3. CASE Raised(c)
  BY <1>1, <1>2, <1>3, RaisedKeeps
<1>4. CASE \E s \in Statuses \ {"pending", "success"}, l \in Layers : Refuse(c, s, l)
  BY <1>1, <1>2, <1>4, RefuseKeeps
<1>5. CASE pc[c] \in {"guard", "registry"} /\ Passes(c)
  <2>1. pc'[c] = Following(pc[c]) /\ ctx'[c] = ctx[c]
    BY <1>5 DEF Passes, Goto, TypeOK
  <2>2. pc'[c] \in {"permission", "budget"} /\ pc'[c] \in Within
    BY <1>5, <2>1 DEF Following, Within, Awaiting
  <2>3. pc[c] = "guard" => pc'[c] = "permission"
    BY <2>1 DEF Following
  <2> QED BY <1>1, <1>2, <1>5, <2>1, <2>2, <2>3 DEF CallInv, RowInv, GateInv, Unpaid
<1>6. CASE pc[c] \in {"permission", "approval"} /\ Granted(c)
  <2>1. pc'[c] = "registry" /\ ctx'[c] = Unruled(TRUE)
    BY <1>6 DEF Granted, Goto, Following, TypeOK
  <2> QED BY <1>1, <1>2, <2>1
          DEF CallInv, RowInv, GateInv, Unpaid, Unruled, Refusals, Gates, Within, Awaiting
<1>7. CASE pc[c] = "permission" /\ Goto(c, "approval") /\ UNCHANGED ctx
  <2>1. pc'[c] = "approval" /\ ctx'[c] = ctx[c]
    BY <1>7 DEF Goto, TypeOK
  <2> QED BY <1>1, <1>2, <2>1 DEF CallInv, RowInv, GateInv, Unpaid, Within, Awaiting
<1> QED
  BY <1>3, <1>4, <1>5, <1>6, <1>7 DEF Guard, Permission, Approval, Denied, Registry

\* The budget gate and the increment.
LEMMA BudgetKeeps ==
    ASSUME TypeOK, NEW c \in Calls, CallInv(c), BudgetGate(c)
    PROVE  CallInv(c)'
<1>1. PICK p \in Budget!Phases : phase' = [phase EXCEPT ![c] = p] /\ GateMoves(c, p)
  BY GateEffect DEF BudgetGate, TypeOK
<1>2. phase'[c] = p
  BY <1>1 DEF TypeOK, Budget!TypeOK
<1>3. /\ c \notin ran /\ pc[c] = "budget" /\ pc[c] \in Within
      /\ phase[c] \in {"idle", "read_calls", "allowed", "incremented"}
  BY DEF CallInv, GateInv, BudgetGate, Within, Awaiting
<1>4. UNCHANGED <<ran, cancelled, row>>
  BY DEF BudgetGate, audit
<1>5. CASE p = "rejected"
  <2>1. Verdict(c, "budget_exceeded", "BudgetTracker", "error")
    BY <1>2, <1>5 DEF BudgetGate, Refuse
  <2> QED BY <1>2, <1>3, <1>4, <1>5, <2>1, VerdictKeeps DEF Statuses, Layers, Paying
<1>6. CASE p = "unavailable"
  <2>1. Verdict(c, "error", "BudgetTracker", "error")
    BY <1>2, <1>6 DEF BudgetGate, Unavailable, Refuse
  <2> QED BY <1>2, <1>3, <1>4, <1>6, <2>1, VerdictKeeps DEF Statuses, Layers, Paying
<1>7. CASE p = "failed"
  <2>1. Raised(c)
    BY <1>2, <1>7 DEF BudgetGate
  <2> QED BY <1>3, <1>4, <2>1, RaisedKeeps
<1>8. CASE p = "charged"
  <2>1. pc'[c] = "executor" /\ ctx'[c] = ctx[c]
    BY <1>2, <1>3, <1>8 DEF BudgetGate, Passes, Goto, Following, TypeOK
  <2> QED BY <1>2, <1>3, <1>4, <1>8, <2>1
          DEF CallInv, RowInv, GateInv, Unpaid, Within, Awaiting, Gates
<1>9. CASE p \in {"read_calls", "allowed", "incremented"}
  <2>1. UNCHANGED <<pc, ctx>>
    BY <1>2, <1>9 DEF BudgetGate
  <2> QED BY <1>2, <1>3, <1>4, <1>9, <2>1 DEF CallInv, RowInv, GateInv, Unpaid, Gates
<1> QED
  BY <1>1, <1>3, <1>5, <1>6, <1>7, <1>8, <1>9 DEF GateMoves, Budget!Verdicts

\* The executor.
LEMMA ExecutorKeeps ==
    ASSUME TypeOK, NEW c \in Calls, CallInv(c), Execute(c) \/ ToolEnds(c)
    PROVE  CallInv(c)'
<1> USE DEF Statuses, Layers, Refusals, Gates
<1>1. pc[c] \in {"executor", "tool"} /\ pc[c] \in Within /\ phase[c] = "charged"
  BY DEF CallInv, GateInv, Execute, ToolEnds, Within, Awaiting
<1>2. UNCHANGED <<cancelled, row, phase>>
  BY DEF Execute, ToolEnds, budget, audit
<1>3. CASE pc[c] = "executor" /\ Goto(c, "tool") /\ ran' = ran \cup {c} /\ UNCHANGED ctx
  <2>1. pc'[c] = "tool" /\ ctx'[c] = ctx[c]
    BY <1>3 DEF Goto, TypeOK
  <2> QED BY <1>1, <1>2, <1>3, <2>1 DEF CallInv, RowInv, GateInv, Unpaid, Within, Awaiting
<1>4. CASE Verdict(c, "success", "none", "content") /\ UNCHANGED ran
  BY <1>1, <1>2, <1>4, VerdictKeeps
<1>5. CASE Raised(c) /\ UNCHANGED ran
  BY <1>1, <1>2, <1>5, RaisedKeeps
<1>6. CASE pc[c] = "executor" /\ Refuse(c, "circuit_open", "Executor") /\ UNCHANGED ran
  <2>1. c \notin ran
    BY <1>6 DEF CallInv, GateInv
  <2> QED BY <1>1, <1>2, <1>6, <2>1, VerdictKeeps DEF Refuse
<1>7. CASE \E s \in {"error", "timeout"} : Refuse(c, s, "Executor") /\ UNCHANGED ran
  BY <1>1, <1>2, <1>7, VerdictKeeps DEF Refuse
<1> QED BY <1>3, <1>4, <1>5, <1>6, <1>7 DEF Execute, ToolEnds

\* Cancellation and the finally clause.
LEMMA FinallyKeeps ==
    ASSUME TypeOK, NEW c \in Calls, CallInv(c),
           Cancel(c) \/ Record(c) \/ Recorded(c) \/ CutOff(c)
    PROVE  CallInv(c)'
<1> USE DEF CallInv, RowInv, GateInv, Unpaid, Within, Awaiting, Goto, TypeOK
<1>1. CASE Cancel(c)   BY <1>1 DEF Cancel, budget, audit
<1>2. CASE Record(c)   BY <1>2 DEF Record, budget
<1>3. CASE Recorded(c) BY <1>3 DEF Recorded, budget
<1>4. CASE CutOff(c)   BY <1>4 DEF CutOff, budget, audit
<1> QED BY <1>1, <1>2, <1>3, <1>4

LEMMA CallInvariant == Spec => [](\A c \in Calls : CallInv(c))
<1>1. Init => \A c \in Calls : CallInv(c)
  BY DEF Init, Budget!Init, CallInv, RowInv, GateInv, Unruled, Refusals, Gates,
         Unpaid, Within, Awaiting, Paying
<1>2. TypeOK /\ (\A c \in Calls : CallInv(c)) /\ [Next]_vars
          => (\A c \in Calls : CallInv(c))'
  <2> SUFFICES ASSUME TypeOK, \A c \in Calls : CallInv(c), [Next]_vars,
                      NEW d \in Calls
               PROVE  CallInv(d)'
    OBVIOUS
  <2>1. CASE UNCHANGED vars
    BY <2>1, SameKeeps DEF vars, budget, audit, Same
  <2>2. ASSUME NEW c \in Calls, Step(c) PROVE CallInv(d)'
    <3>1. CASE c = d
      BY <2>2, <3>1, UnpaidKeeps, BudgetKeeps, ExecutorKeeps, FinallyKeeps
         DEF Step, Proceed
    <3>2. CASE c # d
      BY <2>2, <3>2, OthersSame, SameKeeps
    <3> QED BY <3>1, <3>2
  <2> QED BY <2>1, <2>2 DEF Next
<1> QED BY <1>1, <1>2, TypeCorrect, PTL DEF Spec

(* The row of a call says what became of it: success if and only if there  *)
(* was content, a refusal only if the tool was not called, pending only if *)
(* the call was cancelled.                                                 *)
THEOREM TrueRows == Spec => []RowsTellTheTruth
<1>1. TypeOK /\ (\A c \in Calls : CallInv(c)) => RowsTellTheTruth
  <2> SUFFICES ASSUME TypeOK, \A c \in Calls : CallInv(c),
                      NEW c \in Calls, row[c] # NoRow
               PROVE  /\ row[c].status = "success" <=> row[c].told = "content"
                      /\ row[c].status \in Refusals => c \notin ran
                      /\ row[c].status = "pending" => c \in cancelled
    BY DEF RowsTellTheTruth
  <2>1. row[c] = ctx[c] /\ pc[c] \notin Within
    BY DEF CallInv, RowInv
  <2> QED BY <2>1 DEF CallInv, RowInv
<1> QED BY <1>1, TypeCorrect, CallInvariant, PTL

-----------------------------------------------------------------------------
(* The counter of a session: at least the calls that have paid, at most    *)
(* these and the ones whose payment has failed, applied or not.            *)
Paid(s) == {c \in CallsOf(s) : phase[c] \in Paying}
MaybePaid(s) == {c \in CallsOf(s) : phase[c] \in Paying \cup {"failed"}}
CountInv(s) ==
    /\ Cardinality(Paid(s)) <= counter[<<s, "calls">>]
    /\ counter[<<s, "calls">>] <= Cardinality(MaybePaid(s))

LEMMA PaidFinite ==
    ASSUME NEW S \in SUBSET Calls
    PROVE  IsFiniteSet(S) /\ Cardinality(S) \in Nat
BY FS_Subset, FS_CardinalityType, PipelineAssumption

\* A step that leaves the counter alone.
LEMMA CountKept ==
    ASSUME NEW s \in Sessions, CountInv(s),
           counter[<<s, "calls">>] \in Nat, counter'[<<s, "calls">>] = counter[<<s, "calls">>],
           Paid(s)' \subseteq Paid(s), MaybePaid(s) \subseteq MaybePaid(s)'
    PROVE  CountInv(s)'
<1>1. Paid(s) \subseteq Calls /\ MaybePaid(s)' \subseteq Calls
  BY DEF Paid, MaybePaid, CallsOf
<1>2. /\ Cardinality(Paid(s)) \in Nat /\ Cardinality(Paid(s)') \in Nat
      /\ Cardinality(Paid(s)') <= Cardinality(Paid(s))
  BY <1>1, PaidFinite, FS_Subset
<1>3. /\ Cardinality(MaybePaid(s)) \in Nat /\ Cardinality(MaybePaid(s)') \in Nat
      /\ Cardinality(MaybePaid(s)) <= Cardinality(MaybePaid(s)')
  BY <1>1, PaidFinite, FS_Subset
<1> QED BY <1>2, <1>3 DEF CountInv

\* An INCR, its reply received or lost.
LEMMA CountRaised ==
    ASSUME NEW s \in Sessions, NEW c \in CallsOf(s), CountInv(s), NEW n \in {0, 1},
           counter[<<s, "calls">>] \in Nat,
           counter'[<<s, "calls">>] = counter[<<s, "calls">>] + n,
           c \notin MaybePaid(s), MaybePaid(s)' = MaybePaid(s) \cup {c},
           Paid(s)' = Paid(s) \/ (n = 1 /\ Paid(s)' = Paid(s) \cup {c})
    PROVE  CountInv(s)'
<1>1. Paid(s) \subseteq Calls /\ MaybePaid(s) \subseteq Calls
  BY DEF Paid, MaybePaid, CallsOf
<1>2. /\ IsFiniteSet(MaybePaid(s)) /\ Cardinality(MaybePaid(s)) \in Nat
      /\ IsFiniteSet(Paid(s)) /\ Cardinality(Paid(s)) \in Nat
  BY <1>1, PaidFinite
<1>3. Cardinality(MaybePaid(s)') = Cardinality(MaybePaid(s)) + 1
  BY <1>2, FS_AddElement
<1>4. Cardinality(Paid(s)') \in {Cardinality(Paid(s)), Cardinality(Paid(s)) + n}
  <2>1. CASE Paid(s)' = Paid(s) BY <2>1
  <2>2. CASE n = 1 /\ Paid(s)' = Paid(s) \cup {c}
    <3>1. c \notin Paid(s)
      BY DEF Paid, MaybePaid
    <3>2. Cardinality(Paid(s) \cup {c}) = Cardinality(Paid(s)) + 1
      BY <3>1, <1>2, FS_AddElement
    <3> QED BY <2>2, <3>2
  <2> QED BY <2>1, <2>2
<1> QED BY <1>2, <1>3, <1>4 DEF CountInv

LEMMA GateCounts ==
    ASSUME TypeOK, NEW c \in Calls, CallInv(c), BudgetGate(c),
           NEW s \in Sessions, CountInv(s)
    PROVE  CountInv(s)'
<1>1. PICK p \in Budget!Phases : phase' = [phase EXCEPT ![c] = p] /\ GateMoves(c, p)
  BY GateEffect DEF BudgetGate, TypeOK
<1>2. /\ counter \in [Sessions \X {"calls", "tokens"} -> Nat]
      /\ DOMAIN phase = Calls
  BY DEF TypeOK, Budget!TypeOK, Budget!Keys, Budget!Metrics
<1>3. \A d \in Calls : phase'[d] = IF d = c THEN p ELSE phase[d]
  BY <1>1, <1>2
<1>4. phase[c] \in {"idle", "read_calls", "allowed", "incremented"}
  BY DEF CallInv, GateInv, BudgetGate
<1>5. counter[<<s, "calls">>] \in Nat
  BY <1>2
<1>6. CASE \/ phase[c] \in {"idle", "read_calls"}
           \/ phase[c] = "incremented"
  <2>1. counter' = counter
    BY <1>1, <1>6 DEF GateMoves, Budget!Verdicts
  <2>2. /\ p \in Paying => phase[c] \in Paying
        /\ phase[c] \in Paying \cup {"failed"} => p \in Paying \cup {"failed"}
    BY <1>1, <1>6 DEF GateMoves, Budget!Verdicts, Paying
  <2>3. Paid(s)' \subseteq Paid(s) /\ MaybePaid(s) \subseteq MaybePaid(s)'
    BY <1>3, <2>2 DEF Paid, MaybePaid, CallsOf
  <2> QED BY <1>5, <2>1, <2>3, CountKept
<1>7. CASE phase[c] = "allowed"
  <2>1. \/ p = "incremented" /\ Counted(c, 1)
        \/ p = "failed" /\ \E n \in {0, 1} : Counted(c, n)
    BY <1>1, <1>7 DEF GateMoves, Budget!Verdicts
  <2>2. PICK n \in {0, 1} : Counted(c, n) /\ (p = "incremented" => n = 1)
                            /\ p \in {"failed", "incremented"}
    <3>1. CASE p = "incremented" /\ Counted(c, 1)
      BY <3>1, 1 \in {0, 1}
    <3>2. CASE p = "failed" /\ \E n \in {0, 1} : Counted(c, n)
      BY <3>2
    <3> QED BY <2>1, <3>1, <3>2
  <2>3. CASE SessionOf[c] = s
    <3>1. c \in CallsOf(s) /\ c \notin MaybePaid(s)
      BY <1>7, <2>3 DEF CallsOf, MaybePaid, Paying
    <3>2. counter'[<<s, "calls">>] = counter[<<s, "calls">>] + n
      BY <1>2, <2>2, <2>3 DEF Counted, Budget!Key
    <3>3. MaybePaid(s)' = MaybePaid(s) \cup {c}
      BY <1>3, <2>2, <3>1 DEF MaybePaid, CallsOf, Paying
    <3>4. Paid(s)' = Paid(s) \/ (n = 1 /\ Paid(s)' = Paid(s) \cup {c})
      <4>1. CASE p = "failed"
        <5>1. Paid(s)' = Paid(s)
          BY <1>3, <1>7, <4>1 DEF Paid, CallsOf, Paying
        <5> QED BY <5>1
      <4>2. CASE p = "incremented"
        <5>1. Paid(s)' = Paid(s) \cup {c}
          BY <1>3, <3>1, <4>2 DEF Paid, CallsOf, Paying
        <5> QED BY <2>2, <4>2, <5>1
      <4> QED BY <2>2, <4>1, <4>2
    <3> QED BY <1>5, <3>1, <3>2, <3>3, <3>4, CountRaised
  <2>4. CASE SessionOf[c] # s
    <3>1. counter'[<<s, "calls">>] = counter[<<s, "calls">>]
      BY <1>2, <2>2, <2>4, PipelineAssumption DEF Counted, Budget!Key
    <3>2. Paid(s)' = Paid(s) /\ MaybePaid(s)' = MaybePaid(s)
      BY <1>3, <2>4 DEF Paid, MaybePaid, CallsOf
    <3> QED BY <1>5, <3>1, <3>2, CountKept
  <2> QED BY <2>3, <2>4
<1> QED BY <1>4, <1>6, <1>7

LEMMA CountInvariant == Spec => [](\A s \in Sessions : CountInv(s))
<1>1. Init => \A s \in Sessions : CountInv(s)
  <2> SUFFICES ASSUME Init, NEW s \in Sessions PROVE CountInv(s)
    OBVIOUS
  <2>1. Paid(s) = {} /\ MaybePaid(s) = {}
    BY DEF Init, Budget!Init, Paid, MaybePaid, CallsOf, Paying
  <2>2. counter[<<s, "calls">>] = 0
    BY DEF Init, Budget!Init, Budget!Keys, Budget!Metrics
  <2> QED BY <2>1, <2>2, FS_EmptySet DEF CountInv
<1>2. TypeOK /\ (\A c \in Calls : CallInv(c)) /\ (\A s \in Sessions : CountInv(s))
          /\ [Next]_vars => (\A s \in Sessions : CountInv(s))'
  <2> SUFFICES ASSUME TypeOK, \A c \in Calls : CallInv(c), [Next]_vars,
                      NEW s \in Sessions, CountInv(s)
               PROVE  CountInv(s)'
    OBVIOUS
  <2>1. CASE \E c \in Calls : BudgetGate(c)
    BY <2>1, GateCounts
  <2>2. CASE UNCHANGED budget
    BY <2>2 DEF budget, CountInv, Paid, MaybePaid
  <2> QED
    BY <2>1, <2>2 DEF Next, Step, Proceed, Guard, Permission, Approval, Registry,
       Execute, ToolEnds, Cancel, Record, Recorded, CutOff, vars
<1> QED BY <1>1, <1>2, TypeCorrect, CallInvariant, PTL DEF Spec

(* No tool is called without a permission, and a session is charged for    *)
(* every call before its tool is called.                                   *)
THEOREM AdmittedRun == Spec => []OnlyAdmittedRun
<1>1. TypeOK /\ (\A c \in Calls : CallInv(c)) /\ (\A s \in Sessions : CountInv(s))
          => OnlyAdmittedRun
  <2> SUFFICES ASSUME TypeOK, \A c \in Calls : CallInv(c), \A s \in Sessions : CountInv(s)
               PROVE  OnlyAdmittedRun
    OBVIOUS
  <2>1. ASSUME NEW c \in ran PROVE ctx[c].granted /\ phase[c] = "charged"
    BY DEF TypeOK, CallInv, GateInv
  <2>2. ASSUME NEW s \in Sessions
        PROVE  Cardinality(ran \cap CallsOf(s)) <= counter[<<s, "calls">>]
    <3>1. ran \cap CallsOf(s) \subseteq Paid(s) /\ Paid(s) \subseteq Calls
      BY <2>1 DEF Paid, CallsOf, Paying
    <3>2. /\ Cardinality(ran \cap CallsOf(s)) <= Cardinality(Paid(s))
          /\ Cardinality(ran \cap CallsOf(s)) \in Nat /\ Cardinality(Paid(s)) \in Nat
      BY <3>1, PaidFinite, FS_Subset
    <3>3. counter[<<s, "calls">>] \in Nat
      BY DEF TypeOK, Budget!TypeOK, Budget!Keys, Budget!Metrics
    <3> QED BY <3>2, <3>3 DEF CountInv
  <2> QED BY <2>1, <2>2 DEF OnlyAdmittedRun
<1> QED BY <1>1, TypeCorrect, CallInvariant, CountInvariant, PTL

(* The calls that a layer before the executor has refused cost nothing.    *)
THEOREM FreeRefusals == Spec => []RefusalsAreFree
<1>1. TypeOK /\ (\A c \in Calls : CallInv(c)) /\ (\A s \in Sessions : CountInv(s))
          => RefusalsAreFree
  <2> SUFFICES ASSUME TypeOK, \A c \in Calls : CallInv(c), \A s \in Sessions : CountInv(s),
                      NEW s \in Sessions
               PROVE  counter[<<s, "calls">>] <=
                          Cardinality({c \in CallsOf(s) : ctx[c].layer \notin Gates})
    BY DEF RefusalsAreFree, Gates
  <2> DEFINE Unrefused == {c \in CallsOf(s) : ctx[c].layer \notin Gates}
  <2>1. MaybePaid(s) \subseteq Unrefused /\ Unrefused \subseteq Calls
    BY DEF MaybePaid, CallsOf, CallInv, GateInv
  <2>2. /\ Cardinality(MaybePaid(s)) <= Cardinality(Unrefused)
        /\ Cardinality(MaybePaid(s)) \in Nat /\ Cardinality(Unrefused) \in Nat
    BY <2>1, PaidFinite, FS_Subset
  <2>3. counter[<<s, "calls">>] \in Nat
    BY DEF TypeOK, Budget!TypeOK, Budget!Keys, Budget!Metrics
  <2> QED BY <2>2, <2>3 DEF CountInv
<1> QED BY <1>1, TypeCorrect, CallInvariant, CountInvariant, PTL
-----------------------------------------------------------------------------
(* The audit record of a call follows the place where the call is.         *)
AuditInv(c) ==
    /\ pc[c] \in Within \cup {"finally"} => fate[c] = "none"
    /\ pc[c] = "recording" => fate[c] = "pending" /\ row[c] = ctx[c]
    /\ pc[c] = "returned" => Settled(c) /\ row[c] = ctx[c]

AuditSame(c) ==
    /\ pc'[c] = pc[c] /\ ctx'[c] = ctx[c] /\ row'[c] = row[c]
    /\ fate'[c] = fate[c]
    /\ c \in alerted' <=> c \in alerted

\* Before the finally clause a call leaves the audit layer alone.
LEMMA LayersKeepAudit ==
    ASSUME TypeOK, NEW c \in Calls, AuditInv(c),
           \/ Guard(c) \/ Permission(c) \/ Approval(c) \/ Registry(c)
           \/ BudgetGate(c) \/ Execute(c) \/ ToolEnds(c) \/ Cancel(c)
    PROVE  AuditInv(c)'
<1>1. pc[c] \in Within /\ UNCHANGED audit
  BY DEF Guard, Permission, Approval, Registry, BudgetGate, Execute, ToolEnds,
         Cancel, Within, Awaiting
<1>2. pc'[c] \in Within \cup {"finally"}
  <2> USE DEF TypeOK, Goto, Verdict, Refuse, Raised, Passes, Granted, Following,
              Within, Awaiting
  <2>1. CASE Guard(c)      BY <2>1 DEF Guard
  <2>2. CASE Permission(c) BY <2>2 DEF Permission
  <2>3. CASE Approval(c)   BY <2>3 DEF Approval, Denied
  <2>4. CASE Registry(c)   BY <2>4 DEF Registry
  <2>5. CASE BudgetGate(c) BY <2>5 DEF BudgetGate, Unavailable
  <2>6. CASE Execute(c)    BY <2>6 DEF Execute
  <2>7. CASE ToolEnds(c)   BY <2>7 DEF ToolEnds
  <2>8. CASE Cancel(c)     BY <2>8 DEF Cancel
  <2> QED BY <2>1, <2>2, <2>3, <2>4, <2>5, <2>6, <2>7, <2>8
<1>3. "returned" \notin Within \cup {"finally"} /\ "recording" \notin Within \cup {"finally"}
  BY DEF Within, Awaiting
<1> QED BY <1>1, <1>2, <1>3 DEF AuditInv, audit

\* The finally clause: accepted, then settled, unless it is cut off.
LEMMA FinallyKeepsAudit ==
    ASSUME TypeOK, NEW c \in Calls, AuditInv(c),
           Record(c) \/ Recorded(c) \/ CutOff(c)
    PROVE  AuditInv(c)'
<1> USE DEF TypeOK, AuditInv, Settled, Goto, Within, Awaiting, Ledger!Becomes, audit
<1>1. CASE Record(c)   BY <1>1 DEF Record, Ledger!Accept
<1>2. CASE Recorded(c)
  <2>1. pc[c] = "recording" /\ pc'[c] = "returned" /\ row'[c] = ctx'[c]
    BY <1>2 DEF Recorded
  <2>2. Settled(c)'
    BY <1>2 DEF Recorded, Ledger!Store, Ledger!Queue, Ledger!Alert
  <2> QED BY <2>1, <2>2
<1>3. CASE CutOff(c)   BY <1>3 DEF CutOff
<1> QED BY <1>1, <1>2, <1>3

\* The record of one call is no business of another.
LEMMA OthersAudit ==
    ASSUME TypeOK, NEW c \in Calls, Step(c), NEW d \in Calls \ {c}
    PROVE  AuditSame(d)
<1>1. pc'[d] = pc[d] /\ ctx'[d] = ctx[d] /\ row'[d] = row[d]
  BY OthersSame DEF Same
<1>2. fate'[d] = fate[d] /\ (d \in alerted' <=> d \in alerted)
  <2> USE DEF TypeOK, Ledger!Becomes
  <2>1. CASE UNCHANGED audit
    BY <2>1 DEF audit
  <2>2. CASE Record(c)
    BY <2>2 DEF Record, Ledger!Accept
  <2>3. CASE Recorded(c)
    BY <2>3 DEF Recorded, Ledger!Store, Ledger!Queue, Ledger!Alert
  <2>4. CASE CutOff(c)
    BY <2>4 DEF CutOff, Ledger!Store, Ledger!Queue
  <2> QED
    BY <2>1, <2>2, <2>3, <2>4
       DEF Step, Proceed, Guard, Permission, Approval, Registry, BudgetGate,
           Execute, ToolEnds, Cancel
<1> QED BY <1>1, <1>2 DEF AuditSame

(* run_tool_call() does not return before the record of the call is        *)
(* stored, queued or reported, and the record tells the final context.  A  *)
(* call that is cut off inside record() does not return: see               *)
(* NoCallUnlogged.                                                         *)
THEOREM LoggedFirst ==
    Spec => [](\A c \in Calls : pc[c] = "returned" => Settled(c) /\ row[c] = ctx[c])
<1>1. Init => \A c \in Calls : AuditInv(c)
  BY DEF Init, AuditInv, Ledger!Init
<1>2. TypeOK /\ (\A c \in Calls : AuditInv(c)) /\ [Next]_vars
          => (\A c \in Calls : AuditInv(c))'
  <2> SUFFICES ASSUME TypeOK, \A c \in Calls : AuditInv(c), [Next]_vars,
                      NEW d \in Calls
               PROVE  AuditInv(d)'
    OBVIOUS
  <2>1. CASE UNCHANGED vars
    BY <2>1 DEF vars, audit, AuditInv, Settled
  <2>2. ASSUME NEW c \in Calls, Step(c) PROVE AuditInv(d)'
    <3>1. CASE c = d
      BY <2>2, <3>1, LayersKeepAudit, FinallyKeepsAudit DEF Step, Proceed
    <3>2. CASE c # d
      <4>1. AuditSame(d)
        BY <2>2, <3>2, OthersAudit
      <4> QED BY <4>1 DEF AuditSame, AuditInv, Settled
    <3> QED BY <3>1, <3>2
  <2> QED BY <2>1, <2>2 DEF Next
<1>3. (\A c \in Calls : AuditInv(c))
          => \A c \in Calls : pc[c] = "returned" => Settled(c) /\ row[c] = ctx[c]
  BY DEF AuditInv
<1> QED BY <1>1, <1>2, <1>3, TypeCorrect, PTL DEF Spec
=============================================================================
