------------------------------ MODULE Pipeline ------------------------------
(***************************************************************************)
(* run_tool_call(): one tool call through the layers SecurityGuard,        *)
(* PermissionResolver, ToolRegistry, BudgetTracker and Executor, with the  *)
(* audit record in the finally clause.  Calls of concurrent requests share *)
(* the budget of their session.                                            *)
(*                                                                         *)
(* The module composes BudgetTracker, whose gate a call goes through step  *)
(* by step, and AuditLedger, which stands for the AuditLogger that         *)
(* implements it.  The other layers are the verdicts they can leave in the *)
(* PipelineContext.  Layers 1 to 3 await nothing but the approval; they    *)
(* only write their own context, so that a step of its own for each of     *)
(* them adds no outcome.                                                   *)
(***************************************************************************)
EXTENDS Naturals, FiniteSets

CONSTANTS
    Calls,      \* tool calls, each of a request of its own
    Sessions,
    SessionOf,  \* the session of each call
    CallLimit,  \* settings.session_budget_calls
    NoRow       \* no audit row has been built

ASSUME PipelineAssumption ==
    /\ IsFiniteSet(Calls)
    /\ SessionOf \in [Calls -> Sessions]
    /\ CallLimit \in Nat \ {0}

VARIABLES
    pc,         \* where each call is
    ctx,        \* its PipelineContext
    ran,        \* calls whose tool has been called (history)
    cancelled,  \* calls whose task has been cancelled (history)
    counter, ttl, phase, seen,  \* BudgetTracker
    row,        \* what _build_row() has read from the context
    fate, alerted               \* AuditLedger

\* The agentic loop charges tokens; no call does.
Budget == INSTANCE BudgetTracker WITH
    Loops <- Calls, TokenLimit <- 1, TurnTokens <- {}, MaxTokens <- 0
Ledger == INSTANCE AuditLedger WITH Records <- Calls

budget == <<counter, ttl, phase, seen>>
audit == <<row, fate, alerted>>
vars == <<pc, ctx, ran, cancelled, budget, audit>>

Statuses ==
    {"pending", "success", "error", "rejected", "security_blocked",
     "budget_exceeded", "circuit_open", "hitl_timeout", "timeout"}
Layers ==
    {"none", "SecurityGuard", "PermissionResolver", "ToolRegistry",
     "BudgetTracker", "Executor", "Pipeline"}

\* told is the ToolResult: none yet, the content, or an error.
Context ==
    [status : Statuses, layer : Layers, told : {"none", "content", "error"},
     granted : BOOLEAN]

Unruled(granted) ==
    [status |-> "pending", layer |-> "none", told |-> "none", granted |-> granted]

Awaiting == {"approval", "budget", "executor", "tool"}
Within == Awaiting \cup {"guard", "permission", "registry"}
Left == {"returned", "cut_off"}

Init ==
    /\ pc = [c \in Calls |-> "guard"]
    /\ ctx = [c \in Calls |-> Unruled(FALSE)]
    /\ ran = {}
    /\ cancelled = {}
    /\ Budget!Init
    /\ row = [c \in Calls |-> NoRow]
    /\ Ledger!Init

Goto(c, where) == pc' = [pc EXCEPT ![c] = where]

\* A layer writes its verdict; the call goes on to the finally clause.
Verdict(c, s, l, t) ==
    /\ ctx' = [ctx EXCEPT ![c] = [status |-> s, layer |-> l, told |-> t,
                                  granted |-> ctx[c].granted]]
    /\ Goto(c, "finally")

Refuse(c, s, l) == Verdict(c, s, l, "error")

-----------------------------------------------------------------------------
(* Definitions named ...Mutant stand for a plausible bug in the code of    *)
(* the definition that follows them; no behaviour uses them.               *)

\* The order of the layers.
FollowingMutant(l) ==
    CASE l = "guard" -> "permission"
      [] l \in {"permission", "approval"} -> "budget"
      [] l = "budget" -> "registry"
      [] l = "registry" -> "executor"
Following(l) ==
    CASE l = "guard" -> "permission"
      [] l \in {"permission", "approval"} -> "registry"
      [] l = "registry" -> "budget"
      [] l = "budget" -> "executor"

Passes(c) == Goto(c, Following(pc[c])) /\ UNCHANGED ctx

RaisedMutant(c) == Goto(c, "finally") /\ UNCHANGED ctx
RaisedMutantUnlogged(c) == Goto(c, "returned") /\ UNCHANGED ctx
\* except Exception: a verdict that is there already stays.
Raised(c) ==
    IF ctx[c].told = "none"
    THEN Refuse(c, "error", "Pipeline")
    ELSE Goto(c, "finally") /\ UNCHANGED ctx

Guard(c) ==
    /\ pc[c] = "guard"
    /\ Passes(c) \/ Refuse(c, "security_blocked", "SecurityGuard")
    /\ UNCHANGED <<ran, cancelled, budget, audit>>

Granted(c) ==
    /\ ctx' = [ctx EXCEPT ![c] = Unruled(TRUE)]
    /\ Goto(c, Following(pc[c]))

Permission(c) ==
    /\ pc[c] = "permission"
    /\ \/ Granted(c)
       \/ Refuse(c, "rejected", "PermissionResolver")
       \/ Goto(c, "approval") /\ UNCHANGED ctx
    /\ UNCHANGED <<ran, cancelled, budget, audit>>

\* A denial goes on to the next layer.
DeniedMutant(c) == Goto(c, "registry") /\ UNCHANGED ctx
Denied(c) == Refuse(c, "hitl_timeout", "PermissionResolver")

\* The human approves, or not in time; or Redis fails.
Approval(c) ==
    /\ pc[c] = "approval"
    /\ Granted(c) \/ Denied(c) \/ Raised(c)
    /\ UNCHANGED <<ran, cancelled, budget, audit>>

\* The check raises on a schema that types an argument by a list.
Registry(c) ==
    /\ pc[c] = "registry"
    /\ Passes(c) \/ Refuse(c, "rejected", "ToolRegistry") \/ Raised(c)
    /\ UNCHANGED <<ran, cancelled, budget, audit>>

\* Redis fails at the gate: fail closed.
UnavailableMutant(c) ==
    ctx' = [ctx EXCEPT ![c].status = "error"] /\ Goto(c, "finally")
Unavailable(c) == Refuse(c, "error", "BudgetTracker")

\* A step of check() or of increment_calls(), and what the pipeline makes of
\* the outcome.
BudgetGate(c) ==
    /\ pc[c] = "budget"
    /\ Budget!GateCall(c)
    /\ CASE phase'[c] = "rejected"    -> Refuse(c, "budget_exceeded", "BudgetTracker")
         [] phase'[c] = "unavailable" -> Unavailable(c)
         [] phase'[c] = "failed"      -> Raised(c)
         [] phase'[c] = "charged"     -> Passes(c)
         [] OTHER                     -> UNCHANGED <<pc, ctx>>
    /\ UNCHANGED <<ran, cancelled, audit>>

\* The cache answers or raises, or the breaker decides.
Execute(c) ==
    /\ pc[c] = "executor"
    /\ \/ Verdict(c, "success", "none", "content") /\ UNCHANGED ran
       \/ Raised(c) /\ UNCHANGED ran
       \/ Refuse(c, "circuit_open", "Executor") /\ UNCHANGED ran
       \/ Goto(c, "tool") /\ ran' = ran \cup {c} /\ UNCHANGED ctx
    /\ UNCHANGED <<cancelled, budget, audit>>

\* The MCP call ends; after a success the cache write may raise.
ToolEnds(c) ==
    /\ pc[c] = "tool"
    /\ \/ Verdict(c, "success", "none", "content")
       \/ \E s \in {"error", "timeout"} : Refuse(c, s, "Executor")
       \/ Raised(c)
    /\ UNCHANGED <<ran, cancelled, budget, audit>>

\* CancelledError is no Exception: the context stays as it is.
Cancel(c) ==
    /\ pc[c] \in Awaiting
    /\ Goto(c, "finally")
    /\ cancelled' = cancelled \cup {c}
    /\ UNCHANGED <<ctx, ran, budget, audit>>

\* The finally clause: record() reads the context.
Record(c) ==
    /\ pc[c] = "finally"
    /\ Ledger!Accept(c)
    /\ row' = [row EXCEPT ![c] = ctx[c]]
    /\ Goto(c, "recording")
    /\ UNCHANGED <<ctx, ran, cancelled, budget>>

\* The row is stored, or queued, or its loss is reported.
Recorded(c) ==
    /\ pc[c] = "recording"
    /\ Ledger!Store(c) \/ Ledger!Queue(c) \/ Ledger!Alert(c)
    /\ Goto(c, "returned")
    /\ UNCHANGED <<ctx, ran, cancelled, budget, row>>

\* record() itself is cancelled, and nothing there catches it.  The client
\* that leaves a stream cancels the task again at every await, so that the
\* record of a call that was cancelled before is cut off as well.  What
\* record() had sent off may be done already.
CutOff(c) ==
    /\ pc[c] = "recording"
    /\ \/ UNCHANGED <<fate, alerted>>
       \/ Ledger!Store(c) \/ Ledger!Queue(c)
    /\ Goto(c, "cut_off")
    /\ cancelled' = cancelled \cup {c}
    /\ UNCHANGED <<ctx, ran, budget, row>>

Proceed(c) ==
    \/ Guard(c) \/ Permission(c) \/ Approval(c) \/ Registry(c)
    \/ BudgetGate(c) \/ Execute(c) \/ ToolEnds(c)
    \/ Record(c) \/ Recorded(c)

Step(c) == Proceed(c) \/ Cancel(c) \/ CutOff(c)

Next == \E c \in Calls : Step(c)

Spec == Init /\ [][Next]_vars

\* The approval and the MCP call have deadlines, and every other await
\* returns or raises.  Nobody has to cancel a call.
FairSpec == Spec /\ \A c \in Calls : WF_vars(Proceed(c))

-----------------------------------------------------------------------------
TypeOK ==
    /\ pc \in [Calls -> Within \cup {"finally", "recording"} \cup Left]
    /\ ctx \in [Calls -> {x \in Context : x.status = "pending" <=> x.told = "none"}]
    /\ ran \subseteq Calls
    /\ cancelled \subseteq Calls
    /\ Budget!TypeOK
    /\ row \in [Calls -> Context \cup {NoRow}]
    /\ fate \in [Calls -> Ledger!Fates]
    /\ alerted \subseteq Calls

CallsOf(s) == {c \in Calls : SessionOf[c] = s}
Refusals == {"security_blocked", "rejected", "hitl_timeout", "budget_exceeded", "circuit_open"}

(* What the audit row of a call says is what became of the call: success   *)
(* if and only if the LLM was given content; a refusal only if the tool    *)
(* was not called; pending only if the call was cancelled.                 *)
RowsTellTheTruth ==
    \A c \in Calls : row[c] # NoRow =>
        /\ row[c].status = "success" <=> row[c].told = "content"
        /\ row[c].status \in Refusals => c \notin ran
        /\ row[c].status = "pending" => c \in cancelled

(* No tool is called without a permission, nor before the session has been *)
(* charged for the call: counted calls are never fewer than called tools.  *)
OnlyAdmittedRun ==
    /\ \A c \in ran : ctx[c].granted
    /\ \A s \in Sessions :
          Cardinality(ran \cap CallsOf(s)) <= counter[<<s, "calls">>]

(* A refused call costs nothing: the session is charged at most for its    *)
(* calls that no layer before the executor has refused.                    *)
RefusalsAreFree ==
    \A s \in Sessions :
        counter[<<s, "calls">>] <=
            Cardinality({c \in CallsOf(s) :
                ctx[c].layer \notin {"SecurityGuard", "PermissionResolver",
                                     "ToolRegistry", "BudgetTracker"}})

Settled(c) == fate[c] \in {"stored", "queued"} \/ c \in alerted

(* Whatever way a call ends, with a result, a refusal or an exception, its *)
(* record is stored, queued or reported; only a cancelled call may go      *)
(* without.                                                                *)
LoggedUnlessCancelled == \A c \in Calls : <>(Settled(c) \/ c \in cancelled)

(* pipeline.py:143 "AuditLogger always fires in the finally block - no     *)
(* call goes unlogged": when run_tool_call() is left, the record of the    *)
(* call is stored, queued or reported.                                     *)
NoCallUnlogged == \A c \in Calls : pc[c] \in Left => Settled(c)
=============================================================================
