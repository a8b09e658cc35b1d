---------------------------- MODULE BudgetTracker ----------------------------
(***************************************************************************)
(* Layer 4 of the harness: per-session counters of tool calls and tokens   *)
(* in Redis.  check() reads both counters and decides; the pipeline then   *)
(* calls increment_calls(); the agentic loop calls increment_tokens()      *)
(* after each turn.  Every Redis command is an await, so another request   *)
(* of the same session may run between any two of them: each command is an *)
(* action of its own.                                                      *)
(*                                                                         *)
(* A "loop" is one running /chat or /chat/stream request.  It runs its     *)
(* tool calls one after the other, so at any time it is in one phase.      *)
(***************************************************************************)
EXTENDS Naturals, FiniteSets

CONSTANTS
    Loops,       \* concurrent requests
    Sessions,    \* session ids
    SessionOf,   \* the session each request names
    CallLimit,   \* settings.session_budget_calls
    TokenLimit,  \* settings.session_budget_tokens
    TurnTokens,  \* token counts an LLM turn may report
    MaxTokens    \* bound on the token counter of the model

ASSUME BudgetAssumption ==
    /\ IsFiniteSet(Loops)
    /\ SessionOf \in [Loops -> Sessions]
    /\ CallLimit \in Nat \ {0}
    /\ TokenLimit \in Nat
    /\ TurnTokens \subseteq Nat
    /\ MaxTokens \in Nat

VARIABLES
    counter,  \* the value of each Redis key; 0 stands for an absent key
    ttl,      \* the keys that carry a time to live
    phase,    \* where each loop is
    seen      \* the call count the loop's check() has read

vars == <<counter, ttl, phase, seen>>

Metrics == {"calls", "tokens"}
Keys == Sessions \X Metrics

Key(l, metric) == <<SessionOf[l], metric>>

LoopsOf(s) == {l \in Loops : SessionOf[l] = s}

\* Outcomes of a gated call.
Verdicts == {"rejected", "unavailable", "charged", "failed"}
Phases == {"idle", "read_calls", "allowed", "incremented", "spent"} \cup Verdicts

Init ==
    /\ counter = [k \in Keys |-> 0]
    /\ ttl = {}
    /\ phase = [l \in Loops |-> "idle"]
    /\ seen = [l \in Loops |-> 0]

Goto(l, p) == phase' = [phase EXCEPT ![l] = p]

-----------------------------------------------------------------------------
(* check()                                                                 *)

ReadCalls(l) ==
    /\ phase[l] = "idle"
    /\ seen' = [seen EXCEPT ![l] = counter[Key(l, "calls")]]
    /\ Goto(l, "read_calls")
    /\ UNCHANGED <<counter, ttl>>

\* Definitions named ...Mutant stand for a plausible bug in the code of the
\* definition that follows them; no behaviour uses them.
CallsExceededMutant(n) == n > CallLimit
CallsExceeded(n) == n >= CallLimit

\* The second GET; the verdict uses the call count of the first one.
ReadTokens(l) ==
    /\ phase[l] = "read_calls"
    /\ Goto(l, IF CallsExceeded(seen[l]) \/ counter[Key(l, "tokens")] >= TokenLimit
               THEN "rejected" ELSE "allowed")
    /\ UNCHANGED <<counter, ttl, seen>>

\* Either GET raises: fail closed.
CheckFails(l) ==
    /\ phase[l] \in {"idle", "read_calls"}
    /\ Goto(l, "unavailable")
    /\ UNCHANGED <<counter, ttl, seen>>

-----------------------------------------------------------------------------
(* increment_calls(): INCR, then EXPIRE                                    *)

IncrCalls(l) ==
    /\ phase[l] = "allowed"
    /\ counter' = [counter EXCEPT ![Key(l, "calls")] = @ + 1]
    /\ Goto(l, "incremented")
    /\ UNCHANGED <<ttl, seen>>

\* INCR raises; when only its reply was lost, Redis has applied it.
IncrFails(l) ==
    /\ phase[l] = "allowed"
    /\ \E applied \in {0, 1} :
          counter' = [counter EXCEPT ![Key(l, "calls")] = @ + applied]
    /\ Goto(l, "failed")
    /\ UNCHANGED <<ttl, seen>>

\* EXPIRE on a key that has lapsed meanwhile has no effect.
SetTTL(k) == ttl' = IF counter[k] = 0 THEN ttl ELSE ttl \cup {k}

ExpireCalls(l) ==
    /\ phase[l] = "incremented"
    /\ SetTTL(Key(l, "calls"))
    /\ Goto(l, "charged")
    /\ UNCHANGED <<counter, seen>>

\* The mutant refunds the call that is given up.
ExpireCallsFailsMutant(l) ==
    /\ phase[l] = "incremented"
    /\ counter' = [counter EXCEPT ![Key(l, "calls")] = @ - 1]
    /\ Goto(l, "failed")
    /\ UNCHANGED <<ttl, seen>>

\* EXPIRE raises: the call is counted, and the pipeline gives it up.
ExpireCallsFails(l) ==
    /\ phase[l] = "incremented"
    /\ Goto(l, "failed")
    /\ UNCHANGED <<counter, ttl, seen>>

\* The pipeline is done with the call, whatever the verdict.
Finish(l) ==
    /\ phase[l] \in Verdicts
    /\ Goto(l, "idle")
    /\ UNCHANGED <<counter, ttl, seen>>

-----------------------------------------------------------------------------
(* increment_tokens(): INCRBY, then EXPIRE, from the agentic loop          *)

AddTokens(l) ==
    /\ phase[l] = "idle"
    /\ \E n \in TurnTokens :
          /\ counter[Key(l, "tokens")] + n <= MaxTokens
          /\ counter' = [counter EXCEPT ![Key(l, "tokens")] = @ + n]
    /\ Goto(l, "spent")
    /\ UNCHANGED <<ttl, seen>>

ExpireTokens(l) ==
    /\ phase[l] = "spent"
    /\ SetTTL(Key(l, "tokens"))
    /\ Goto(l, "idle")
    /\ UNCHANGED <<counter, seen>>

\* EXPIRE raises: the loop fails, the tokens stay counted.
ExpireTokensFails(l) ==
    /\ phase[l] = "spent"
    /\ Goto(l, "idle")
    /\ UNCHANGED <<counter, ttl, seen>>

-----------------------------------------------------------------------------
\* Redis drops a key 24 h after the last EXPIRE; one without a TTL stays.
Lapse(k) ==
    /\ k \in ttl
    /\ counter' = [counter EXCEPT ![k] = 0]
    /\ ttl' = ttl \ {k}
    /\ UNCHANGED <<phase, seen>>

GateCall(l) ==
    \/ ReadCalls(l) \/ ReadTokens(l) \/ CheckFails(l)
    \/ IncrCalls(l) \/ IncrFails(l)
    \/ ExpireCalls(l) \/ ExpireCallsFails(l)
    \/ Finish(l)

SpendTokens(l) == AddTokens(l) \/ ExpireTokens(l) \/ ExpireTokensFails(l)

Next ==
    \/ \E l \in Loops : GateCall(l) \/ SpendTokens(l)
    \/ \E k \in Keys : Lapse(k)

Spec == Init /\ [][Next]_vars

-----------------------------------------------------------------------------
TypeOK ==
    /\ counter \in [Keys -> Nat]
    /\ ttl \in SUBSET Keys
    /\ phase \in [Loops -> Phases]
    /\ seen \in [Loops -> Nat]

\* The loops of session s that will reach INCR unless something fails or
\* the token gate stops them.
Admitted(s) ==
    {l \in LoopsOf(s) : \/ phase[l] = "allowed"
                        \/ phase[l] = "read_calls" /\ seen[l] < CallLimit}

\* Every admitted loop has its increment reserved within the overshoot the
\* session's own concurrency allows.
IncrementsReserved ==
    \A s \in Sessions :
        counter[<<s, "calls">>] + Cardinality(Admitted(s))
            <= CallLimit - 1 + Cardinality(LoopsOf(s))

(* The check-then-increment gate is not atomic, so concurrent requests of  *)
(* one session can all pass it on the same count.  The call counter never  *)
(* exceeds the limit by more than the number of the session's requests     *)
(* that run at once, less one; a session used sequentially never exceeds   *)
(* it (check and increment_calls, called from run_tool_call).              *)
OvershootBounded ==
    \A s \in Sessions :
        LoopsOf(s) # {} =>
            counter[<<s, "calls">>] < CallLimit + Cardinality(LoopsOf(s))
=============================================================================
