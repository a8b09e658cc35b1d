------------------------------ MODULE Executor ------------------------------
(***************************************************************************)
(* Layer 5: result cache, per-tool circuit breaker, MCP call.              *)
(*                                                                         *)
(* A loop (one running chat request) executes one call at a time; check()  *)
(* suspends at the cache GET, the MCP call and the cache SETEX, and each   *)
(* is a point where other loops run.  The breaker is read and written      *)
(* under an asyncio.Lock whose holder never awaits, so acquiring it never  *)
(* suspends: the gate and the start of the MCP call are one step, and so   *)
(* are the end of the MCP call and the update of the breaker.              *)
(***************************************************************************)
EXTENDS Naturals

CONSTANTS
    Loops,       \* concurrent requests
    Tools,
    Requests,    \* (tool, arguments) pairs: the input_hash of the cache key
    ToolOf,      \* the tool a request is for
    Cacheable,   \* requests whose risk level has cache_results
    Flaky,       \* tools whose MCP calls may raise or time out
    Answers,     \* what a tool may answer: "ok", or "error" for isError
    Threshold,   \* circuit_breaker_failure_threshold
    Recovery     \* circuit_breaker_recovery_seconds, in ticks

ASSUME ExecutorAssumption ==
    /\ ToolOf \in [Requests -> Tools]
    /\ Cacheable \subseteq Requests
    /\ Flaky \subseteq Tools
    /\ Answers \subseteq {"ok", "error"}
    /\ Threshold \in Nat \ {0}
    /\ Recovery \in Nat

VARIABLES
    stage,     \* where each loop is in check()
    req,       \* the request a loop executes, or executed last
    answer,    \* the text its MCP call returned
    outcome,   \* how its last call ended
    state,     \* _Breaker.state
    failures,  \* _Breaker.failures, counted up to Threshold: the code only
               \* compares it with Threshold and resets it
    age,       \* time since _Breaker.opened_at, up to Recovery
    gauge,     \* CIRCUIT_BREAKER_OPEN
    cache,     \* Redis: the cached answer of a request, or "none"
    streak,    \* history: the failures of a tool's calls since the last one
               \* that succeeded, counted up to Threshold
    since      \* history: time since the last failure, up to Recovery

calls == <<stage, req, answer, outcome>>
breakers == <<state, failures, age, gauge>>
history == <<streak, since>>
vars == <<calls, breakers, cache, history>>

Stages == {"idle", "lookup", "gate", "mcp", "store"}
Outcomes == {"none", "success", "cache_hit", "circuit_open", "failed",
             "exception", "cancelled"}
BreakerStates == {"closed", "open", "half_open"}

Tool(l) == ToolOf[req[l]]

Zero == [t \in Tools |-> 0]
LongAgo == [t \in Tools |-> Recovery]

Init ==
    /\ stage = [l \in Loops |-> "idle"]
    /\ req \in [Loops -> Requests]
    /\ answer = [l \in Loops |-> "none"]
    /\ outcome = [l \in Loops |-> "none"]
    /\ state = [t \in Tools |-> "closed"]
    /\ failures = Zero /\ age = Zero /\ gauge = Zero
    /\ streak = Zero /\ since = LongAgo
    /\ cache = [q \in Requests |-> "none"]

Goto(l, s) == stage' = [stage EXCEPT ![l] = s] /\ UNCHANGED outcome

Return(l, o) ==
    /\ stage' = [stage EXCEPT ![l] = "idle"]
    /\ outcome' = [outcome EXCEPT ![l] = o]

-----------------------------------------------------------------------------
(* The breaker.  Definitions named ...Mutant stand for a plausible bug in  *)
(* the code of the definition that follows them; no behaviour uses them.   *)

AllowedMutantOneProbe(t) ==
    state[t] = "closed" \/ (state[t] = "open" /\ age[t] >= Recovery)

\* _breaker_check: half_open lets every call through.  (Refusing all but the
\* probe would need a probe that always reports back: a cancelled one does
\* not, see AllowedMutantOneProbe.)
Allowed(t) == state[t] # "open" \/ age[t] >= Recovery

AdmittedMutant(t) ==
    /\ state' = [state EXCEPT ![t] = IF @ = "open" THEN "half-open" ELSE @]
    /\ UNCHANGED <<failures, age, gauge>>
Admitted(t) ==
    /\ state' = [state EXCEPT ![t] = IF @ = "open" THEN "half_open" ELSE @]
    /\ UNCHANGED <<failures, age, gauge>>

RecordSuccessMutant(t) ==
    /\ state' = [state EXCEPT ![t] = "closed"]
    /\ gauge' = [gauge EXCEPT ![t] = 0]
    /\ UNCHANGED <<failures, age>>
RecordSuccess(t) ==
    /\ failures' = [failures EXCEPT ![t] = 0]
    /\ state' = [state EXCEPT ![t] = "closed"]
    /\ gauge' = [gauge EXCEPT ![t] = 0]
    /\ UNCHANGED age

OpenMutant(t) ==
    /\ state' = [state EXCEPT ![t] = "open"]
    /\ gauge' = [gauge EXCEPT ![t] = 1]
    /\ UNCHANGED age
\* opened_at is the moment of this failure, also when the breaker is open
\* already and the call is one that was admitted before.
Open(t) ==
    /\ state' = [state EXCEPT ![t] = "open"]
    /\ age' = [age EXCEPT ![t] = 0]
    /\ gauge' = [gauge EXCEPT ![t] = 1]

ProbeFailed(t) ==
    /\ state[t] = "half_open"
    /\ Open(t)
    /\ UNCHANGED failures

Counted(n) == IF n < Threshold THEN n + 1 ELSE n

FailureCounted(t) ==
    /\ state[t] # "half_open"
    /\ failures' = [failures EXCEPT ![t] = Counted(@)]
    /\ IF Counted(failures[t]) >= Threshold
       THEN Open(t)
       ELSE UNCHANGED <<state, age, gauge>>

RecordFailureMutantShared(t) ==
    /\ failures' = [u \in Tools |-> Counted(failures[u])]
    /\ IF Counted(failures[t]) >= Threshold
       THEN /\ state' = [u \in Tools |-> "open"]
            /\ age' = [u \in Tools |-> 0]
            /\ gauge' = [u \in Tools |-> 1]
       ELSE UNCHANGED <<state, age, gauge>>

RecordFailure(t) == ProbeFailed(t) \/ FailureCounted(t)

-----------------------------------------------------------------------------
(* check()                                                                 *)

Begin(l) ==
    /\ stage[l] = "idle"
    /\ \E q \in Requests :
          /\ req' = [req EXCEPT ![l] = q]
          /\ stage' = [stage EXCEPT ![l] = IF q \in Cacheable THEN "lookup" ELSE "gate"]
    /\ outcome' = [outcome EXCEPT ![l] = "none"]
    /\ UNCHANGED <<answer, breakers, cache, history>>

CacheGet(l) ==
    /\ stage[l] = "lookup"
    /\ IF cache[req[l]] = "none" THEN Goto(l, "gate") ELSE Return(l, "cache_hit")
    /\ UNCHANGED <<req, answer, breakers, cache, history>>

\* A Redis error leaves check(); the pipeline reports it as its own.
CacheGetFails(l) ==
    /\ stage[l] = "lookup"
    /\ Return(l, "exception")
    /\ UNCHANGED <<req, answer, breakers, cache, history>>

Gate(l) ==
    /\ stage[l] = "gate"
    /\ IF Allowed(Tool(l))
       THEN Admitted(Tool(l)) /\ Goto(l, "mcp")
       ELSE Return(l, "circuit_open") /\ UNCHANGED breakers
    /\ UNCHANGED <<req, answer, cache, history>>

\* The MCP call returns.  _mcp_call does not look at isError: an answer
\* that reports a failed tool is a success here.
McpReturns(l) ==
    /\ stage[l] = "mcp"
    /\ \E a \in Answers : answer' = [answer EXCEPT ![l] = a]
    /\ RecordSuccess(Tool(l))
    /\ streak' = [streak EXCEPT ![Tool(l)] = 0]
    /\ IF req[l] \in Cacheable THEN Goto(l, "store") ELSE Return(l, "success")
    /\ UNCHANGED <<req, cache, since>>

\* The MCP call raises, or its 60 s are over.
McpFails(l) ==
    /\ stage[l] = "mcp"
    /\ Tool(l) \in Flaky
    /\ RecordFailure(Tool(l))
    /\ streak' = [streak EXCEPT ![Tool(l)] = Counted(@)]
    /\ since' = [since EXCEPT ![Tool(l)] = 0]
    /\ Return(l, "failed")
    /\ UNCHANGED <<req, answer, cache>>

Cached(l) == cache' = [cache EXCEPT ![req[l]] = answer[l]]

CacheSet(l) ==
    /\ stage[l] = "store"
    /\ Cached(l)
    /\ Return(l, "success")
    /\ UNCHANGED <<req, answer, breakers, history>>

\* SETEX raises, applied or not: the answer is lost to the caller.
CacheSetFails(l) ==
    /\ stage[l] = "store"
    /\ Cached(l) \/ UNCHANGED cache
    /\ Return(l, "exception")
    /\ UNCHANGED <<req, answer, breakers, history>>

\* The task is cancelled at an await; the breaker hears nothing of it.
Cancel(l) ==
    /\ stage[l] # "idle"
    /\ Return(l, "cancelled")
    /\ UNCHANGED <<req, answer, breakers, cache, history>>

-----------------------------------------------------------------------------
Later(n) == IF n < Recovery THEN n + 1 ELSE n

Tick ==
    /\ \E t \in Tools : (state[t] = "open" /\ age[t] < Recovery) \/ since[t] < Recovery
    /\ age' = [t \in Tools |-> IF state[t] = "open" THEN Later(age[t]) ELSE age[t]]
    /\ since' = [t \in Tools |-> Later(since[t])]
    /\ UNCHANGED <<calls, state, failures, gauge, cache, streak>>

CacheExpires(q) ==
    /\ cache[q] # "none"
    /\ cache' = [cache EXCEPT ![q] = "none"]
    /\ UNCHANGED <<calls, breakers, history>>

\* Breakers live in the process; the cache does not.
Restart ==
    /\ stage' = [l \in Loops |-> "idle"]
    /\ outcome' = [l \in Loops |-> "none"]
    /\ state' = [t \in Tools |-> "closed"]
    /\ failures' = Zero /\ age' = Zero /\ gauge' = Zero
    /\ streak' = Zero /\ since' = LongAgo
    /\ UNCHANGED <<req, answer, cache>>

CallStep(l) ==
    \/ CacheGet(l) \/ CacheGetFails(l)
    \/ Gate(l) \/ McpReturns(l) \/ McpFails(l)
    \/ CacheSet(l) \/ CacheSetFails(l)
    \/ Cancel(l)

Next ==
    \/ \E l \in Loops : Begin(l) \/ CallStep(l)
    \/ Tick
    \/ \E q \in Requests : CacheExpires(q)
    \/ Restart

Spec == Init /\ [][Next]_vars

\* Time passes.  Nothing is assumed of the calls.
FairSpec == Spec /\ WF_vars(Tick)

-----------------------------------------------------------------------------
TypeOK ==
    /\ stage \in [Loops -> Stages]
    /\ req \in [Loops -> Requests]
    /\ answer \in [Loops -> Answers \cup {"none"}]
    /\ outcome \in [Loops -> Outcomes]
    /\ state \in [Tools -> BreakerStates]
    /\ failures \in [Tools -> 0 .. Threshold]
    /\ age \in [Tools -> 0 .. Recovery]
    /\ gauge \in [Tools -> {0, 1}]
    /\ cache \in [Requests -> Answers \cup {"none"}]
    /\ streak \in [Tools -> 0 .. Threshold]
    /\ since \in [Tools -> 0 .. Recovery]

(* A breaker is closed exactly while its count is below the threshold, and *)
(* metrics.py:61 "1 if the circuit is OPEN": the gauge is up while it is   *)
(* open and down while it is closed.  Late results of calls admitted in    *)
(* another state of the breaker cannot bring the three apart.  Of          *)
(* half_open nothing is claimed: the gauge is then what it was before.     *)
BreakerConsistent ==
    \A t \in Tools :
        /\ state[t] = "closed" <=> failures[t] < Threshold
        /\ state[t] = "open" => gauge[t] = 1
        /\ state[t] = "closed" => gauge[t] = 0

(* README.md:186 "one failing tool never blocks others": a call is refused *)
(* only for a tool that itself can fail.                                   *)
HealthyToolNeverRefused ==
    \A l \in Loops : outcome[l] = "circuit_open" => Tool(l) \in Flaky

InFlight(t) == {l \in Loops : stage[l] = "mcp" /\ Tool(l) = t}

Tripped(t) == streak[t] >= Threshold /\ since[t] < Recovery

(* Which calls reach a tool and which are refused depends only on what has *)
(* been seen of the tool, in whatever order the results of earlier calls   *)
(* came in: a call is refused if the last Threshold results or more were   *)
(* failures and the last of them is less than the recovery time ago, and   *)
(* otherwise it is not.  One success, also a late one of a call admitted   *)
(* before the breaker opened, ends the refusals at once.                   *)
BreakerJudges ==
    [][\A l \in Loops :
         /\ stage[l] # "mcp" /\ stage'[l] = "mcp" => ~Tripped(Tool(l))
         /\ outcome[l] # "circuit_open" /\ outcome'[l] = "circuit_open"
                => Tripped(Tool(l))]_vars

(* No tool is refused for good: whatever calls fail, are refused, answer   *)
(* late or are cancelled, its breaker admits a call again and again.       *)
AdmitsAgain == \A t \in Tools : []<>Allowed(t)

(* executor.py:149 "half_open: let exactly one probe request through": the *)
(* probe is the call that turned the breaker half_open, and no other is    *)
(* let through while it is half_open.                                      *)
OneProbe ==
    [][\A t \in Tools :
         state[t] = "half_open" /\ state'[t] = "half_open"
             => InFlight(t)' \subseteq InFlight(t)]_vars
=============================================================================
