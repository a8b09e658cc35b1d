--------------------------- MODULE Executor_proofs ---------------------------
(***************************************************************************)
(* The circuit breakers, for any number of loops, tools and requests, any  *)
(* threshold and any recovery time:                                        *)
(*   Consistent  state, failure count and gauge never come apart           *)
(*   Isolated    a tool that does not fail is never refused                *)
(*   Judges      a call is refused exactly when its tool has failed too    *)
(*               often and too recently, whatever order results come in    *)
(***************************************************************************)
EXTENDS Executor, TLAPS

\* A cancelled, refused or returning call writes only its own loop.
LEMMA ReturnTypes ==
    ASSUME TypeOK, NEW l \in Loops, NEW o \in Outcomes, Return(l, o)
    PROVE  stage' \in [Loops -> Stages] /\ outcome' \in [Loops -> Outcomes]
BY DEF TypeOK, Return, Stages

LEMMA GotoTypes ==
    ASSUME TypeOK, NEW l \in Loops, NEW s \in Stages, Goto(l, s)
    PROVE  stage' \in [Loops -> Stages] /\ outcome' \in [Loops -> Outcomes]
BY DEF TypeOK, Goto

LEMMA ToolType == ASSUME TypeOK, NEW l \in Loops PROVE Tool(l) \in Tools
BY ExecutorAssumption DEF TypeOK, Tool

\* The types of the breaker variables, and of the rest.
BreakerTypes ==
    /\ state \in [Tools -> BreakerStates]
    /\ failures \in [Tools -> 0 .. Threshold]
    /\ age \in [Tools -> 0 .. Recovery]
    /\ gauge \in [Tools -> {0, 1}]

LEMMA FailureTypes ==
    ASSUME BreakerTypes, NEW t \in Tools, RecordFailure(t)
    PROVE  BreakerTypes'
<1> USE ExecutorAssumption DEF BreakerTypes, BreakerStates, Open
<1>1. Counted(failures[t]) \in 0 .. Threshold
  BY DEF Counted
<1>2. CASE ProbeFailed(t)
  BY <1>2 DEF ProbeFailed
<1>3. CASE FailureCounted(t)
  <2>1. failures' = [failures EXCEPT ![t] = Counted(failures[t])]
    BY <1>3 DEF FailureCounted
  <2>2. failures' \in [Tools -> 0 .. Threshold]
    BY <1>1, <2>1
  <2>3. CASE Open(t)
    BY <2>2, <2>3
  <2>4. CASE UNCHANGED <<state, age, gauge>>
    BY <2>2, <2>4
  <2> QED BY <1>3, <2>3, <2>4 DEF FailureCounted
<1> QED BY <1>2, <1>3 DEF RecordFailure

(* The variables keep their types.                                         *)
THEOREM TypeCorrect == Spec => []TypeOK
<1> USE ExecutorAssumption
<1>1. Init => TypeOK
  BY DEF Init, TypeOK, Stages, Outcomes, BreakerStates, Zero, LongAgo
<1>2. TypeOK /\ [Next]_vars => TypeOK'
  <2> SUFFICES ASSUME TypeOK, [Next]_vars PROVE TypeOK'
    OBVIOUS
  <2> USE DEF TypeOK, breakers, calls, history
  <2>1. ASSUME NEW l \in Loops, Begin(l) PROVE TypeOK'
    BY <2>1 DEF Begin, Stages, Outcomes
  <2>2. ASSUME NEW l \in Loops, CallStep(l) PROVE TypeOK'
    <3>t. Tool(l) \in Tools
      BY ToolType
    <3>1. CASE CacheGet(l)
      BY <3>1 DEF CacheGet, Goto, Return, Stages, Outcomes
    <3>2. CASE CacheGetFails(l)
      BY <3>2 DEF CacheGetFails, Return, Stages, Outcomes
    <3>3. CASE Gate(l)
      <4>1. CASE Allowed(Tool(l))
        BY <3>3, <3>t, <4>1 DEF Gate, Admitted, Goto, Stages, BreakerStates
      <4>2. CASE ~Allowed(Tool(l))
        BY <3>3, <4>2 DEF Gate, Return, Stages, Outcomes
      <4> QED BY <4>1, <4>2
    <3>4. CASE McpReturns(l)
      <4>1. BreakerTypes'
        BY <3>4, <3>t DEF McpReturns, RecordSuccess, BreakerTypes, BreakerStates
      <4>2. answer' \in [Loops -> Answers \cup {"none"}]
        BY <3>4 DEF McpReturns
      <4>3. UNCHANGED <<req, cache, since>> /\ streak' \in [Tools -> 0 .. Threshold]
        BY <3>4, <3>t DEF McpReturns
      <4>4. stage' \in [Loops -> Stages] /\ outcome' \in [Loops -> Outcomes]
        BY <3>4 DEF McpReturns, Goto, Return, Stages, Outcomes
      <4> QED BY <4>1, <4>2, <4>3, <4>4 DEF BreakerTypes
    <3>5. CASE McpFails(l)
      <4>1. BreakerTypes'
        BY <3>5, <3>t, FailureTypes DEF McpFails, BreakerTypes
      <4>2. streak' \in [Tools -> 0 .. Threshold] /\ since' \in [Tools -> 0 .. Recovery]
        BY <3>5, <3>t DEF McpFails, Counted
      <4> QED BY <3>5, <4>1, <4>2 DEF McpFails, Return, Stages, Outcomes, BreakerTypes
    <3>6. CASE CacheSet(l)
      BY <3>6 DEF CacheSet, Cached, Return, Stages, Outcomes
    <3>7. CASE CacheSetFails(l)
      BY <3>7 DEF CacheSetFails, Cached, Return, Stages, Outcomes
    <3>8. CASE Cancel(l)
      BY <3>8 DEF Cancel, Return, Stages, Outcomes
    <3> QED
      BY <2>2, <3>1, <3>2, <3>3, <3>4, <3>5, <3>6, <3>7, <3>8 DEF CallStep
  <2>3. CASE Tick                BY <2>3 DEF Tick, Later
  <2>4. ASSUME NEW q \in Requests, CacheExpires(q) PROVE TypeOK'
    BY <2>4 DEF CacheExpires
  <2>5. CASE Restart
    BY <2>5 DEF Restart, Stages, Outcomes, BreakerStates, Zero, LongAgo
  <2>6. CASE UNCHANGED vars      BY <2>6 DEF vars
  <2> QED BY <2>1, <2>2, <2>3, <2>4, <2>5, <2>6 DEF Next
<1> QED BY <1>1, <1>2, PTL DEF Spec

-----------------------------------------------------------------------------
LEMMA ConsistentStep ==
    ASSUME TypeOK, BreakerConsistent, [Next]_vars
    PROVE  BreakerConsistent'
<1> USE ExecutorAssumption
<1>1. CASE UNCHANGED breakers
  BY <1>1 DEF breakers, BreakerConsistent
<1>2. ASSUME NEW l \in Loops, CallStep(l) PROVE BreakerConsistent'
  <2>t. Tool(l) \in Tools
    BY ToolType
  <2>1. CASE Gate(l)
    BY <2>1, <2>t, <1>1
    DEF Gate, Admitted, BreakerConsistent, TypeOK
  <2>2. CASE McpReturns(l)
    BY <2>2, <2>t DEF McpReturns, RecordSuccess, BreakerConsistent, TypeOK
  <2>3. CASE McpFails(l)
    <3>1. CASE ProbeFailed(Tool(l))
      BY <2>t, <3>1 DEF ProbeFailed, Open, BreakerConsistent, TypeOK
    <3>2. CASE FailureCounted(Tool(l))
      <4> DEFINE n == Counted(failures[Tool(l)])
      <4>1. failures' = [failures EXCEPT ![Tool(l)] = n]
        BY <3>2 DEF FailureCounted
      <4>2. n \in 0 .. Threshold /\ n >= failures[Tool(l)]
        BY <2>t DEF Counted, TypeOK
      <4>3. CASE n >= Threshold
        <5>1. Open(Tool(l))
          BY <3>2, <4>3 DEF FailureCounted
        <5> HIDE DEF n
        <5> QED BY <2>t, <4>1, <4>2, <4>3, <5>1 DEF Open, BreakerConsistent, TypeOK
      <4>4. CASE ~(n >= Threshold)
        <5>1. UNCHANGED <<state, age, gauge>>
          BY <3>2, <4>4 DEF FailureCounted
        <5>2. failures[Tool(l)] < Threshold
          BY <2>t, <4>2, <4>4 DEF TypeOK
        <5> HIDE DEF n
        <5> QED BY <2>t, <4>1, <4>2, <4>4, <5>1, <5>2 DEF BreakerConsistent, TypeOK
      <4> QED BY <4>3, <4>4
    <3> QED BY <2>3, <3>1, <3>2 DEF McpFails, RecordFailure
  <2>4. CASE CacheGet(l) \/ CacheGetFails(l) \/ CacheSet(l) \/ CacheSetFails(l) \/ Cancel(l)
    BY <2>4, <1>1 DEF CacheGet, CacheGetFails, CacheSet, CacheSetFails, Cancel
  <2> QED BY <1>2, <2>1, <2>2, <2>3, <2>4 DEF CallStep
<1>3. CASE Tick
  BY <1>3 DEF Tick, BreakerConsistent
<1>4. CASE Restart
  BY <1>4 DEF Restart, Zero, BreakerConsistent
<1>5. ASSUME NEW l \in Loops, Begin(l) PROVE BreakerConsistent'
  BY <1>5, <1>1 DEF Begin
<1>6. ASSUME NEW q \in Requests, CacheExpires(q) PROVE BreakerConsistent'
  BY <1>6, <1>1 DEF CacheExpires
<1>7. CASE UNCHANGED vars
  BY <1>7, <1>1 DEF vars
<1> QED BY <1>2, <1>3, <1>4, <1>5, <1>6, <1>7 DEF Next

(* State, failure count and gauge of a breaker never come apart.           *)
THEOREM Consistent == Spec => []BreakerConsistent
<1>1. Init => BreakerConsistent
  BY ExecutorAssumption DEF Init, Zero, BreakerConsistent
<1> QED BY <1>1, ConsistentStep, TypeCorrect, PTL DEF Spec

-----------------------------------------------------------------------------
\* What keeps a healthy tool's breaker closed, and its calls admitted.
HealthyClosed ==
    /\ \A t \in Tools \ Flaky : state[t] = "closed"
    /\ HealthyToolNeverRefused

LEMMA HealthyStep ==
    ASSUME TypeOK, HealthyClosed, [Next]_vars
    PROVE  HealthyClosed'
<1> USE ExecutorAssumption DEF HealthyClosed, HealthyToolNeverRefused, TypeOK
<1>1. ASSUME NEW l \in Loops, Begin(l) PROVE HealthyClosed'
  BY <1>1 DEF Begin, Tool, breakers
<1>2. ASSUME NEW l \in Loops, CallStep(l) PROVE HealthyClosed'
  <2>t. Tool(l) \in Tools
    BY ToolType
  <2>r. UNCHANGED req
    BY <1>2 DEF CallStep, CacheGet, CacheGetFails, Gate, McpReturns, McpFails,
                CacheSet, CacheSetFails, Cancel
  <2>1. CASE Gate(l)
    <3>1. CASE Allowed(Tool(l))
      BY <2>1, <2>t, <2>r, <3>1 DEF Gate, Admitted, Goto, Tool
    <3>2. CASE ~Allowed(Tool(l))
      <4>1. Tool(l) \in Flaky
        BY <2>t, <3>2 DEF Allowed
      <4> QED BY <2>1, <2>r, <3>2, <4>1 DEF Gate, Return, breakers, Tool
    <3> QED BY <3>1, <3>2
  <2>2. CASE McpReturns(l)
    BY <2>2, <2>t, <2>r DEF McpReturns, RecordSuccess, Goto, Return, Tool
  <2>3. CASE McpFails(l)
    <3>1. Tool(l) \in Flaky
      BY <2>3 DEF McpFails
    <3>2. \A t \in Tools \ Flaky : state'[t] = state[t]
      BY <2>3, <3>1 DEF McpFails, RecordFailure, ProbeFailed, FailureCounted, Open
    <3> QED BY <2>3, <2>r, <3>2 DEF McpFails, Return, Tool
  <2>4. CASE CacheGet(l) \/ CacheGetFails(l) \/ CacheSet(l) \/ CacheSetFails(l) \/ Cancel(l)
    BY <2>4, <2>r
    DEF CacheGet, CacheGetFails, CacheSet, CacheSetFails, Cancel, Goto, Return,
        Tool, breakers
  <2> QED BY <1>2, <2>1, <2>2, <2>3, <2>4 DEF CallStep
<1>3. CASE Tick
  BY <1>3 DEF Tick, calls, Tool
<1>4. CASE Restart
  BY <1>4 DEF Restart
<1>5. ASSUME NEW q \in Requests, CacheExpires(q) PROVE HealthyClosed'
  BY <1>5 DEF CacheExpires, calls, breakers, Tool
<1>6. CASE UNCHANGED vars
  BY <1>6 DEF vars, calls, breakers, Tool
<1> QED BY <1>1, <1>2, <1>3, <1>4, <1>5, <1>6 DEF Next

(* A call is refused only for a tool that itself can fail.                 *)
THEOREM Isolated == Spec => []HealthyToolNeverRefused
<1>1. Init => HealthyClosed
  BY DEF Init, HealthyClosed, HealthyToolNeverRefused
<1>2. HealthyClosed => HealthyToolNeverRefused
  BY DEF HealthyClosed
<1> QED BY <1>1, <1>2, HealthyStep, TypeCorrect, PTL DEF Spec

-----------------------------------------------------------------------------
(* What the breaker remembers of its tool is what has been seen of it: its *)
(* count is the streak of failures, and an open breaker is as old as the   *)
(* last of them.                                                           *)
Remembers ==
    \A t \in Tools :
        /\ failures[t] = streak[t]
        /\ state[t] = "open" => age[t] = since[t]
        /\ state[t] = "half_open" => since[t] >= Recovery

LEMMA RemembersStep ==
    ASSUME TypeOK, BreakerConsistent, Remembers, [Next]_vars
    PROVE  Remembers'
<1> USE ExecutorAssumption
<1>1. CASE UNCHANGED <<breakers, history>>
  BY <1>1 DEF breakers, history, Remembers
<1>2. ASSUME NEW l \in Loops, CallStep(l) PROVE Remembers'
  <2> DEFINE t == Tool(l)
  <2>t. t \in Tools
    BY ToolType
  <2>1. CASE Gate(l)
    <3>1. CASE Allowed(t)
      BY <2>1, <2>t, <3>1
      DEF Gate, Admitted, Allowed, history, Remembers, TypeOK, BreakerStates
    <3>2. CASE ~Allowed(t)
      BY <2>1, <3>2, <1>1 DEF Gate
    <3> QED BY <3>1, <3>2
  <2>2. CASE McpReturns(l)
    BY <2>2, <2>t DEF McpReturns, RecordSuccess, Remembers, TypeOK
  <2>3. CASE McpFails(l)
    <3> DEFINE n == Counted(failures[t])
    <3>1. /\ streak' = [streak EXCEPT ![t] = n]
          /\ since' = [since EXCEPT ![t] = 0]
      BY <2>3, <2>t DEF McpFails, Remembers, Counted
    <3>2. CASE ProbeFailed(t)
      <4>1. n = failures[t]
        BY <2>t, <3>2 DEF ProbeFailed, BreakerConsistent, Counted, TypeOK
      <4> HIDE DEF n, t
      <4> QED BY <2>t, <3>1, <3>2, <4>1 DEF ProbeFailed, Open, Remembers, TypeOK
    <3>3. CASE FailureCounted(t)
      <4>1. failures' = [failures EXCEPT ![t] = n] /\ state[t] # "half_open"
        BY <3>3 DEF FailureCounted
      <4>2. CASE n >= Threshold
        <5>1. Open(t)
          BY <3>3, <4>2 DEF FailureCounted
        <5> HIDE DEF n, t
        <5> QED BY <2>t, <3>1, <4>1, <5>1 DEF Open, Remembers, TypeOK
      <4>3. CASE ~(n >= Threshold)
        <5>1. UNCHANGED <<state, age, gauge>> /\ failures[t] < Threshold
          BY <2>t, <3>3, <4>3 DEF FailureCounted, Counted, TypeOK
        <5>2. state[t] = "closed"
          BY <2>t, <5>1 DEF BreakerConsistent
        <5> HIDE DEF n, t
        <5> QED BY <2>t, <3>1, <4>1, <5>1, <5>2 DEF Remembers, TypeOK
      <4> QED BY <4>2, <4>3
    <3> QED BY <2>3, <3>2, <3>3 DEF McpFails, RecordFailure
  <2>4. CASE CacheGet(l) \/ CacheGetFails(l) \/ CacheSet(l) \/ CacheSetFails(l) \/ Cancel(l)
    BY <2>4, <1>1 DEF CacheGet, CacheGetFails, CacheSet, CacheSetFails, Cancel
  <2> QED BY <1>2, <2>1, <2>2, <2>3, <2>4 DEF CallStep
<1>3. CASE Tick
  BY <1>3 DEF Tick, Later, Remembers, TypeOK
<1>4. CASE Restart
  BY <1>4 DEF Restart, Zero, Remembers
<1>5. ASSUME NEW l \in Loops, Begin(l) PROVE Remembers'
  BY <1>5, <1>1 DEF Begin
<1>6. ASSUME NEW q \in Requests, CacheExpires(q) PROVE Remembers'
  BY <1>6, <1>1 DEF CacheExpires
<1>7. CASE UNCHANGED vars
  BY <1>7, <1>1 DEF vars
<1> QED BY <1>2, <1>3, <1>4, <1>5, <1>6, <1>7 DEF Next

LEMMA AllowedUnlessTripped ==
    ASSUME TypeOK, BreakerConsistent, Remembers, NEW t \in Tools
    PROVE  Allowed(t) <=> ~Tripped(t)
BY ExecutorAssumption
DEF TypeOK, BreakerStates, BreakerConsistent, Remembers, Allowed, Tripped

\* One step of BreakerJudges.
LEMMA JudgesStep ==
    ASSUME TypeOK, BreakerConsistent, Remembers, [Next]_vars, NEW l \in Loops
    PROVE  /\ stage[l] # "mcp" /\ stage'[l] = "mcp" => ~Tripped(Tool(l))
           /\ outcome[l] # "circuit_open" /\ outcome'[l] = "circuit_open"
                  => Tripped(Tool(l))
<1> USE DEF TypeOK
<1> SUFFICES ASSUME \/ stage[l] # "mcp" /\ stage'[l] = "mcp"
                    \/ outcome[l] # "circuit_open" /\ outcome'[l] = "circuit_open"
             PROVE  /\ stage[l] # "mcp" /\ stage'[l] = "mcp" => ~Tripped(Tool(l))
                    /\ outcome[l] # "circuit_open" /\ outcome'[l] = "circuit_open"
                           => Tripped(Tool(l))
  OBVIOUS
<1>1. Gate(l)
  <2>1. ASSUME NEW k \in Loops, Begin(k) PROVE FALSE
    BY <2>1 DEF Begin
  <2>2. ASSUME NEW k \in Loops, CallStep(k), ~(k = l /\ Gate(l)) PROVE FALSE
    <3>1. CASE Gate(k)
      BY <2>2, <3>1 DEF Gate, Goto, Return
    <3>2. CASE ~Gate(k)
      BY <2>2, <3>2
      DEF CallStep, CacheGet, CacheGetFails, McpReturns, McpFails, CacheSet,
          CacheSetFails, Cancel, Goto, Return
    <3> QED BY <3>1, <3>2
  <2>3. ~Tick /\ ~(UNCHANGED vars) /\ \A q \in Requests : ~CacheExpires(q)
    BY DEF Tick, CacheExpires, calls, vars
  <2>4. ~Restart
    BY DEF Restart
  <2> QED BY <2>1, <2>2, <2>3, <2>4 DEF Next
<1>2. Tool(l) \in Tools
  BY ToolType
<1>3. CASE Allowed(Tool(l))
  BY <1>1, <1>2, <1>3, AllowedUnlessTripped DEF Gate, Goto
<1>4. CASE ~Allowed(Tool(l))
  BY <1>1, <1>2, <1>4, AllowedUnlessTripped DEF Gate, Return
<1> QED BY <1>3, <1>4

(* A call is refused exactly when the last Threshold results of its tool   *)
(* were failures and the recovery time since the last is not over.         *)
THEOREM Judges == Spec => BreakerJudges
<1>1. Init => Remembers
  BY DEF Init, Zero, LongAgo, Remembers
<1>2. TypeOK /\ BreakerConsistent /\ Remembers /\ [Next]_vars => Remembers'
  BY RemembersStep
<1>3. TypeOK /\ BreakerConsistent /\ Remembers /\ [Next]_vars
        => [\A l \in Loops :
              /\ stage[l] # "mcp" /\ stage'[l] = "mcp" => ~Tripped(Tool(l))
              /\ outcome[l] # "circuit_open" /\ outcome'[l] = "circuit_open"
                     => Tripped(Tool(l))]_vars
  BY JudgesStep
<1> QED BY <1>1, <1>2, <1>3, TypeCorrect, Consistent, PTL DEF Spec, BreakerJudges
=============================================================================
