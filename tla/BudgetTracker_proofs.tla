------------------------ MODULE BudgetTracker_proofs ------------------------
(***************************************************************************)
(* The overshoot of the call limit is bounded by the concurrency of the    *)
(* session, for any set of requests, any sessions and any limits.          *)
(*                                                                         *)
(* The bound on the counter alone is not inductive: a state in which the   *)
(* counter is at the bound and a loop is still "allowed" would violate it  *)
(* next.  IncrementsReserved counts those loops too.  A step that admits a *)
(* loop reads a counter below the limit, where the right-hand side leaves  *)
(* room for all loops of the session at once; an increment moves one loop  *)
(* from Admitted into the counter; every other step can only lower the     *)
(* sum.                                                                    *)
(***************************************************************************)
EXTENDS BudgetTracker, FiniteSetTheorems, TLAPS

(* Every reachable value of the four variables has its declared type.      *)
THEOREM TypeCorrect == Spec => []TypeOK
<1> USE BudgetAssumption DEF TypeOK, Keys, Metrics, Phases, Verdicts, Key
<1>1. Init => TypeOK
  BY DEF Init
<1>2. TypeOK /\ [Next]_vars => TypeOK'
  <2> SUFFICES ASSUME TypeOK, [Next]_vars PROVE TypeOK'
    OBVIOUS
  <2>1. ASSUME NEW l \in Loops, GateCall(l) PROVE TypeOK'
    <3>1. CASE ReadCalls(l)        BY <3>1 DEF ReadCalls, Goto
    <3>2. CASE ReadTokens(l)       BY <3>2 DEF ReadTokens, Goto
    <3>3. CASE CheckFails(l)       BY <3>3 DEF CheckFails, Goto
    <3>4. CASE IncrCalls(l)        BY <3>4 DEF IncrCalls, Goto
    <3>5. CASE IncrFails(l)        BY <3>5 DEF IncrFails, Goto
    <3>6. CASE ExpireCalls(l)      BY <3>6 DEF ExpireCalls, SetTTL, Goto
    <3>7. CASE ExpireCallsFails(l) BY <3>7 DEF ExpireCallsFails, Goto
    <3>8. CASE Finish(l)           BY <3>8 DEF Finish, Goto
    <3> QED BY <2>1, <3>1, <3>2, <3>3, <3>4, <3>5, <3>6, <3>7, <3>8 DEF GateCall
  <2>2. ASSUME NEW l \in Loops, SpendTokens(l) PROVE TypeOK'
    <3>1. CASE AddTokens(l)         BY <3>1 DEF AddTokens, Goto
    <3>2. CASE ExpireTokens(l)      BY <3>2 DEF ExpireTokens, SetTTL, Goto
    <3>3. CASE ExpireTokensFails(l) BY <3>3 DEF ExpireTokensFails, Goto
    <3> QED BY <2>2, <3>1, <3>2, <3>3 DEF SpendTokens
  <2>3. ASSUME NEW k \in Keys, Lapse(k) PROVE TypeOK'
    BY <2>3 DEF Lapse
  <2>4. CASE UNCHANGED vars
    BY <2>4 DEF vars
  <2> QED BY <2>1, <2>2, <2>3, <2>4 DEF Next
<1> QED BY <1>1, <1>2, PTL DEF Spec

\* A session's loops, and the admitted ones among them, are finite sets.
LEMMA AdmittedFinite ==
    ASSUME NEW s \in Sessions
    PROVE  /\ IsFiniteSet(LoopsOf(s))
           /\ Admitted(s) \subseteq LoopsOf(s)
           /\ IsFiniteSet(Admitted(s))
           /\ Cardinality(Admitted(s)) <= Cardinality(LoopsOf(s))
           /\ Cardinality(Admitted(s)) \in Nat
           /\ Cardinality(LoopsOf(s)) \in Nat
<1>1. LoopsOf(s) \subseteq Loops
  BY DEF LoopsOf
<1>2. IsFiniteSet(LoopsOf(s))
  BY <1>1, FS_Subset, BudgetAssumption
<1>3. Admitted(s) \subseteq LoopsOf(s)
  BY DEF Admitted
<1> QED BY <1>2, <1>3, FS_Subset, FS_CardinalityType

\* A step that neither adds to the counter nor admits a loop keeps the sum
\* of both within the bound.
LEMMA SumLowered ==
    ASSUME TypeOK, IncrementsReserved, NEW s \in Sessions,
           counter'[<<s, "calls">>] <= counter[<<s, "calls">>],
           counter'[<<s, "calls">>] \in Nat,
           Admitted(s)' \subseteq Admitted(s)
    PROVE  counter'[<<s, "calls">>] + Cardinality(Admitted(s)')
               <= CallLimit - 1 + Cardinality(LoopsOf(s))
<1>1. /\ IsFiniteSet(Admitted(s))
      /\ Cardinality(Admitted(s)) \in Nat
      /\ Cardinality(LoopsOf(s)) \in Nat
  BY AdmittedFinite
<1>2. /\ Cardinality(Admitted(s)') <= Cardinality(Admitted(s))
      /\ Cardinality(Admitted(s)') \in Nat
  BY <1>1, FS_Subset, FS_CardinalityType
<1>3. counter[<<s, "calls">>] \in Nat
  BY DEF TypeOK, Keys, Metrics
<1>4. counter[<<s, "calls">>] + Cardinality(Admitted(s))
          <= CallLimit - 1 + Cardinality(LoopsOf(s))
  BY DEF IncrementsReserved
<1> QED BY <1>1, <1>2, <1>3, <1>4, BudgetAssumption

\* Likewise for a step that takes an admitted loop out and adds at most one
\* to the counter: an INCR.
LEMMA ReservationUsed ==
    ASSUME TypeOK, IncrementsReserved, NEW s \in Sessions, NEW l \in Admitted(s),
           counter'[<<s, "calls">>] <= counter[<<s, "calls">>] + 1,
           counter'[<<s, "calls">>] \in Nat,
           Admitted(s)' \subseteq Admitted(s) \ {l}
    PROVE  counter'[<<s, "calls">>] + Cardinality(Admitted(s)')
               <= CallLimit - 1 + Cardinality(LoopsOf(s))
<1>1. /\ IsFiniteSet(Admitted(s))
      /\ Cardinality(Admitted(s)) \in Nat
      /\ Cardinality(LoopsOf(s)) \in Nat
  BY AdmittedFinite
<1>2. /\ IsFiniteSet(Admitted(s) \ {l})
      /\ Cardinality(Admitted(s) \ {l}) = Cardinality(Admitted(s)) - 1
  BY <1>1, FS_RemoveElement
<1>3. /\ Cardinality(Admitted(s)') <= Cardinality(Admitted(s)) - 1
      /\ Cardinality(Admitted(s)') \in Nat
  BY <1>2, FS_Subset, FS_CardinalityType
<1>4. counter[<<s, "calls">>] \in Nat
  BY DEF TypeOK, Keys, Metrics
<1>5. counter[<<s, "calls">>] + Cardinality(Admitted(s))
          <= CallLimit - 1 + Cardinality(LoopsOf(s))
  BY DEF IncrementsReserved
<1> QED BY <1>1, <1>3, <1>4, <1>5, BudgetAssumption

\* Every step keeps the reservation: ReadCalls may admit a loop, the INCRs
\* use a reservation, all others lower the sum.
LEMMA StepReserves ==
    ASSUME TypeOK, TypeOK', IncrementsReserved, [Next]_vars
    PROVE  IncrementsReserved'
<1> SUFFICES ASSUME NEW s \in Sessions
             PROVE  counter'[<<s, "calls">>] + Cardinality(Admitted(s)')
                        <= CallLimit - 1 + Cardinality(LoopsOf(s))
  BY DEF IncrementsReserved, LoopsOf
<1> DEFINE calls == <<s, "calls">>
<1>t. /\ calls \in Keys
      /\ counter[calls] \in Nat
      /\ counter'[calls] \in Nat
  BY DEF TypeOK, Keys, Metrics
<1>1. ASSUME NEW l \in Loops, ReadCalls(l)
      PROVE  counter'[calls] + Cardinality(Admitted(s)')
                 <= CallLimit - 1 + Cardinality(LoopsOf(s))
  <2>1. counter' = counter
    BY <1>1 DEF ReadCalls
  <2>2. CASE counter[calls] < CallLimit
    <3>1. Admitted(s)' \subseteq LoopsOf(s)
      BY DEF Admitted, LoopsOf
    <3>2. /\ Cardinality(Admitted(s)') <= Cardinality(LoopsOf(s))
          /\ Cardinality(Admitted(s)') \in Nat
          /\ Cardinality(LoopsOf(s)) \in Nat
      BY <3>1, AdmittedFinite, FS_Subset, FS_CardinalityType
    <3> QED BY <2>1, <2>2, <3>2, <1>t, BudgetAssumption
  <2>3. CASE ~(counter[calls] < CallLimit)
    <3>1. Admitted(s)' \subseteq Admitted(s)
      BY <1>1, <2>3 DEF ReadCalls, Goto, Admitted, LoopsOf, Key, TypeOK
    <3> QED BY <2>1, <3>1, <1>t, SumLowered
  <2> QED BY <2>2, <2>3
<1>2. ASSUME NEW l \in Loops, IncrCalls(l) \/ IncrFails(l)
      PROVE  counter'[calls] + Cardinality(Admitted(s)')
                 <= CallLimit - 1 + Cardinality(LoopsOf(s))
  <2>1. Admitted(s)' \subseteq Admitted(s) \ {l}
    BY <1>2 DEF IncrCalls, IncrFails, Goto, Admitted, LoopsOf, TypeOK
  <2>2. CASE SessionOf[l] = s
    <3>1. l \in Admitted(s)
      BY <1>2, <2>2 DEF IncrCalls, IncrFails, Admitted, LoopsOf
    <3>2. counter'[calls] <= counter[calls] + 1
      BY <1>2, <2>2, <1>t DEF IncrCalls, IncrFails, Key, TypeOK
    <3> QED BY <2>1, <3>1, <3>2, <1>t, ReservationUsed
  <2>3. CASE SessionOf[l] # s
    <3>1. counter'[calls] = counter[calls]
      BY <1>2, <2>3, <1>t DEF IncrCalls, IncrFails, Key, TypeOK
    <3> QED BY <2>1, <3>1, <1>t, SumLowered
  <2> QED BY <2>2, <2>3
<1>3. ASSUME NEW l \in Loops,
             \/ ReadTokens(l) \/ CheckFails(l) \/ ExpireCalls(l)
             \/ ExpireCallsFails(l) \/ Finish(l) \/ SpendTokens(l)
      PROVE  /\ counter'[calls] = counter[calls]
             /\ Admitted(s)' \subseteq Admitted(s)
  <2>1. CASE ReadTokens(l)
    BY <2>1, BudgetAssumption DEF ReadTokens, CallsExceeded, Goto, Admitted, LoopsOf, TypeOK
  <2>2. CASE CheckFails(l)
    BY <2>2 DEF CheckFails, Goto, Admitted, LoopsOf, TypeOK
  <2>3. CASE ExpireCalls(l)
    BY <2>3 DEF ExpireCalls, Goto, Admitted, LoopsOf, TypeOK
  <2>4. CASE ExpireCallsFails(l)
    BY <2>4 DEF ExpireCallsFails, Goto, Admitted, LoopsOf, TypeOK
  <2>5. CASE Finish(l)
    BY <2>5 DEF Finish, Goto, Admitted, LoopsOf, TypeOK, Verdicts
  <2>6. CASE AddTokens(l)
    BY <2>6, <1>t DEF AddTokens, Goto, Key, Admitted, LoopsOf, TypeOK
  <2>7. CASE ExpireTokens(l)
    BY <2>7 DEF ExpireTokens, Goto, Admitted, LoopsOf, TypeOK
  <2>8. CASE ExpireTokensFails(l)
    BY <2>8 DEF ExpireTokensFails, Goto, Admitted, LoopsOf, TypeOK
  <2> QED
    BY <1>3, <2>1, <2>2, <2>3, <2>4, <2>5, <2>6, <2>7, <2>8 DEF SpendTokens
<1>4. ASSUME NEW k \in Keys, Lapse(k)
      PROVE  /\ counter'[calls] <= counter[calls]
             /\ Admitted(s)' \subseteq Admitted(s)
  BY <1>4, <1>t DEF Lapse, Admitted, LoopsOf, TypeOK
<1>5. CASE UNCHANGED vars
  <2>1. /\ counter'[calls] = counter[calls]
        /\ Admitted(s)' \subseteq Admitted(s)
    BY <1>5 DEF vars, Admitted, LoopsOf
  <2> QED BY <2>1, <1>t, SumLowered
<1>6. CASE Next
  <2>1. ASSUME NEW l \in Loops, GateCall(l) \/ SpendTokens(l)
        PROVE  counter'[calls] + Cardinality(Admitted(s)')
                   <= CallLimit - 1 + Cardinality(LoopsOf(s))
    <3>1. CASE ReadCalls(l)                 BY <3>1, <1>1
    <3>2. CASE IncrCalls(l) \/ IncrFails(l) BY <3>2, <1>2
    <3>3. CASE ~ReadCalls(l) /\ ~IncrCalls(l) /\ ~IncrFails(l)
      BY <2>1, <3>3, <1>3, <1>t, SumLowered DEF GateCall
    <3> QED BY <3>1, <3>2, <3>3
  <2>2. ASSUME NEW k \in Keys, Lapse(k)
        PROVE  counter'[calls] + Cardinality(Admitted(s)')
                   <= CallLimit - 1 + Cardinality(LoopsOf(s))
    BY <2>2, <1>4, <1>t, SumLowered
  <2> QED BY <1>6, <2>1, <2>2 DEF Next
<1> QED BY <1>5, <1>6

(* Every admitted loop has its increment reserved.                         *)
THEOREM Reserved == Spec => []IncrementsReserved
<1>1. Init => IncrementsReserved
  <2> SUFFICES ASSUME Init, NEW s \in Sessions
               PROVE  counter[<<s, "calls">>] + Cardinality(Admitted(s))
                          <= CallLimit - 1 + Cardinality(LoopsOf(s))
    BY DEF IncrementsReserved
  <2>1. counter[<<s, "calls">>] = 0
    BY DEF Init, Keys, Metrics
  <2> QED BY <2>1, AdmittedFinite, BudgetAssumption
<1>2. TypeOK /\ TypeOK' /\ IncrementsReserved /\ [Next]_vars => IncrementsReserved'
  BY StepReserves
<1> QED BY <1>1, <1>2, TypeCorrect, PTL DEF Spec

(* The call counter of a session exceeds the limit by less than the number *)
(* of its concurrent requests.                                             *)
THEOREM Overshoot == Spec => []OvershootBounded
<1>1. TypeOK /\ IncrementsReserved => OvershootBounded
  <2> SUFFICES ASSUME TypeOK, IncrementsReserved, NEW s \in Sessions
               PROVE  counter[<<s, "calls">>] < CallLimit + Cardinality(LoopsOf(s))
    BY DEF OvershootBounded
  <2>1. counter[<<s, "calls">>] + Cardinality(Admitted(s))
            <= CallLimit - 1 + Cardinality(LoopsOf(s))
    BY DEF IncrementsReserved
  <2>2. counter[<<s, "calls">>] \in Nat
    BY DEF TypeOK, Keys, Metrics
  <2> QED BY <2>1, <2>2, AdmittedFinite, BudgetAssumption
<1> QED BY <1>1, TypeCorrect, Reserved, PTL
=============================================================================
