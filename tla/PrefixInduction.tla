-------------------------- MODULE PrefixInduction --------------------------
(***************************************************************************)
(* Induction over the prefixes of a sequence, for the loops over a list    *)
(* that LLMClients and ToolRegistry state as recursive functions of the    *)
(* number of elements done.                                                *)
(*                                                                         *)
(* The facts speak of sets instead of predicates, and of a step given as a *)
(* function on a set of states: a predicate P becomes the set of the       *)
(* numbers that satisfy it.  They rest on the well-foundedness of < on     *)
(* Nat.                                                                    *)
(***************************************************************************)
EXTENDS Integers, WellFoundedInduction, TLAPS

LEMMA LeastElement ==
    ASSUME NEW S \in SUBSET Nat, S # {}
    PROVE  \E x \in S : \A y \in S : x <= y
<1> DEFINE R == {p \in Nat \X Nat : p[1] < p[2]}
<1>1. IsWellFoundedOn(R, Nat)
  BY NatLessThanWellFounded DEF OpToRel
<1> HIDE DEF R
<1>2. PICK x \in S : \A y \in S : <<y, x>> \notin R
  BY <1>1, WFMin
<1>3. ASSUME NEW y \in S PROVE x <= y
  <2>1. ~(y < x)
    <3>1. <<y, x>> \in Nat \X Nat /\ <<y, x>>[1] = y /\ <<y, x>>[2] = x
      OBVIOUS
    <3> QED BY <1>2, <3>1 DEF R
  <2> QED BY <2>1
<1> QED BY <1>3

\* A set that has 0 and, with every number below n, the next one.
LEMMA UpTo ==
    ASSUME NEW n \in Nat, NEW S, 0 \in S,
           \A i \in 0 .. n - 1 : i \in S => i + 1 \in S
    PROVE  0 .. n \subseteq S
<1> DEFINE Left == (0 .. n) \ S
<1> SUFFICES ASSUME Left # {} PROVE FALSE
  OBVIOUS
<1>0. Left \in SUBSET Nat
  OBVIOUS
<1> HIDE DEF Left
<1>1. PICK x \in Left : \A y \in Left : x <= y
  BY <1>0, LeastElement
<1>2. x \in 0 .. n /\ x \notin S
  BY <1>1 DEF Left
<1>3. x # 0 /\ x - 1 \in 0 .. n - 1 /\ (x - 1) + 1 = x
  BY <1>2
<1>4. x - 1 \notin Left
  BY <1>1, <1>2
<1> QED BY <1>2, <1>3, <1>4 DEF Left

\* A run of a loop of n steps that starts from b and stays in T: what it has
\* after each number of steps.  There is one.
IsRun(f, T, b, n, step) ==
    /\ f \in [0 .. n -> T]
    /\ f[0] = b
    /\ \A i \in 1 .. n : f[i] = step[<<f[i - 1], i>>]

LEMMA LoopRuns ==
    ASSUME NEW T, NEW b \in T, NEW n \in Nat,
           NEW step \in [T \X (1 .. n) -> T]
    PROVE  \E f : IsRun(f, T, b, n, step)
<1> DEFINE Run(f, k) ==
             /\ f \in [0 .. k -> T]
             /\ f[0] = b
             /\ \A i \in 1 .. k : f[i] = step[<<f[i - 1], i>>]
           S == {k \in 0 .. n : \E f : Run(f, k)}
<1>1. 0 \in S
  <2> DEFINE f == [i \in 0 .. 0 |-> b]
  <2>1. Run(f, 0)
    OBVIOUS
  <2> HIDE DEF Run, f
  <2> QED BY <2>1
<1>2. ASSUME NEW k \in 0 .. n - 1, k \in S PROVE k + 1 \in S
  <2>1. PICK f : Run(f, k)
    BY <1>2
  <2>2. <<f[k], k + 1>> \in T \X (1 .. n)
    BY <2>1
  <2> DEFINE next == step[<<f[k], k + 1>>]
             g == [i \in 0 .. k + 1 |-> IF i = k + 1 THEN next ELSE f[i]]
  <2>3. next \in T
    BY <2>2
  <2> HIDE DEF next
  <2>4. g \in [0 .. k + 1 -> T]
    <3>1. \A i \in 0 .. k + 1 : (IF i = k + 1 THEN next ELSE f[i]) \in T
      BY <2>1, <2>3
    <3> QED BY <3>1
  <2>5. g[0] = b
    BY <2>1
  <2>6. ASSUME NEW i \in 1 .. k + 1 PROVE g[i] = step[<<g[i - 1], i>>]
    <3>1. i - 1 \in 0 .. k + 1 /\ i - 1 # k + 1 /\ g[i - 1] = f[i - 1]
      OBVIOUS
    <3>2. CASE i = k + 1
      BY <3>1, <3>2 DEF next
    <3>3. CASE i # k + 1
      <4>1. i \in 1 .. k /\ g[i] = f[i]
        BY <3>3
      <4> QED BY <2>1, <3>1, <4>1
    <3> QED BY <3>2, <3>3
  <2>7. Run(g, k + 1)
    BY <2>4, <2>5, <2>6
  <2> HIDE DEF Run, g
  <2> QED BY <2>7
<1> HIDE DEF S
<1>3. 0 .. n \subseteq S
  BY <1>1, <1>2, UpTo
<1>4. n \in S
  BY <1>3
<1> QED BY <1>4 DEF S, IsRun
=============================================================================
