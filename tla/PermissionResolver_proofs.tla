---------------------- MODULE PermissionResolver_proofs ----------------------
(***************************************************************************)
(* Human approval, for any calls, policy and /hitl requests, and any times *)
(* with the webhook no slower than the grace period where it matters:      *)
(*   OnlyByApproval  a tool that needs approval runs only when approved    *)
(*   Covered         the pending key outlives the polling                  *)
(*   Counts          an approval written early enough is not lost          *)
(***************************************************************************)
EXTENDS PermissionResolver, TLAPS

LEMMA DecisionType ==
    ASSUME TypeOK, NEW d \in Deciders, decider[d] # Idle
    PROVE  decider[d][1] \in Calls /\ decider[d][2] \in Decisions
BY DEF TypeOK, Idle

LEMMA LessType ==
    /\ \A n \in Nat : Less(n) \in Nat
    /\ \A m \in Nat : \A n \in 0 .. m : Less(n) \in 0 .. m
BY DEF Less

(* The variables keep their types.                                         *)
THEOREM TypeCorrect == Spec => []TypeOK
<1> USE PermissionAssumption
<1>1. Init => TypeOK
  BY DEF Init, TypeOK
<1>2. TypeOK /\ [Next]_vars => TypeOK'
  <2> SUFFICES ASSUME TypeOK, [Next]_vars PROVE TypeOK'
    OBVIOUS
  <2> USE DEF TypeOK, redis, clock, history, Waiting, Polling, Final, Goto
  <2>1. ASSUME NEW c \in Calls, CallStep(c) PROVE TypeOK'
    <3>1. CASE Lookup(c)            BY <3>1 DEF Lookup
    <3>2. CASE RequestApproval(c)   BY <3>2 DEF RequestApproval, KeyLife
    <3>3. CASE Notified(c)          BY <3>3 DEF Notified, LoopHead
    <3>4. CASE Poll(c)
      <4>1. Verdict(key[c]) \in {"granted", "denied", "sleeping"}
        BY DEF Verdict
      <4>2. PICK lag \in 0 .. ReplyLag : nap' = [nap EXCEPT ![c] = lag + 1]
        BY <3>4 DEF Poll
      <4> QED BY <3>4, <4>1, <4>2 DEF Poll
    <3>5. CASE Wake(c)              BY <3>5 DEF Wake, LoopHead
    <3>6. CASE Abort(c)             BY <3>6 DEF Abort
    <3> QED
      BY <2>1, <3>1, <3>2, <3>3, <3>4, <3>5, <3>6 DEF CallStep
  <2>2. ASSUME NEW d \in Deciders, DeciderStep(d) PROVE TypeOK'
    <3>1. CASE DecideExists(d)
      <4>1. PICK c \in Calls, v \in Decisions :
                decider' = [decider EXCEPT ![d] = <<c, v>>]
        BY <3>1 DEF DecideExists
      <4> QED BY <3>1, <4>1 DEF DecideExists
    <3>2. CASE DecideSet(d)
      <4> DEFINE c == decider[d][1]
                 v == decider[d][2]
      <4>1. c \in Calls /\ v \in Decisions
        BY <3>2, DecisionType DEF DecideSet
      <4>2. key' \in [Calls -> {"absent", "pending"} \cup Decisions]
        BY <3>2, <4>1 DEF DecideSet
      <4>3. ttl' \in [Calls -> Nat] /\ headroom' \in [Calls -> 0 .. Timeout]
        BY <3>2, <4>1 DEF DecideSet
      <4>4. immortal' \subseteq Calls /\ approvals' \subseteq Calls
        BY <3>2, <4>1 DEF DecideSet
      <4>5. decider' \in [Deciders -> {Idle} \cup (Calls \X Decisions)]
        BY <3>2 DEF DecideSet
      <4> QED BY <3>2, <4>2, <4>3, <4>4, <4>5 DEF DecideSet
    <3>3. CASE DecideFails(d)       BY <3>3 DEF DecideFails
    <3> QED BY <2>2, <3>1, <3>2, <3>3 DEF DeciderStep
  <2>3. CASE Tick
    <3>1. ttl' \in [Calls -> Nat]
      BY <2>3, LessType DEF Tick
    <3>2. left' \in [Calls -> 0 .. Timeout]
      BY <2>3, LessType DEF Tick
    <3>3. nap' \in [Calls -> 0 .. ReplyLag + 1]
      BY <2>3, LessType DEF Tick
    <3>4. waited' \in [Calls -> 0 .. MaxWebhook]
      BY <2>3 DEF Tick, Due
    <3>5. key' \in [Calls -> {"absent", "pending"} \cup Decisions]
      BY <2>3 DEF Tick
    <3> QED BY <2>3, <3>1, <3>2, <3>3, <3>4, <3>5 DEF Tick
  <2>4. CASE UNCHANGED vars         BY <2>4 DEF vars
  <2> QED BY <2>1, <2>2, <2>3, <2>4 DEF Next
<1> QED BY <1>1, <1>2, PTL DEF Spec

-----------------------------------------------------------------------------
\* What a granted call rests on: the key holds an approval only if a human
\* has written one.
ApprovalsRecorded ==
    /\ GrantedOnlyIfApproved
    /\ \A c \in Calls : key[c] = "approved" => c \in approvals

LEMMA ApprovalsStep ==
    ASSUME TypeOK, ApprovalsRecorded, [Next]_vars
    PROVE  ApprovalsRecorded'
<1> USE DEF ApprovalsRecorded, GrantedOnlyIfApproved, TypeOK,
            redis, clock, history, Goto, Level
<1>1. ASSUME NEW c \in Calls, CallStep(c) PROVE ApprovalsRecorded'
  <2>1. CASE Lookup(c)            BY <2>1 DEF Lookup, Level
  <2>2. CASE RequestApproval(c)   BY <2>2 DEF RequestApproval
  <2>3. CASE Notified(c)          BY <2>3 DEF Notified, LoopHead
  <2>4. CASE Poll(c)              BY <2>4 DEF Poll, Verdict
  <2>5. CASE Wake(c)              BY <2>5 DEF Wake, LoopHead
  <2>6. CASE Abort(c)             BY <2>6 DEF Abort
  <2> QED BY <1>1, <2>1, <2>2, <2>3, <2>4, <2>5, <2>6 DEF CallStep
<1>2. ASSUME NEW d \in Deciders, DeciderStep(d) PROVE ApprovalsRecorded'
  <2>1. CASE DecideExists(d)      BY <2>1 DEF DecideExists
  <2>2. CASE DecideSet(d)
    <3>1. decider[d][1] \in Calls /\ decider[d][2] \in Decisions
      BY <2>2, DecisionType DEF DecideSet
    <3> QED BY <2>2, <3>1 DEF DecideSet
  <2>3. CASE DecideFails(d)       BY <2>3 DEF DecideFails
  <2> QED BY <1>2, <2>1, <2>2, <2>3 DEF DeciderStep
<1>3. CASE Tick                   BY <1>3 DEF Tick
<1>4. CASE UNCHANGED vars         BY <1>4 DEF vars
<1> QED BY <1>1, <1>2, <1>3, <1>4 DEF Next

(* A tool whose risk level needs approval is executed only after a human   *)
(* has approved that very call.                                            *)
THEOREM OnlyByApproval == Spec => []GrantedOnlyIfApproved
<1>1. Init => ApprovalsRecorded
  BY DEF Init, ApprovalsRecorded, GrantedOnlyIfApproved
<1>2. ApprovalsRecorded => GrantedOnlyIfApproved
  BY DEF ApprovalsRecorded
<1> QED BY <1>1, <1>2, ApprovalsStep, TypeCorrect, PTL DEF Spec

-----------------------------------------------------------------------------
\* A key without a decision has as much time left as its call may still use.
Outlives(c) ==
    /\ stage[c] = "start" => waited[c] = 0
    /\ stage[c] = "notifying" =>
          /\ key[c] # "absent"
          /\ c \notin immortal => ttl[c] + waited[c] >= Timeout + Grace
    /\ stage[c] \in Polling /\ left[c] > 0 =>
          /\ key[c] # "absent"
          /\ c \notin immortal => ttl[c] >= left[c]

LEMMA OutlivesStep ==
    ASSUME MaxWebhook <= Grace, TypeOK, \A c \in Calls : Outlives(c), [Next]_vars
    PROVE  \A c \in Calls : Outlives(c)'
<1> SUFFICES ASSUME NEW c \in Calls PROVE Outlives(c)'
  OBVIOUS
<1>o. Outlives(c)
  OBVIOUS
<1> USE <1>o, PermissionAssumption
    DEF Outlives, TypeOK, Polling, redis, clock, history, Goto
<1>1. ASSUME NEW b \in Calls, CallStep(b) PROVE Outlives(c)'
  <2>1. CASE Lookup(b)            BY <2>1 DEF Lookup
  <2>2. CASE RequestApproval(b)   BY <2>2 DEF RequestApproval, KeyLife
  <2>3. CASE Notified(b)          BY <2>3 DEF Notified, LoopHead
  <2>4. CASE Poll(b)              BY <2>4 DEF Poll, Verdict
  <2>5. CASE Wake(b)              BY <2>5 DEF Wake, LoopHead
  <2>6. CASE Abort(b)             BY <2>6 DEF Abort
  <2> QED BY <1>1, <2>1, <2>2, <2>3, <2>4, <2>5, <2>6 DEF CallStep
<1>2. ASSUME NEW d \in Deciders, DeciderStep(d) PROVE Outlives(c)'
  <2>1. CASE DecideExists(d)      BY <2>1 DEF DecideExists
  <2>2. CASE DecideSet(d)
    <3> DEFINE b == decider[d][1]
               v == decider[d][2]
    <3>1. b \in Calls /\ v \in Decisions
      BY <2>2, DecisionType DEF DecideSet
    <3>2. key' = [key EXCEPT ![b] = v] /\ ttl' = [ttl EXCEPT ![b] = 0]
      BY <2>2 DEF DecideSet
    <3>3. immortal' = immortal \cup {b} /\ UNCHANGED <<stage, waited, left>>
      BY <2>2 DEF DecideSet
    <3> HIDE DEF b, v
    <3>4. CASE c = b              BY <3>1, <3>2, <3>3, <3>4 DEF Decisions
    <3>5. CASE c # b              BY <3>1, <3>2, <3>3, <3>5
    <3> QED BY <3>4, <3>5
  <2>3. CASE DecideFails(d)       BY <2>3 DEF DecideFails
  <2> QED BY <1>2, <2>1, <2>2, <2>3 DEF DeciderStep
<1>3. CASE Tick
  <2>1. /\ ttl'[c] = Less(ttl[c])
        /\ key'[c] = IF Lapses(c) THEN "absent" ELSE key[c]
        /\ stage'[c] = stage[c] /\ immortal' = immortal
    BY <1>3 DEF Tick
  <2>l. left'[c] = IF stage[c] \in Polling THEN Less(left[c]) ELSE left[c]
    BY <1>3 DEF Tick
  <2>w. waited'[c] = IF stage[c] = "notifying" THEN waited[c] + 1 ELSE waited[c]
    BY <1>3 DEF Tick
  <2>2. CASE stage[c] = "notifying"
    <3>0. waited[c] # MaxWebhook
      BY <1>3, <2>2 DEF Tick, Due
    <3>1. waited[c] < MaxWebhook
      <4>1. waited[c] \in 0 .. MaxWebhook
        OBVIOUS
      <4> QED BY ONLY <3>0, <4>1, PermissionAssumption
    <3>2. stage'[c] = "notifying" /\ waited'[c] = waited[c] + 1
      BY <2>1, <2>w, <2>2
    <3>3. c \notin immortal => ttl[c] + waited[c] >= Timeout + Grace
      BY <2>2
    <3>4. c \notin immortal => ttl[c] > 1 /\ ttl'[c] = ttl[c] - 1
      BY <2>1, <3>1, <3>3 DEF Less
    <3>5. key'[c] # "absent"
      BY <2>1, <2>2, <3>4 DEF Lapses
    <3> QED BY <2>1, <3>2, <3>3, <3>4, <3>5
  <2>3. CASE stage[c] \in Polling
    BY <2>1, <2>l, <2>w, <2>3 DEF Less, Lapses
  <2>4. CASE stage[c] # "notifying" /\ stage[c] \notin Polling
    BY <2>1, <2>w, <2>4
  <2> QED BY <2>2, <2>3, <2>4
<1>4. CASE UNCHANGED vars         BY <1>4 DEF vars
<1> QED BY <1>1, <1>2, <1>3, <1>4 DEF Next

(* If the webhook takes no longer than the grace period, the pending key   *)
(* is there for as long as its call waits and its deadline has not passed: *)
(* the comment of permission_resolver.py:88.                               *)
THEOREM Covered == ASSUME MaxWebhook <= Grace PROVE Spec => []PollWindowCovered
<1>1. Init => \A c \in Calls : Outlives(c)
  BY DEF Init, Outlives, Polling
<1>2. (\A c \in Calls : Outlives(c)) => PollWindowCovered
  BY DEF Outlives, PollWindowCovered
<1>3. TypeOK /\ (\A c \in Calls : Outlives(c)) /\ [Next]_vars
          => (\A c \in Calls : Outlives(c))'
  BY OutlivesStep
<1> QED BY <1>1, <1>2, <1>3, TypeCorrect, PTL DEF Spec

-----------------------------------------------------------------------------
\* An early approval stays in the key, and the loop wakes before its deadline.
KeepsApproval(c) ==
    /\ stage[c] \in {"start", "notifying"} => headroom[c] = 0
    /\ headroom[c] > ReplyLag + 1 =>
          /\ stage[c] # "denied"
          /\ key[c] = "approved" /\ c \in immortal
          /\ stage[c] = "sleeping" => left[c] > nap[c]

LEMMA KeepsStep ==
    ASSUME TypeOK, \A c \in Calls : KeepsApproval(c), [Next]_vars
    PROVE  \A c \in Calls : KeepsApproval(c)'
<1> SUFFICES ASSUME NEW c \in Calls PROVE KeepsApproval(c)'
  OBVIOUS
<1>o. KeepsApproval(c)
  OBVIOUS
<1> USE <1>o, PermissionAssumption
    DEF KeepsApproval, TypeOK, Polling, redis, clock, history, Goto
<1>1. ASSUME NEW b \in Calls, CallStep(b) PROVE KeepsApproval(c)'
  <2>1. CASE Lookup(b)            BY <2>1 DEF Lookup
  <2>2. CASE RequestApproval(b)   BY <2>2 DEF RequestApproval
  <2>3. CASE Notified(b)          BY <2>3 DEF Notified, LoopHead
  <2>4. CASE Poll(b)
    <3>1. PICK lag \in 0 .. ReplyLag : nap' = [nap EXCEPT ![b] = lag + 1]
      BY <2>4 DEF Poll
    <3>2. /\ stage' = [stage EXCEPT ![b] = Verdict(key[b])]
          /\ UNCHANGED <<key, immortal, left, headroom>>
      BY <2>4 DEF Poll
    <3>3. key[b] = "approved" => Verdict(key[b]) = "granted"
      BY DEF Verdict
    <3>4. Verdict(key[b]) \notin {"start", "notifying"}
      BY DEF Verdict
    <3> QED BY <3>1, <3>2, <3>3, <3>4
  <2>5. CASE Wake(b)              BY <2>5 DEF Wake, LoopHead
  <2>6. CASE Abort(b)             BY <2>6 DEF Abort
  <2> QED BY <1>1, <2>1, <2>2, <2>3, <2>4, <2>5, <2>6 DEF CallStep
<1>2. ASSUME NEW d \in Deciders, DeciderStep(d) PROVE KeepsApproval(c)'
  <2>1. CASE DecideExists(d)      BY <2>1 DEF DecideExists
  <2>2. CASE DecideSet(d)
    <3> DEFINE b == decider[d][1]
               v == decider[d][2]
               room == IF v = "approved" /\ stage[b] \in Polling THEN left[b] ELSE 0
    <3>1. b \in Calls /\ v \in Decisions
      BY <2>2, DecisionType DEF DecideSet
    <3>2. /\ key' = [key EXCEPT ![b] = v]
          /\ headroom' = [headroom EXCEPT ![b] = room]
          /\ immortal' = immortal \cup {b}
          /\ UNCHANGED <<stage, left, nap>>
      BY <2>2 DEF DecideSet
    <3>3. room > ReplyLag + 1 =>
              /\ v = "approved"
              /\ stage[b] \in Polling
              /\ left[b] > nap[b]
      BY <3>1
    <3>4. stage[b] \in {"start", "notifying"} => room = 0
      OBVIOUS
    <3> HIDE DEF b, v, room
    <3>5. CASE c = b              BY <3>1, <3>2, <3>3, <3>4, <3>5
    <3>6. CASE c # b              BY <3>1, <3>2, <3>6
    <3> QED BY <3>5, <3>6
  <2>3. CASE DecideFails(d)       BY <2>3 DEF DecideFails
  <2> QED BY <1>2, <2>1, <2>2, <2>3 DEF DeciderStep
<1>3. CASE Tick
  <2>1. /\ key'[c] = IF Lapses(c) THEN "absent" ELSE key[c]
        /\ left'[c] = IF stage[c] \in Polling THEN Less(left[c]) ELSE left[c]
        /\ nap'[c] = Less(nap[c])
        /\ stage'[c] = stage[c]
        /\ immortal' = immortal /\ headroom' = headroom
    BY <1>3 DEF Tick
  <2>2. stage[c] = "sleeping" => nap[c] # 0
    BY <1>3 DEF Tick, Due
  <2> QED BY <2>1, <2>2 DEF Less, Lapses
<1>4. CASE UNCHANGED vars         BY <1>4 DEF vars
<1> QED BY <1>1, <1>2, <1>3, <1>4 DEF Next

(* An approval written while check() still has a poll to go before its     *)
(* deadline, and not replaced, is never answered by a denial.              *)
THEOREM Counts == Spec => []EarlyApprovalCounts
<1>1. Init => \A c \in Calls : KeepsApproval(c)
  <2> SUFFICES ASSUME Init, NEW c \in Calls PROVE KeepsApproval(c)
    OBVIOUS
  <2>1. headroom[c] = 0
    BY DEF Init
  <2>2. ~(0 > ReplyLag + 1)
    BY PermissionAssumption
  <2> QED BY <2>1, <2>2 DEF KeepsApproval
<1>2. TypeOK /\ (\A c \in Calls : KeepsApproval(c)) => EarlyApprovalCounts
  BY PermissionAssumption DEF TypeOK, KeepsApproval, EarlyApprovalCounts
<1>3. TypeOK /\ (\A c \in Calls : KeepsApproval(c)) /\ [Next]_vars
          => (\A c \in Calls : KeepsApproval(c))'
  BY KeepsStep
<1> QED BY <1>1, <1>2, <1>3, TypeCorrect, PTL DEF Spec
=============================================================================
