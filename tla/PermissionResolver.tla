------------------------- MODULE PermissionResolver -------------------------
(***************************************************************************)
(* Layer 2: policy lookup, and human approval (HITL) for the risk levels   *)
(* that require it.  check() writes a pending key to Redis, notifies a     *)
(* webhook and polls the key once a second until its deadline; the /hitl   *)
(* endpoint (hitl_decide) writes the decision into the same key with two   *)
(* separate commands.  One tick of the clock is one second.                *)
(***************************************************************************)
EXTENDS Naturals

CONSTANTS
    Calls,         \* tool calls, one trace_id each
    Deciders,      \* concurrent requests to the /hitl endpoint
    ToolOf,        \* the tool a call names
    Policy,        \* policy.yaml, tools: [allowed, level] of each tool in it
    NeedsApproval, \* policy.yaml, risk_levels with requires_approval
    Timeout,       \* approval_timeout_seconds
    Grace,         \* what the key lives longer than that: 10 s
    MaxWebhook,    \* the longest the webhook may take
    ReplyLag       \* the longest the answer to a GET may be under way

\* The members of the enum RiskLevel.
RiskLevels == {"read_only", "network", "destructive"}

ASSUME PermissionAssumption ==
    /\ Timeout \in Nat \ {0}
    /\ Grace \in Nat
    /\ MaxWebhook \in Nat
    /\ ReplyLag \in Nat

VARIABLES
    stage,     \* where check() is with each call
    key,       \* the Redis key of the call
    ttl,       \* the key's time to live
    immortal,  \* the keys that have none
    waited,    \* how long the call's webhook has taken
    left,      \* time to the deadline
    nap,       \* what is left of the answer to a poll and the sleep after it
    decider,   \* what each /hitl request is about to write
    approvals, \* calls some /hitl request has approved (history)
    headroom   \* if the call's last decision is an approval written while it
               \* was polling: the time it had left then; else 0 (history)

redis == <<key, ttl, immortal>>
clock == <<waited, left, nap>>
history == <<approvals, headroom>>
vars == <<stage, redis, clock, decider, history>>

Polling == {"reading", "sleeping"}
Waiting == {"notifying"} \cup Polling
Final == {"granted", "denied", "rejected", "error"}
Decisions == {"approved", "rejected"}
Idle == <<"idle">>

Init ==
    /\ stage = [c \in Calls |-> "start"]
    /\ key = [c \in Calls |-> "absent"]
    /\ ttl = [c \in Calls |-> 0]
    /\ immortal = {}
    /\ waited = [c \in Calls |-> 0]
    /\ left = [c \in Calls |-> 0]
    /\ nap = [c \in Calls |-> 0]
    /\ decider = [d \in Deciders |-> Idle]
    /\ approvals = {}
    /\ headroom = [c \in Calls |-> 0]

Goto(c, s) == stage' = [stage EXCEPT ![c] = s]

-----------------------------------------------------------------------------
(* check()                                                                 *)

InPolicy(c) == ToolOf[c] \in DOMAIN Policy
Level(c) == Policy[ToolOf[c]].level

\* The policy allows the tool, with a risk level the code knows.
Permitted(c) ==
    /\ InPolicy(c)
    /\ Policy[ToolOf[c]].allowed
    /\ Level(c) \in RiskLevels

Lookup(c) ==
    /\ stage[c] = "start"
    /\ \/ ~Permitted(c) /\ Goto(c, "rejected")
       \/ Permitted(c) /\ Level(c) \notin NeedsApproval /\ Goto(c, "granted")
    /\ UNCHANGED <<redis, clock, decider, history>>

\* Definitions named ...Mutant stand for a plausible bug in the code of the
\* definition that follows them; no behaviour uses them.
KeyLifeMutant == Timeout
KeyLife == Timeout + Grace

\* _hitl: SETEX the pending key, then the webhook.
RequestApproval(c) ==
    /\ stage[c] = "start"
    /\ Permitted(c) /\ Level(c) \in NeedsApproval
    /\ key' = [key EXCEPT ![c] = "pending"]
    /\ ttl' = [ttl EXCEPT ![c] = KeyLife]
    /\ Goto(c, "notifying")
    /\ UNCHANGED <<immortal, clock, decider, history>>

\* The head of the poll loop.
LoopHeadMutant(c, remaining) ==
    Goto(c, IF remaining > 1 THEN "reading" ELSE "denied")
LoopHead(c, remaining) == Goto(c, IF remaining > 0 THEN "reading" ELSE "denied")

\* The webhook has answered, failed or timed out; only now is the deadline
\* computed.
Notified(c) ==
    /\ stage[c] = "notifying"
    /\ left' = [left EXCEPT ![c] = Timeout]
    /\ waited' = [waited EXCEPT ![c] = 0]
    /\ LoopHead(c, Timeout)
    /\ UNCHANGED <<redis, nap, decider, history>>

\* What the loop makes of the answer to GET.
VerdictMutantRaw(v) == IF v \in Decisions THEN v ELSE "sleeping"
VerdictMutant(v) == IF v # "pending" THEN "granted" ELSE "sleeping"
Verdict(v) ==
    IF v = "approved" THEN "granted"
    ELSE IF v = "rejected" THEN "denied"
    ELSE "sleeping"

\* Redis answers the GET; the loop sees the answer later, and then sleeps for
\* a second.
Poll(c) ==
    /\ stage[c] = "reading"
    /\ Goto(c, Verdict(key[c]))
    /\ \E lag \in 0 .. ReplyLag : nap' = [nap EXCEPT ![c] = lag + 1]
    /\ UNCHANGED <<redis, waited, left, decider, history>>

WakeMutant(c) ==
    /\ stage[c] = "sleeping"
    /\ nap[c] = 0
    /\ left' = [left EXCEPT ![c] = Timeout]
    /\ LoopHead(c, Timeout)
    /\ UNCHANGED <<redis, waited, nap, decider, history>>
Wake(c) ==
    /\ stage[c] = "sleeping"
    /\ nap[c] = 0
    /\ LoopHead(c, left[c])
    /\ UNCHANGED <<redis, clock, decider, history>>

\* A Redis error, or the cancellation of the request, ends check() by an
\* exception.
Abort(c) ==
    /\ \/ stage[c] \in Waiting
       \/ stage[c] = "start" /\ Permitted(c) /\ Level(c) \in NeedsApproval
    /\ Goto(c, "error")
    /\ UNCHANGED <<redis, clock, decider, history>>

-----------------------------------------------------------------------------
(* hitl_decide(): EXISTS, then SET                                         *)

DecideExists(d) ==
    /\ decider[d] = Idle
    /\ \E c \in Calls, v \in Decisions :
          /\ key[c] # "absent"
          /\ decider' = [decider EXCEPT ![d] = <<c, v>>]
    /\ UNCHANGED <<stage, redis, clock, history>>

\* SET clears the time to live, and creates a key that has lapsed.
DecideSet(d) ==
    /\ decider[d] # Idle
    /\ LET c == decider[d][1]
           v == decider[d][2]
       IN  /\ key' = [key EXCEPT ![c] = v]
           /\ immortal' = immortal \cup {c}
           /\ approvals' = IF v = "approved" THEN approvals \cup {c} ELSE approvals
           /\ headroom' = [headroom EXCEPT ![c] =
                  IF v = "approved" /\ stage[c] \in Polling THEN left[c] ELSE 0]
           /\ ttl' = [ttl EXCEPT ![c] = 0]
    /\ decider' = [decider EXCEPT ![d] = Idle]
    /\ UNCHANGED <<stage, clock>>

\* Either command fails; a SET that was applied all the same is DecideSet.
DecideFails(d) ==
    /\ decider[d] # Idle
    /\ decider' = [decider EXCEPT ![d] = Idle]
    /\ UNCHANGED <<stage, redis, clock, history>>

-----------------------------------------------------------------------------
Less(n) == IF n = 0 THEN 0 ELSE n - 1

Lapses(c) == c \notin immortal /\ ttl[c] <= 1

\* A webhook that has used its time is over, and a sleeper whose nap is over
\* wakes within the second.
Due(c) ==
    \/ stage[c] = "notifying" /\ waited[c] = MaxWebhook
    \/ stage[c] = "sleeping" /\ nap[c] = 0

Tick ==
    /\ \A c \in Calls : ~Due(c)
    /\ \E c \in Calls : stage[c] \in Waiting \/ ttl[c] > 0
    /\ ttl' = [c \in Calls |-> Less(ttl[c])]
    /\ key' = [c \in Calls |-> IF Lapses(c) THEN "absent" ELSE key[c]]
    /\ left' = [c \in Calls |-> IF stage[c] \in Polling THEN Less(left[c]) ELSE left[c]]
    /\ nap' = [c \in Calls |-> Less(nap[c])]
    /\ waited' = [c \in Calls |-> IF stage[c] = "notifying" THEN waited[c] + 1 ELSE waited[c]]
    /\ UNCHANGED <<stage, immortal, decider, history>>

CallStep(c) ==
    \/ Lookup(c) \/ RequestApproval(c) \/ Notified(c)
    \/ Poll(c) \/ Wake(c) \/ Abort(c)

DeciderStep(d) == DecideExists(d) \/ DecideSet(d) \/ DecideFails(d)

Next ==
    \/ \E c \in Calls : CallStep(c)
    \/ \E d \in Deciders : DeciderStep(d)
    \/ Tick

Spec == Init /\ [][Next]_vars

\* Time passes, and the event loop runs some check() whenever one can go on:
\* the webhook and every Redis command return or fail.  Nobody has to decide.
FairSpec == Spec /\ WF_vars(Tick) /\ WF_vars(\E c \in Calls : CallStep(c))

-----------------------------------------------------------------------------
TypeOK ==
    /\ stage \in [Calls -> {"start"} \cup Waiting \cup Final]
    /\ key \in [Calls -> {"absent", "pending"} \cup Decisions]
    /\ ttl \in [Calls -> Nat]
    /\ immortal \subseteq Calls
    /\ waited \in [Calls -> 0 .. MaxWebhook]
    /\ left \in [Calls -> 0 .. Timeout]
    /\ nap \in [Calls -> 0 .. ReplyLag + 1]
    /\ decider \in [Deciders -> {Idle} \cup (Calls \X Decisions)]
    /\ approvals \subseteq Calls
    /\ headroom \in [Calls -> 0 .. Timeout]

(* A tool that needs approval runs only after a human approved this very   *)
(* call: not on a rejection, a timeout, a Redis failure or the approval of *)
(* another call.                                                           *)
GrantedOnlyIfApproved ==
    \A c \in Calls :
        stage[c] = "granted" /\ Level(c) \in NeedsApproval => c \in approvals

(* permission_resolver.py:88 "a slightly longer TTL than the poll window": *)
(* the key is there for as long as check() polls it, so the endpoint finds *)
(* every call that still waits.  It holds while the webhook takes no       *)
(* longer than the grace period.                                           *)
PollWindowCovered ==
    \A c \in Calls :
        stage[c] = "notifying" \/ (stage[c] \in Polling /\ left[c] > 0)
            => key[c] # "absent"

(* Every call is decided, by a human or by the timeout (and stays so).     *)
EveryCallDecided == <>(\A c \in Calls : stage[c] \in Final)

(* An approval counts if it is written while check() has at least one more *)
(* poll to go, unless another decision replaces it: with more time left    *)
(* than one round of the poll loop takes, the call is not denied.          *)
EarlyApprovalCounts ==
    \A c \in Calls : stage[c] = "denied" => headroom[c] <= ReplyLag + 1
=============================================================================
