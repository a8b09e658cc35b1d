----------------------------- MODULE MCAgentLoop -----------------------------
(* Requests of one session, b of them a stream.  Sessions share nothing.   *)
EXTENDS AgentLoop

CONSTANTS a, b, s1

MCSessionOf == [r \in Requests |-> s1]
=============================================================================
