---------------------------- MODULE MCPipeline ----------------------------
(* Two calls of one session; calls of different sessions share nothing.   *)
EXTENDS Pipeline

CONSTANTS x, y, s1

MCSessionOf == [c \in Calls |-> s1]
=============================================================================
