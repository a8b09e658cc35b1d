------------------------ MODULE MCPermissionResolver ------------------------
(* The tools of policy.yaml, and the one that its tests add to it: a tool  *)
(* of the destructive level, the only level that requires approval.        *)
EXTENDS PermissionResolver

CONSTANTS c1, c2, c3, c4, d1

MCPolicy ==
    [ postgres_query |-> [allowed |-> TRUE,  level |-> "read_only"],
      http_api_call  |-> [allowed |-> TRUE,  level |-> "network"],
      file_read      |-> [allowed |-> TRUE,  level |-> "sensitive"],
      disabled_tool  |-> [allowed |-> FALSE, level |-> "read_only"],
      risky_tool     |-> [allowed |-> TRUE,  level |-> "destructive"] ]

\* Two calls that need approval, one that does not, one that is disabled.
MCToolOf ==
    [c \in Calls |-> CASE c = c3 -> "http_api_call"
                     []   c = c4 -> "disabled_tool"
                     []   OTHER  -> "risky_tool"]
=============================================================================
