CONSTANTS
    c1 = c1
    c2 = c2
    c3 = c3
    c4 = c4
    d1 = d1
    Calls = {c1, c2, c3, c4}
    Deciders = {d1}
    ToolOf <- MCToolOf
    Policy <- MCPolicy
    NeedsApproval = {"destructive"}
    Timeout = 2
    Grace = 1
    MaxWebhook = 1
    ReplyLag = 0
SPECIFICATION FairSpec
INVARIANTS TypeOK GrantedOnlyIfApproved PollWindowCovered EarlyApprovalCounts
PROPERTY EveryCallDecided
CHECK_DEADLOCK FALSE
