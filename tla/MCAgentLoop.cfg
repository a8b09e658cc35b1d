CONSTANTS
    a = a
    b = b
    s1 = s1
    Requests = {a, b}
    Sessions = {s1}
    SessionOf <- MCSessionOf
    Streams = {b}
    MaxTurns = 2
    MaxCalls = 2
    Provider = "ollama"
SPECIFICATION FairSpec
INVARIANTS TypeOK ConversationsValid RequestsFaithful TokensPaid Remembered
PROPERTY EveryRequestEnds
CHECK_DEADLOCK FALSE
