CONSTANTS
    a = a
    b = b
    s1 = s1
    Requests = {a, b}
    Sessions = {s1}
    SessionOf <- MCSessionOf
    Streams = {b}
    MaxTurns = 2
    MaxCalls = 1
    Provider = "ollama"
SPECIFICATION Spec
INVARIANT ClearedStaysCleared
CHECK_DEADLOCK FALSE
