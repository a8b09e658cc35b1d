CONSTANTS
    l1 = l1
    l2 = l2
    l3 = l3
    s1 = s1
    s2 = s2
    Loops = {l1, l2, l3}
    Sessions = {s1, s2}
    SessionOf <- MCSessionOf
    CallLimit = 2
    TokenLimit = 1
    TurnTokens = {1}
    MaxTokens = 1
SPECIFICATION Spec
INVARIANTS TypeOK IncrementsReserved OvershootBounded
