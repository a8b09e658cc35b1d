CONSTANTS
    x = x
    y = y
    s1 = s1
    Calls = {x, y}
    Sessions = {s1}
    SessionOf <- MCSessionOf
    CallLimit = 1
    NoRow = NoRow
SPECIFICATION Spec
INVARIANT NoCallUnlogged
CHECK_DEADLOCK FALSE
