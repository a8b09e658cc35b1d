CONSTANTS
    x = x
    y = y
    s1 = s1
    Calls = {x, y}
    Sessions = {s1}
    SessionOf <- MCSessionOf
    CallLimit = 1
    NoRow = NoRow
SPECIFICATION FairSpec
INVARIANTS TypeOK RowsTellTheTruth OnlyAdmittedRun RefusalsAreFree
PROPERTY LoggedUnlessCancelled
CHECK_DEADLOCK FALSE
