CONSTANTS
    r1 = r1
    r2 = r2
    r3 = r3
    None = None
    Records = {r1, r2, r3}
    Poison = {r3}
    MaxRetry = 3
    Faults = {"db", "ack", "push"}
SPECIFICATION FairSpec
INVARIANTS TypeOK NoSilentLoss RowsBounded
PROPERTIES QueueOrderKept GivenUpOnlyWhenExhausted LedgerSpec EverythingSettles
