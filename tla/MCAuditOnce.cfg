CONSTANTS
    r1 = r1
    r2 = r2
    r3 = r3
    None = None
    Records = {r1, r2, r3}
    Poison = {r3}
    MaxRetry = 3
    Faults = {"db", "push", "pushback", "pop", "cancel", "shutdown", "crash"}
SPECIFICATION Spec
INVARIANT SingleCustody
