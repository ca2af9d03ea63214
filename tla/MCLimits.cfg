\* Two transfers, either of which the limit lets through; all that can happen.
SPECIFICATION Spec
CONSTANTS
    r1 = r1  r2 = r2
    Requests = {r1, r2}
    Amount <- TooMuch
    DailyLimit = 2
    LastDay = 2
    Workloads <- AllFaults
INVARIANTS
    LimitHolds
CHECK_DEADLOCK FALSE
