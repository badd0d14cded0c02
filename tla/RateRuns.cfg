SPECIFICATION Spec
CONSTANTS
    Requests = {r1, r2, r3}
    visitor = visitor
    member = member
    u1 = u1
    Callers = {visitor, member}
    UserOf <- UserOfCallers
    Limit <- Limits
    SoftWindow = 1
    HardWindow = 2
    AuthLimit <- AuthLimits
    MaxClock = 2
    MaxFaults = 2
    None = None
SYMMETRY Symmetry
INVARIANTS
    RefusedKeepsQuota
    WindowsHold
    PassedIsCharged
    RefusedForCause
CHECK_DEADLOCK FALSE
