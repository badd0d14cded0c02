SPECIFICATION Spec
CONSTANTS
    t1 = t1
    t2 = t2
    s1 = s1
    s2 = s2
    cookie1 = cookie1
    None = None
    Tabs <- TwoTabs
    Sockets <- TwoSockets
    Sessions <- OneSession
    SessionOf <- SharedSession
    MaxResults = 1
    Lossy = FALSE
INVARIANT
    ExecutionsIndependent
CHECK_DEADLOCK FALSE
