SPECIFICATION FairSpec
CONSTANTS
    Users = {u1}
    Hashes = {h1, h2}
    Procs = {p1, p2}
    MaxSessions = 0
    Ops = {"login", "resolve", "reset"}
    Env = {"outage", "crash", "commitfail"}
    None = None
    Anonymous = Anonymous
INVARIANTS
    TypeOK
    PurgedStaysPurged
PROPERTIES
    ImplementsLifecycle
    RequestsEnd
