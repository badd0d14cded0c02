SPECIFICATION Spec
CONSTANTS
    Users = {u1}
    Hashes = {h1, h2}
    Procs = {p1, p2}
    MaxSessions = 0
    Ops = {"login", "anonymous", "resolve", "logout", "revoke", "reset"}
    Env = {"lapse", "expire", "cleanup", "userdelete"}
    None = None
    Anonymous = Anonymous
SYMMETRY Symmetry
INVARIANTS
    CacheImpliesRow
    IndexCoversSessions
    EveryKeyExpires
CHECK_DEADLOCK FALSE
