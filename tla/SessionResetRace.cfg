SPECIFICATION Spec
CONSTANTS
    Users = {u1}
    Hashes = {h1}
    Procs = {p1, p2}
    MaxSessions = 1
    Ops = {"login", "reset"}
    Env = {}
    None = None
    Anonymous = Anonymous
INVARIANT EndedResolvesToNobody
