SPECIFICATION Spec
CONSTANTS
    Users = {u1}
    Hashes = {h1, h2, h3, h4, h5}
    Procs = {p1, p2}
    MaxSessions = 1
    Ops = {"login"}
    Env = {"lapse"}
    None = None
    Anonymous = Anonymous
SYMMETRY Symmetry
INVARIANT OvershootBounded
PROPERTY EvictionSparesYoungest
CHECK_DEADLOCK FALSE
