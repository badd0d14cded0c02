SPECIFICATION Spec
CONSTANTS
    a1 = a1
    a2 = a2
    u1 = u1
    Users <- MCUsers
    Admins <- MCAdmins
    Tokens = {t1, t2}
    Requests = {r1, r2}
    Threshold = 2
    MaxFailed = 3
    MaxOps = 2
    None = None
    Gone = Gone
SYMMETRY Symmetry
PROPERTIES
    LastAdminProtected
CHECK_DEADLOCK FALSE
