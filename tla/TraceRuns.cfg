SPECIFICATION Spec
CONSTANTS
    t = t
    r = r
    p = p
    name1 = name1
    name2 = name2
    Addresses = {t, r, p}
    Private = {p}
    NoAddress = NoAddress
    Hidden = Hidden
    Names = {name1, name2}
    Asked = {name1, t, p}
    Zones <- MCZones
    MaxCnames = 2
    Settings = {"unread", "off"}
    Lines <- MCLines
    PerHop = 2
    MaxHops = 2
    Fails = TRUE
INVARIANTS
    SameAsWhole
    PrivateStaysHidden
    DestinationMarked
    CutIsAdmitted
    TargetIsPublic
PROPERTY
    KeepsContract
CHECK_DEADLOCK FALSE
