SPECIFICATION Spec
CONSTANTS
    u1 = u1  u2 = u2  u3 = u3
    g1 = g1  g2 = g2  a1 = a1
    r1 = r1  r2 = r2
    NoGroup = NoGroup
    Users = {u1, u2}
    GroupIds = {g1, g2}
    Assignments = {a1}
    Requests = {r1, r2}
    Ops = {"start", "all", "group", "member", "unUser", "unGroup", "unAll"}
    Merging = TRUE
    MaxPid = 2
    MaxRequests = 3
CHECK_DEADLOCK FALSE
SYMMETRY Symmetry
INVARIANTS TypeOK RegisteredOnce RegistrationsReferToLiveRows
PROPERTIES NoSilentSwitch RegisteredEventsAreTrue
