SPECIFICATION Spec
CONSTANTS
    u1 = u1  u2 = u2  u3 = u3
    g1 = g1  g2 = g2  g3 = g3
    r1 = r1  r2 = r2
    NoGroup = NoGroup
    Users = {u1, u2}
    Staff = {u2}
    GroupIds = {g1, g2}
    Requests = {r1, r2}
    Ops = {"join", "create", "random", "bulk", "leave", "delete", "update", "quit"}
    SizeMin = 2
    SizeMax = 2
    AllowGroups = TRUE
    Selfmanaged = TRUE
    MaxPid = 3
    MaxRequests = 3
CHECK_DEADLOCK FALSE
SYMMETRY GroupAndSlotSymmetry
INVARIANTS TypeOK OneGroupPerParticipant RelationsReferToLiveRows IndInv
PROPERTY ImplementsMembership
