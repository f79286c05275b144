SPECIFICATION FairSpec
CONSTANTS
    u1 = u1  u2 = u2  u3 = u3
    g1 = g1  g2 = g2  g3 = g3
    r1 = r1  r2 = r2
    NoGroup = NoGroup
    Users = {u1, u2}
    Staff = {}
    GroupIds = {g1}
    Requests = {r1, r2}
    Ops = {"join", "random", "create", "leave", "close"}
    SizeMin = 1
    SizeMax = 1
    AllowGroups = TRUE
    Selfmanaged = TRUE
    MaxPid = 2
    MaxRequests = 4
CHECK_DEADLOCK FALSE
INVARIANTS LedgerMatchesRelations CapacityBound
PROPERTY EmptiedGroupIsClosed
