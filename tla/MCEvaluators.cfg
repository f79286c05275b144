SPECIFICATION Spec
CONSTANTS
    s1 = s1  t1 = t1  t2 = t2
    g1 = g1    a1 = a1  a2 = a2 
    r1 = r1  r2 = r2
    NoGroup = NoGroup
    NoTarget = NoTarget
    Keep = Keep
    Students = {s1}
    Staff = {t1, t2}
    GroupIds = {g1}
    Assignments = {a1, a2}
    Keys = {}
    Points = {0}
    FirstPhases = {"open"}
    Achievable <- AchievableOfAll
    Requests = {r1, r2}
    Ops = {"create", "update", "allocate", "copy"}
    MaxRequests = 4
    MaxAssessments = 2
    MaxPartials = 3
    MaxAllocs = 4
CHECK_DEADLOCK FALSE
SYMMETRY Symmetry
INVARIANT AllocatedOnce
PROPERTY ListsMoveTogether
