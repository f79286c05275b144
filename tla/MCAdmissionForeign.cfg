SPECIFICATION AssessmentsSpec
CONSTANTS
    s1 = s1  t1 = t1
    g1 = g1    a1 = a1  a2 = a2  k1 = k1  
    r1 = r1  r2 = r2
    NoGroup = NoGroup
    Keep = Keep
    Students = {s1}
    Staff = {t1}
    GroupIds = {g1}
    Assignments = {a1, a2}
    Keys = {k1}
    Points = {22, 23}
    FirstPhases = {"open"}
    Achievable <- AchievableOfAll
    CourseAssignments = {a1}
    TypeOf <- Types
    AssignmentPoints <- PointsOfAll
    TooLarge <- Upwards
    TooSmall <- Downwards
    Rules <- Criteria
    Previous = {}
    Requests = {r1, r2}
    Ops = {"create"}
    MaxRequests = 4
    MaxAssessments = 2
    MaxPartials = 3
CHECK_DEADLOCK FALSE
INVARIANT EveryStatusIsComputable
