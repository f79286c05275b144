SPECIFICATION Spec
CONSTANTS
    u1 = u1  u2 = u2
    r1 = r1  r2 = r2
    Users = {u1, u2}
    Lecturer = u1
    Password = Password  NoPassword = NoPassword
    Requests = {r1, r2}
    Ops = {"createCourse", "updateCourse", "deleteCourse", "createConfig", "updateConfig",
           "removeConfig", "createPart", "removeTemplate", "updateCriteria", "removeCriteria",
           "setPrevious", "updateSettings", "updateRole", "removeUser", "join"}
    MaxRequests = 4
    MaxId = 5
CHECK_DEADLOCK FALSE
SYMMETRY Symmetry
INVARIANTS TypeOK CanJoinTellsTheTruth
PROPERTIES NobodyEntersUnasked SettingsKeepOtherChanges
