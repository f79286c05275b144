SPECIFICATION Spec
CONSTANTS
    u1 = u1  u2 = u2  r1 = r1  r2 = r2  n1 = n1
    Users = {u1, u2}
    NoEmail = NoEmail  Infos = {NoEmail, "mail"}
    Roles = {"USER", "MGMT_ADMIN"}  Default = "USER"
    Requests = {r1, r2}
    Ops = {"login", "sparky", "create", "update", "delete", "settings", "course", "crash",
           "group", "assignment", "subscribe", "unsubscribe"}
    Refusals = {{}, {"USER_JOINED_GROUP"}, {"ASSIGNMENT_STATE_CHANGED"}}
    Names = {n1}
    MaxRequests = 3
    MaxId = 5
    MaxEvents = 1
CHECK_DEADLOCK FALSE
SYMMETRY Symmetry
INVARIANTS DeliveryTypeOK CachedUserIsStored
PROPERTIES RoleSurvivesLogin 
