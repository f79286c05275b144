SPECIFICATION FairSpec
CONSTANTS
    None = None
    Assignments = {a1, a2}
    Collab = {a1}
    OldRows = {}
    NewRows <- MCNewRows
    Changes <- MCChanges
    MaxDelay = 9
    RegistrationFails = FALSE
    Calm = TRUE
    MaxTime = 3
    MaxRequests = 3
    MaxCrashes = 0
INVARIANT TypeOK
PROPERTY StartsAtItsDate
CHECK_DEADLOCK FALSE
