SPECIFICATION FairSpec
CONSTANTS
    None = None
    Assignments = {a1}
    Collab = {a1}
    OldRows <- MCDueRows
    NewRows = {}
    Changes <- MCMoves
    MaxDelay = 9
    RegistrationFails = TRUE
    Calm = FALSE
    MaxTime = 2
    MaxRequests = 1
    MaxCrashes = 1
 
PROPERTY JobsMissNothing
CHECK_DEADLOCK FALSE
