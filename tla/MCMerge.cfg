SPECIFICATION FairSpec
CONSTANTS
    N = 4
    MaxSize = 3
    MaxSetting = 5
INVARIANT MembersConserved
INVARIANT MergedGroupsFit
INVARIANT GroupsStayTogether
INVARIANT PlacedWherePossible
INVARIANT IndInv
PROPERTY Terminates
CHECK_DEADLOCK FALSE
