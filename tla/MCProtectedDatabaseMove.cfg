\* One edit of both the password and the compartment; nothing fails.
SPECIFICATION Spec
CONSTANTS
    OCIDs <- OneDatabase
    WorkRequestIDs <- ThreeWorkRequests
    Edits <- PasswordAndMove
    MaxTroubles = 0
    MaxUid = 1
    MaxGen = 2
    MaxLag = 1
    MaxCrashes = 0
INVARIANTS
    ActiveMeansPassword
CHECK_DEADLOCK FALSE
