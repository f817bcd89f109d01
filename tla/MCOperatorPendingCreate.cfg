\* A create work request whose resource cannot be read yet.
SPECIFICATION Spec
CONSTANTS
    OCIDs <- TwoResources
    WorkRequestIDs <- TwoWorkRequests
    WorkRequests <- AllPhases
    IdInResponse = FALSE
    HidesNew = TRUE
    MayFail = FALSE
    WorkRequestsVanish = FALSE
    MaxFaults = 0
    MaxUid = 1
    MaxGen = 1
    MaxLag = 1
    MaxCrashes = 0
INVARIANTS
    NoOrphan
CHECK_DEADLOCK FALSE
