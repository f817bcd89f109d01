\* Reading a work request may give 404.
SPECIFICATION Spec
CONSTANTS
    OCIDs <- TwoResources
    WorkRequestIDs <- TwoWorkRequests
    WorkRequests <- AllPhases
    IdInResponse = FALSE
    HidesNew = FALSE
    MayFail = FALSE
    WorkRequestsVanish = TRUE
    MaxFaults = 0
    MaxUid = 1
    MaxGen = 1
    MaxLag = 1
    MaxCrashes = 0
INVARIANTS
    NoOrphan
CHECK_DEADLOCK FALSE
