\* The spec is edited while a work request runs.
SPECIFICATION Spec
CONSTANTS
    OCIDs <- TwoResources
    WorkRequestIDs <- ThreeWorkRequests
    WorkRequests <- AllPhases
    IdInResponse = FALSE
    HidesNew = FALSE
    MayFail = FALSE
    WorkRequestsVanish = FALSE
    MaxFaults = 0
    MaxUid = 1
    MaxGen = 2
    MaxLag = 1
    MaxCrashes = 0
INVARIANTS
    ActiveMeansApplied
CHECK_DEADLOCK FALSE
