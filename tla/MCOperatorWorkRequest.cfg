\* Bounded users leave the system idle in the end: stopping is no error.
SPECIFICATION Spec
CONSTANTS
    OCIDs <- TwoResources
    WorkRequestIDs <- ThreeWorkRequests
    WorkRequests <- AllPhases
    IdInResponse = FALSE
    HidesNew = FALSE
    MayFail = FALSE
    WorkRequestsVanish = FALSE
    MaxFaults = 1
    MaxUid = 1
    MaxGen = 2
    MaxLag = 1
    MaxCrashes = 0
INVARIANTS
    NoOrphan
CHECK_DEADLOCK FALSE
