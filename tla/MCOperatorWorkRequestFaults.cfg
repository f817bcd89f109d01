\* Bounded users leave the system idle in the end: stopping is no error.
SPECIFICATION FairSpec
CONSTANTS
    OCIDs <- TwoResources
    WorkRequestIDs <- TwoWorkRequests
    WorkRequests <- AllPhases
    IdInResponse = FALSE
    HidesNew = TRUE
    MayFail = TRUE
    WorkRequestsVanish = TRUE
    MaxFaults = 0
    MaxUid = 1
    MaxGen = 1
    MaxLag = 1
    MaxCrashes = 0
INVARIANTS
    NoDuplicate
PROPERTIES
    ImplementsReconciler
    DeletionEnds
CHECK_DEADLOCK FALSE
