\* Bounded users leave the system idle in the end: stopping is no error.
SPECIFICATION Spec
CONSTANTS
    OCIDs <- TwoResources
    WorkRequestIDs = {}
    WorkRequests = {}
    IdInResponse = TRUE
    HidesNew = FALSE
    MayFail = TRUE
    WorkRequestsVanish = FALSE
    MaxFaults = 2
    MaxUid = 1
    MaxGen = 2
    MaxLag = 1
    MaxCrashes = 1
INVARIANTS
    TypeOK
    NoOrphan
    NoDuplicate
    ActiveMeansApplied
PROPERTIES
    ImplementsReconciler
CHECK_DEADLOCK FALSE
