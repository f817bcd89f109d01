\* Bounded users leave the system idle in the end: stopping is no error.
SPECIFICATION Spec
CONSTANTS
    OCIDs <- OneDatabase
    WorkRequestIDs <- ThreeWorkRequests
    Edits <- OneEdit
    MaxTroubles = 1
    MaxUid = 1
    MaxGen = 2
    MaxLag = 1
    MaxCrashes = 1
INVARIANTS
    TypeOK
    ActiveMeansPassword
    NoSecretLeftBehind
PROPERTIES
    ForeignSecretKept
    ImplementsReconciler
CHECK_DEADLOCK FALSE
