\* Bounded users leave the system idle in the end: stopping is no error.
SPECIFICATION Spec
CONSTANTS
    Endpoints <- TwoEndpoints
    MaxTroubles = 2
    MaxUid = 2
    MaxGen = 1
    MaxLag = 1
    MaxCrashes = 1
INVARIANTS
    TypeOK
    NoSecretLeftBehind
PROPERTIES
    GuardedMutation
    ImplementsReconciler
CHECK_DEADLOCK FALSE
