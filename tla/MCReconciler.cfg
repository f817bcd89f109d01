\* Bounded users leave the system idle in the end: stopping is no error.
SPECIFICATION FairSpec
CONSTANTS
    Status <- MCStatus
    EmptyStatus = "s0"
    MergePatch <- MCMergePatch
    ZeroDuration = TRUE
    MaxUid = 2
    MaxGen = 2
    MaxLag = 2
    MaxCrashes = 1
INVARIANTS
    TypeOK
    FinalizerRetention
    CreateOnGuardedObject
    NoLostWakeup
PROPERTIES
    DeletionCompletes
    GenerationReachesManager
CHECK_DEADLOCK FALSE
