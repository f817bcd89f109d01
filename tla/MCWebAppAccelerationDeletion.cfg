\* Bounded users leave the system idle in the end: stopping is no error.
SPECIFICATION FairSpec
CONSTANTS
    OCIDs <- TwoResources
    WorkRequestIDs <- TwoWorkRequests
    Untracked <- AllTracked
    Edits <- NoEdit
    MaxTroubles = 1
    MaxUid = 1
    MaxGen = 1
    MaxLag = 1
    MaxCrashes = 1
PROPERTIES
    DeletionCompletes
CHECK_DEADLOCK FALSE
