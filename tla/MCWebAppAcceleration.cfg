\* Bounded users leave the system idle in the end: stopping is no error.
SPECIFICATION Spec
CONSTANTS
    OCIDs <- TwoResources
    WorkRequestIDs <- TwoWorkRequests
    Untracked <- UntrackedMoves
    Edits <- MoveUpdateOrDrift
    MaxTroubles = 1
    MaxUid = 1
    MaxGen = 2
    MaxLag = 1
    MaxCrashes = 1
INVARIANTS
    TypeOK
    NoDuplicate
PROPERTIES
    ActiveMeansApplied
    ConfirmedMeansGone
    ImplementsReconciler
CHECK_DEADLOCK FALSE
