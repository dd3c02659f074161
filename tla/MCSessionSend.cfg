SPECIFICATION FairSpec
CONSTANTS
    Capacity = 3
    SnapshotSize = 3
INVARIANTS
    TypeOK
    CloseFrameExplained
    SnapshotLossIsLogged
PROPERTIES
    EndIsSignalled
CHECK_DEADLOCK FALSE
