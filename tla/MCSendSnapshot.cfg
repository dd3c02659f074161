SPECIFICATION Spec
CONSTANTS
    Capacity = 3
    SnapshotSize = 3
INVARIANTS
    SyncedIsComplete
CHECK_DEADLOCK FALSE
