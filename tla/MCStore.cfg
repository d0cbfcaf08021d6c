SPECIFICATION FairSpec
CONSTANTS
    Processes = {p1, p2, p3}
    MaxRuns = 2
    Legacy = TRUE
INVARIANTS
    LiveIsOldOrNew
    RollbackCopyKept
    NoConflict
    AcknowledgedStays
PROPERTIES
    ImplementsPublishedIndex
    OperationsEnd
