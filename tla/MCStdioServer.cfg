SPECIFICATION FairSpec
CONSTANTS
    Projects = {p1, p2}
    Capacity = 1
    Kinds = {"tool", "notification", "bad", "oversized", "blank", "cancel"}
    Pieces = {"whole", "halves"}
    Faults = {"panic", "io"}
    MaxFrames = 3
    None = None
INVARIANTS
    AnswersInOrder
    NoOrphanActivation
    RequestsKept
PROPERTIES
    CancelledStaysSilent
    RequestsSettle
    ServerEnds
