SPECIFICATION FairSpec
CONSTANTS
    Handlers = {h1, h2}
    Ops = {"query", "lease", "ensure", "cancel", "incompatible"}
    Capacity = 1
    Faults = {"probe", "accept"}
INVARIANTS
    LiveWorkRegistered
    LeaseAlwaysVisible
    ClosedMeansIdle
    PermitAccounting
PROPERTIES
    UsesService
    IdleServerExits
    ConnectionEnds
