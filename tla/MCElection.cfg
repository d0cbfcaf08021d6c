SPECIFICATION FairSpec
CONSTANTS
    Callers = {c1}
    Observers = {o1}
    Servers = {s1, s2}
    None = None
    Operations = {"pure", "lease"}
    Disturbances = {"crash", "exit", "deadline", "spawn"}
INVARIANTS
    ServingIsReachable
    ReplaysBounded
PROPERTIES
    CallsEnd
    ElectionRecovers
