SPECIFICATION Spec
CONSTANTS
    Handlers = {h1, h2}
    Ops = {"query", "incompatible"}
    Capacity = 1
    Faults = {}
INVARIANTS
    ExitsOnlyWhenIdle
