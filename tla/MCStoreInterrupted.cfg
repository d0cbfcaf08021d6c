SPECIFICATION Spec
CONSTANTS
    Processes = {p1, p2}
    MaxRuns = 1
    Legacy = FALSE
INVARIANTS
    InterruptedStaysUsable
