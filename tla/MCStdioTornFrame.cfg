SPECIFICATION Spec
CONSTANTS
    Projects = {p1}
    Capacity = 1
    Kinds = {"plain"}
    Pieces = {"whole", "halves"}
    Faults = {}
    MaxFrames = 2
    None = None
INVARIANT
    FramesReadWhole
