SPECIFICATION Spec
CONSTANTS
    s1 = s1  s2 = s2  w1 = w1  w2 = w2  b1 = b1  b2 = b2  c1 = c1  r1 = r1
    Storages = {s1, s2}
    Workspaces = {w1, w2}
    Workspace <- TwoClones
    at <- Homes
    CacheRoot = {s1, s2}
    Sources = {"a"}
    MaxCore = 2
    MaxEdits = 0
    MaxStarts = 3
    Builders = {b1, b2}
    Cleaners = {}
    Readers = {r1}
INVARIANT SessionCoherent
CHECK_DEADLOCK FALSE
