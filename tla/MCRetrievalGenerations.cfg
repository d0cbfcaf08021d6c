SPECIFICATION Spec
CONSTANTS
    s1 = s1  s2 = s2  w1 = w1  w2 = w2  b1 = b1  b2 = b2  c1 = c1  r1 = r1
    Storages = {s1, s2}
    Workspaces = {w1, w2}
    Workspace <- TwoClones
    at <- Homes
    CacheRoot = {s1, s2}
    Sources = {"a", "b"}
    MaxCore = 2
    MaxEdits = 1
    MaxStarts = 3
    Builders = {b1, b2}
    Cleaners = {c1}
    Readers = {r1}
INVARIANTS NoCircularWait PinnedIntact RetentionSafe
PROPERTY CommitMatchesCore
CHECK_DEADLOCK FALSE
