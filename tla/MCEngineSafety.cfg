SPECIFICATION Spec
CONSTANTS
    Queries = {q1, q2}
    Bulks = {b1}
    Callers = {c1}
    QueueCapacity = 2
    Batches = 2
    MaxGeneration = 2
SYMMETRY Symmetry
INVARIANTS
    Custody
    NoLostWakeup
    CancelCommitOneWinner
    LeasePinsGeneration
    LeaseAccounting
    NobodyWaitsOnStoppedWorker
