SPECIFICATION FairSpec
CONSTANTS
    Queries = {q1}
    Bulks = {b1}
    Callers = {c1}
    QueueCapacity = 1
    Batches = 2
    MaxGeneration = 2
PROPERTIES
    ImplementsService
    QueryAnswered
    BulkAnswered
    CallAnswered
