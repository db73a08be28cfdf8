\* A second client adds a job while the owner starts, tunes and stops the crew,
\* and threads may fail to start.
SPECIFICATION Spec
CONSTANTS
    Clients = {c1, c2}
    Owner = c1
    Workers = {w1, w2, w3}
    Jobs = {j1}
    NULL = NULL
    MinIdle = 1
    MaxIdle = 1
    MaxWorkers = 1
    HasFinishedQueue = TRUE
    IdleChoices <- SomeIdleChoices
    MaxChoices = {2}
    CreateMayFail = TRUE
    DeleteRunning = FALSE
SYMMETRY Symmetry
INVARIANTS
    JobsInOnePlace
    SlotOwnership
    CountersExact
    CrewInv
    SizeBounded
PROPERTIES
    ImplementsJobPool
