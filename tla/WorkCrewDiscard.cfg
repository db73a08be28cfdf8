\* A running crew is deleted: ~WorkCrew() discards its workers.
SPECIFICATION FairSpec
CONSTANTS
    Clients = {c1}
    Owner = c1
    Workers = {w1, w2}
    Jobs = {j1}
    NULL = NULL
    MinIdle = 1
    MaxIdle = 1
    MaxWorkers = 2
    HasFinishedQueue = TRUE
    IdleChoices <- NoIdleChoices
    MaxChoices = {}
    CreateMayFail = FALSE
    DeleteRunning = TRUE
CHECK_DEADLOCK FALSE
PROPERTIES
    DestructorReturns
