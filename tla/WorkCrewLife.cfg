\* One client thread that starts, feeds, stops and deletes a crew of two.
SPECIFICATION FairSpec
CONSTANTS
    Clients = {c1}
    Owner = c1
    Workers = {w1, w2}
    Jobs = {j1, j2}
    NULL = NULL
    MinIdle = 1
    MaxIdle = 1
    MaxWorkers = 2
    HasFinishedQueue = TRUE
    IdleChoices <- NoIdleChoices
    MaxChoices = {}
    CreateMayFail = FALSE
    DeleteRunning = FALSE
INVARIANTS
    TypeOK
    StoppedIsQuiet
    StoppedAllDead
    SomeoneWorks
PROPERTIES
    JobsGetProcessed
    StopReturns
    DestructorReturns
