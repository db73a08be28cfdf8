\* The event loop and a worker use one connection.
SPECIFICATION Spec
CONSTANTS
    Links = {l1}
    Jobs = {j1}
    NULL = NULL
    Flights = 2
    MaxConns = 1
    NumWorkers = 2
    Enabled = TRUE
CHECK_DEADLOCK FALSE
INVARIANTS
    WorkerOwnsConnection
