\* Handshakes are offloaded; a link is recycled while jobs may still refer to it.
SPECIFICATION FairSpec
CONSTANTS
    Links = {l1}
    Jobs = {j1, j2, j3}
    NULL = NULL
    Flights = 2
    MaxConns = 3
    NumWorkers = 2
    Enabled = TRUE
CHECK_DEADLOCK FALSE
INVARIANTS
    TypeOK
    NoLostWakeup
    HandlerAfterHandshake
PROPERTIES
    HandshakeEnds
