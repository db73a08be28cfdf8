CONSTANTS
    Conns = {c1, c2}
    Reqs = {r1, r2}
    CfgMaxConns = 2
    RetryTimeout = TRUE
    MaxFaults = 2
    NoConn = NoConn
    NoReq = NoReq
SPECIFICATION Spec
SYMMETRY ReqSymmetry
INVARIANTS
    TypeOK
    ListsConsistent
    RequestInOnePlace
    NobodyForgotten
    AssignsAtRest
