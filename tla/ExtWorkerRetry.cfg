CONSTANTS
    Conns = {c1}
    Reqs = {r1, r2}
    CfgMaxConns = 1
    RetryTimeout = TRUE
    MaxFaults = 1
    NoConn = NoConn
    NoReq = NoReq
SPECIFICATION FairSpec
PROPERTY Answered
