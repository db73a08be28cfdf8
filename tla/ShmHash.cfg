CONSTANTS
    Procs = {11, 12, 13}
    Keys = {0, 2, 3}
    Elems = {1, 2}
    Capacities <- MCCapacities
    FullFactor = 2
    SizeBits = 3
    MaxCrashes = 1
SPECIFICATION Spec
CHECK_DEADLOCK FALSE
INVARIANTS
    TypeOK
    MutualExclusion
    Intact
    LookupWorks
    SizeDrift
PROPERTY
    LockNotStuck
