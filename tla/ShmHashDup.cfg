CONSTANTS
    Procs = {11, 12}
    Keys = {0, 2, 3}
    Elems = {1, 2, 3}
    Capacities <- MCCapacities
    FullFactor = 2
    SizeBits = 3
    MaxCrashes = 1
SPECIFICATION Spec
CHECK_DEADLOCK FALSE
INVARIANT
    OneEntryPerKey
