SPECIFICATION Spec
CONSTANTS
    NumStreams = 2
    RespSize = 3
    InitWindow = 5
    MaxWindow = 5
    MaxFrame = 2
    MaxDelta = 1
    InitSizes = {1, 5, 6}
    MaxEntries = 2
    MaxFrames = 4
    FlushSize = 3
    RecordSize = 4
    FullSize = 5
    Batch = 2
    MaxRoom = 2
    MaxLate = 3
INVARIANTS TypeOK WindowExact WithinWindows QueueClean NoLostWakeup
PROPERTIES Served
CHECK_DEADLOCK FALSE
