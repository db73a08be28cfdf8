SPECIFICATION Spec
CONSTANTS
    NumStreams = 1
    RespSize = 3
    InitWindow = 2
    MaxWindow = 3
    MaxFrame = 2
    MaxDelta = 2
    InitSizes = {0}
    MaxEntries = 1
    MaxFrames = 6
    FlushSize = 2
    RecordSize = 2
    FullSize = 3
    Batch = 1
    MaxRoom = 2
    MaxLate = 1
INVARIANTS RefusedOnlyOnOverflow
CHECK_DEADLOCK FALSE
