SPECIFICATION MCSpec
CONSTANTS
    Events = 5
    chunkSize = 2
    Controls = {"pause", "resume", "stop", "cancel"}
    MaxControls = 4
INVARIANTS ReplaySafe
PROPERTIES SessionsEnd
CHECK_DEADLOCK FALSE
