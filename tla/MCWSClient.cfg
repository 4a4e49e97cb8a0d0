SPECIFICATION MCSpec
CONSTANTS
    Symbols = {A}
    FlushAll = TRUE
    AllocFollows = TRUE
    Slow = FALSE
    Heartbeat = FALSE
    ControlCap = 1
    BufferCap = 2
    MaxEvents = 3
    MaxHandles = 1
    MaxReconnects = 1
  
PROPERTIES ReconnectEnds
