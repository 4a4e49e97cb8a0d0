SPECIFICATION MCSpec
CONSTANTS
    Symbols = {s1}
    MsgCap = 1
    MaxReconnectAttempts = 2
    MaxDrops = 1
    MaxManual = 0
    MaxRecons = 3
    MaxDials = 4
INVARIANTS  WrapperSafe
 
CHECK_DEADLOCK FALSE
