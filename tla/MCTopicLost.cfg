SPECIFICATION Spec
CONSTANTS
    Threads = {w1, w2}
    IDs = {a, b}
    Leavers = {a, b}
    Topics = {t1}
    MaxCalls = 4
INVARIANT PublishReachesAll
CHECK_DEADLOCK FALSE
