SPECIFICATION MCSpec
CONSTANTS
    Symbols = {A, B}
    Source = "db"
    Live = FALSE
    BufferCap = 1
    PageSize = 1
    MaxEvents = 2
    MaxCrashes = 2
    MaxCheckpoints = 2
    MaxPurged = 0
INVARIANTS   DerivedExact
PROPERTIES ServiceRecovers
CHECK_DEADLOCK FALSE
