SPECIFICATION MCSpec
CONSTANTS
    Symbols = {A}
    Readers = {r1}
    MaxSeq = 5
    SegmentMax = 2
    IndexEvery = 2
    RetentionOn = FALSE
    RetentionMax = 2
    MaxStops = 1
INVARIANTS   EventLogSafe RecorderSafe
PROPERTIES LogIsDurable LogsSettle
CHECK_DEADLOCK FALSE
