SPECIFICATION Spec
CONSTANTS
    Symbols = {A}
    Readers = {r1}
    MaxSeq = 2
    SegmentMax = 2
    IndexEvery = 2
    RetentionOn = FALSE
    RetentionMax = 2
    MaxStops = 1
INVARIANT AppendNeverPanics
CHECK_DEADLOCK FALSE
