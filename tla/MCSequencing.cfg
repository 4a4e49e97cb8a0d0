SPECIFICATION MCSpec
CONSTANTS
    Instances = {"a", "b", "c"}
    blockSize = 3
    MaxKey = 9
    Resets = FALSE
    Symbols = {s1, s2}
INVARIANTS NumbersExact BusExact
PROPERTIES SequencerIsSource BusEnds
CHECK_DEADLOCK FALSE
