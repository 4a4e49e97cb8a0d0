SPECIFICATION MCSpec
CONSTANTS
    Producers = {p1, p2}
    Workers = {w1, w2}
    QueueCapacity = 2
    ParentCancel = FALSE
    MaxCalls = 4
    Boot <- MCBoot
INVARIANTS  BootOrder  FeedsExact LimitsHold
PROPERTIES PlatformEnds
