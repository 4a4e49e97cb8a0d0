SPECIFICATION LiveSpec
CONSTANTS
    p1 = p1
    p2 = p2
    Producers = {p1, p2}
    Cap = 2
    FwdCap = 1
    Policy = "Disconnect"
    MaxConsecutiveDrops = 2
    DropWindowOn = TRUE
    MaxSends = 3
INVARIANTS DeliveryInOrder Accounting 
PROPERTIES RingIsQueue ChannelProgress
CHECK_DEADLOCK FALSE
