SPECIFICATION FairSpec
CONSTANTS
    s1 = s1
    s2 = s2
    NoChan = NoChan
    Subscribers <- TwoSubscribers
    Buffer = 3
    ProducerCap = 1
    MaxMsgs = 3
CHECK_DEADLOCK FALSE
INVARIANTS NothingMissed InOrder OneDuplicate RealtimeOnce EofComplete
PROPERTIES Delivery
