SPECIFICATION Spec
CONSTANTS
    s1 = s1
    s2 = s2
    NoChan = NoChan
    Subscribers <- OneSubscriber
    Buffer = 100
    ProducerCap = 2
    MaxMsgs = 1
CHECK_DEADLOCK FALSE
INVARIANTS SubscriptionFinishes
