SPECIFICATION LongTermSpec
CONSTANTS
    Clients = {k1, k2}
    Users = {"me", "other"}
    Contents = {"a", "b"}
    NoUser = "none"
    Me = "me"
    memoryLimit = 1
    MaxShort = 1
    Batches <- MCBatches
SYMMETRY Symmetry
INVARIANTS GoneStaysGone
PROPERTIES ImplementsStore OthersOnlyGrow
