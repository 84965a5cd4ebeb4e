SPECIFICATION Spec
CONSTANTS
    RobSize = 2
    IdSpace = 16
    Il1 <- TwoSets
    Dl1 <- OneSet
    Ul2 <- OddSets
    Exist <- AllCaches
    Hsim = FALSE
    FetchBufferSize = 4
    Pcs <- SomePcs
    Addrs <- SomeAddrs
    Ids = {0, 4}
    MaxAccesses = 4
INVARIANTS
    SetsLinked
    FetchFilterSound
    MissesCounted
PROPERTY
    ImplementLRU
CHECK_DEADLOCK FALSE
