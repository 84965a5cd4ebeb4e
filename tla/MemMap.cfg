CONSTANTS
    AddrSpace = 8
    NumRegions = 3
    SysRegs <- LastAddress
    Layouts <- SomeLayouts
    Files <- SomeFiles
SPECIFICATION FairSpec
INVARIANTS ListHoldsTheRegions LookupFindsRegion
PROPERTY EnvIsRead
