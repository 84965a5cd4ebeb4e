CONSTANTS
    s1 = s1
    v1 = v1
    u1 = u1
    Shared <- OneShared
    Virtual <- OneVirtual
    Unmapped <- OneUnmapped
    Value <- Bits
    Capacity = 2
    CycleSpace = 16
    MaxCycle = 2
    MaxDrop = 1
    NoticePeriod = 1
    MaxAccesses = 3
    MaxStrayed = 2
SPECIFICATION FairSpec
INVARIANTS RepliesMatch ReadsOwnWrites SyscallIntact CyclesReported
PROPERTY AccessReturns
CHECK_DEADLOCK FALSE
