SPECIFICATION Spec
CONSTANTS
    t1 = t1
    t2 = t2
    b1 = b1
    b2 = b2
    Threads <- MCThreads
    Blocks <- MCBlocks
    None = None
    Setups <- FlushSetups
    Size = 8
    PerHeader = 3
    OldStarts = 2
    FlushAt = 2
    KillsAll = FALSE
INVARIANT FlushVouches
CHECK_DEADLOCK FALSE
