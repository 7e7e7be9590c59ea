SPECIFICATION FairSpec
CONSTANTS
    t1 = t1
    t2 = t2
    None = None
    Callers = {t1, t2}
    Blocks <- MCBlocks
    Requests <- MCRequests
    Identities <- MCIdentities
    MaxTransfer = 2
    Limit28 = 2
    Limit48 = 3
INVARIANTS
    TypeOK
PROPERTIES
    IsBlockDevice
    LockIsReleased
