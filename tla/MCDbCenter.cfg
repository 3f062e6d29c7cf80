SPECIFICATION RSpec
CONSTANTS
    Thread = {t1, t2}
    NumGroups = 3
    Handle = {h1, h2, h3}
    NoDb = NoDb
    Unused = Unused
    NoThread = NoThread
    SizeOf <- MCSizeOf
    MaxBlocks = 2
    MaxHitSeq = 4
INVARIANTS
    TypeOK
    CacheHandlesLive
    AccountsForHeap
    OverLimitMeansOneGroup
    HitSeqOrdersUse
PROPERTIES
    GetDbReturnsRequestedGroup
    EvictsLeastRecentlyUsed
    GetDbReturns
