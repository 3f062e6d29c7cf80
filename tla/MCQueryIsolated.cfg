SPECIFICATION FairServerSpec
CONSTANTS
    Thread = {s1, s2}
    NumGroups = 2
    Handle = {h1, h2, h3}
    NoDb = NoDb
    Unused = Unused
    NoThread = NoThread
    NoGroup = NoGroup
    OutOfRange = OutOfRange
    SizeOf <- MCSizeOf
    MaxBlocks = 1
    MaxHitSeq = 4
    Deployments <- Isolation
INVARIANTS
    ServerTypeOK
    ParamsMatchRequest
    ReadsRequestedGroup
    PrivateBlocks
PROPERTIES
    ServesRequests
