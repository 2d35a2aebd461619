\* A big collision file beside a ped with animations and a dictionary: safety.
SPECIFICATION Spec
CONSTANTS
    d1 = d1
    d2 = d2
    t1 = t1
    a1 = a1
    MODEL_INVALID = MODEL_INVALID
    Garbage = Garbage
    Models = {d1, d2, t1, a1}
    Type <- PedType
    Txd <- PedTxd
    Anim <- PedAnim
    CdOffset <- PedOffset
    CdSize <- PedSize
    NextOnCd <- PedFollowing
    ms_streamingBufferSize = 2
    ms_memoryAvailable = 6
    LargeishSize = 2
    NumSlots = 3
    UINT32 = 8
    GameRequests <- PedRequests
    GameRemovals = {d2}
    GameReleases = {a1}
    MaxCalls = 2
    MaxFaults = 1
INVARIANTS
    NothingIsAtOdds
