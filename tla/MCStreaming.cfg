\* A vehicle and an object with one big dictionary: safety and liveness.
SPECIFICATION FairSpec
CONSTANTS
    d1 = d1
    d2 = d2
    t1 = t1
    a1 = a1
    MODEL_INVALID = MODEL_INVALID
    Garbage = Garbage
    Models = {d1, d2, t1}
    Type <- AtomicType
    Txd <- AtomicTxd
    Anim <- AtomicAnim
    CdOffset <- AtomicOffset
    CdSize <- AtomicSize
    NextOnCd <- AtomicFollowing
    ms_streamingBufferSize = 2
    ms_memoryAvailable = 5
    LargeishSize = 2
    NumSlots = 3
    UINT32 = 8
    GameRequests <- AtomicRequests
    GameRemovals = {d1, d2}
    GameReleases = {d1, d2}
    MaxCalls = 2
    MaxFaults = 2
INVARIANTS
    BooksAgree
    ChannelsAgree
    LoadedModelHasWhatItNeeds
PROPERTY
    RequestsAreServed
