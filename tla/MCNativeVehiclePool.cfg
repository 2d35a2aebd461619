SPECIFICATION PoolSpec
CHECK_DEADLOCK FALSE
CONSTANTS
    Capacity = 2
    Generations = 2
    Producers = {NativeScm, CarGenerator}
    States = {parked, driven}
    MaxEvents = 6
    MaxUpdates = 3
    MaxFrames = 2
INVARIANTS
    SnapshotsCanBeTrusted
    StaleReferenceIsRejected
