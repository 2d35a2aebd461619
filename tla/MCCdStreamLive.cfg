\* Two streams: refinement of CdStreamService and liveness.
SPECIFICATION FairSpec
CONSTANTS
    gStreamCount = 2
    StreamSemaphoreMax = 2
    SyncSemaphoreMax = 2
    Files = {f1}
    Sectors = {o1}
    SectorCount = 1
    Garbage = Garbage
PROPERTIES
    ImplementsService
    SyncReturns
