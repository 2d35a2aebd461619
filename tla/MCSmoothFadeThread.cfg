SPECIFICATION FairSpec
CONSTANTS
    Buffers = {a}
    NumEntries = 2
    MaxCalls = 4
    None = None
INVARIANT
    TableIsSound
PROPERTY
    StoppedSoundsEnd
