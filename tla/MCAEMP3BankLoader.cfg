\* Two slots that share the stream: safety, and every request is served.
SPECIFICATION FairSpec
CONSTANTS
    b1 = b1
    b2 = b2
    s1 = s1
    s2 = s2
    Banks = {b1, b2}
    Slots = {s1, s2}
    NumSounds = 2
    AE_BANK_MAX_NUM_SOUNDS = 3
    NumRequests = 2
    Callers <- TwoSlots
    m_StreamingChannel = 4
    SND_BANK_UNK = SND_BANK_UNK
    SND_BANK_SLOT_NONE = SND_BANK_SLOT_NONE
    Null = Null
    Garbage = Garbage
    MaxOverwritten = 1
INVARIANTS
    BooksAgree
    DeviceWritesALiveBuffer
    PendingRequestHasItsRead
    SlotPlaysItsBank
PROPERTIES
    RequestsAreServed
