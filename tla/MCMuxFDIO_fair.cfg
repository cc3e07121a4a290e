SPECIFICATION FairSpec

CONSTANTS
    Magic <- MCMagic
    Channels = {1}
    Registered = {1}
    Payloads <- MCEmptyPayloads
    Texts <- MCPlainTexts
    Capacity = 3
    ReadSize = 3
    MaxWrites = 4

INVARIANTS
    EndIsReported
    NoInventedFrames

PROPERTIES
    FramesArrive
    OnlyRefusalsSpoilHeaders

CHECK_DEADLOCK FALSE
