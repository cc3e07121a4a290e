SPECIFICATION Spec

CONSTANTS
    Magic <- MCMagic
    Channels = {1, 2}
    Registered = {1}
    Payloads <- MCPayloads
    Texts <- MCTexts
    Capacity = 9
    ReadSize = 9
    MaxWrites = 4

INVARIANTS
    TypeOK
    FramesIntact
    FramesArriveWhole
    RawInOrder

PROPERTIES
    ImplementsQueue

CHECK_DEADLOCK FALSE
