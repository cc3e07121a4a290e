SPECIFICATION Spec

CONSTANTS
    Magic <- MCMagic
    Channels = {1}
    Registered = {1}
    Payloads <- MCShortPayloads
    Texts <- MCPlainTexts
    Capacity = 9
    ReadSize = 9
    MaxWrites = 2

INVARIANTS
    RawIsKept

CHECK_DEADLOCK FALSE
