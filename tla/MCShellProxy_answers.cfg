SPECIFICATION FairSpec

CONSTANTS
    Devices = {d1}
    Client = Client
    None = None
    Keys <- MCEverything
    MaxKeys = 1
    MaxRequests = 1
    MaxOutput = 1
    MaxResets = 1
    MaxIO = 1
    MaxKills = 1

INVARIANTS
    TypeOK

PROPERTIES
    RequestsAreAnswered
    FlashEnds
    ResetsEndTerm

CHECK_DEADLOCK FALSE
