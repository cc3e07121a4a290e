SPECIFICATION FairSpec

CONSTANTS
    Devices = {d1}
    Client = Client
    None = None
    Keys <- MCCancel
    MaxKeys = 1
    MaxRequests = 2
    MaxOutput = 1
    MaxResets = 1
    MaxIO = 0
    MaxKills = 1

INVARIANTS
    NoForgottenDevice

PROPERTIES
    SeenBuildsAreResolved

CHECK_DEADLOCK FALSE
