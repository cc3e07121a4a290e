SPECIFICATION Spec

CONSTANTS
    Devices = {d1, d2}
    Client = Client
    None = None
    Keys <- MCNothing
    MaxKeys = 0
    MaxRequests = 2
    MaxOutput = 0
    MaxResets = 0
    MaxIO = 0
    MaxKills = 0

INVARIANTS
    NoForgottenDevice

CHECK_DEADLOCK FALSE
