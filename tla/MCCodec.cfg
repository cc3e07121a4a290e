SPECIFICATION Spec
CONSTANTS
    None = "None"
    Class <- MCClass
    Order <- MCOrder
    Convert <- MCConvert
    Instances <- MCInstances
    Data <- MCData
    OwnMessages <- MCOwnMessages
INVARIANTS
    TypeOK
    RegistryIsExact
    OwnMessagesArrive
    AcceptedIsTyped
    RelayIsTransparent
