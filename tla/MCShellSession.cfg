SPECIFICATION FairSpec

CONSTANTS
    MaxWrites = 2
    MaxForwards = 2
    KillTimeout = 2

INVARIANTS
    TypeOK
    ConnectComesFirst
    WritesKeepOrder
    FlagHasKeeper
    NothingIsLeftBehind
    SignalsHitTheChild

PROPERTIES
    FinallyConnects
    LossIsNoticed
    ShellEnds

CHECK_DEADLOCK FALSE
