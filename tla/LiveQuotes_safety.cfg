\* Three sockets, two symbols, both builds; two attempts to reconnect.
SPECIFICATION FairSpec
CONSTANTS
    A = A
    B = B
    FirstSymbol = A
    Nothing = Nothing
    Conns = {1, 2, 3}
    Symbols = {A, B}
    MaxReconnectAttempts = 2
    Builds = {"production", "development"}
    Worlds <- MCWorlds
    MaxLoads = 3
    MaxMessages = 4
    MaxStray = 0
CHECK_DEADLOCK FALSE
INVARIANTS
    TypeOK
    ShownSymbolSubscribed
    NoStraySubscription
    NoOrphanSocket
    GoneStaysGone
    CandlesFollowSymbol
PROPERTIES
    ServedOrGaveUp
