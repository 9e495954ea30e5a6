SPECIFICATION OutSpec
CONSTANTS
    MaxCached = 2
    Config <- Static
    Addresses <- MCAddresses
    Source = "source"
    Home = "edge"
    Alive = {"edge", "static"}
    CacheFile <- OldFirst
    Reported <- EdgeOnly
    MaxTimeout = 2
    MaxConns = 2
    Settings <- MCSettings
INVARIANTS
    OutgoingSound
PROPERTIES
    Reconnects
CHECK_DEADLOCK FALSE
