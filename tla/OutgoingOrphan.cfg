SPECIFICATION OutSpec
CONSTANTS
    MaxCached = 2
    Config <- Nothing
    Addresses <- MCAddresses
    Source = "source"
    Home = "edge"
    Alive = {"edge"}
    CacheFile <- OldFirst
    Reported <- EdgeOnly
    MaxTimeout = 2
    MaxConns = 2
    Settings <- Passive
INVARIANT NeverAbandoned
CHECK_DEADLOCK FALSE
