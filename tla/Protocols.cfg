SPECIFICATION ProtocolSpec
CONSTANTS
    Parts = {"sptps", "gossip", "auth", "udp", "legacy"}
    MaxKex = 3
    MaxApp = 2
    Daemons = {1, 2, 3}
    Ranges = {"s"}
    Networks <- MCNetworks
    MTU = 12
    MinMtu = 4
    Floor = 5
    Header = 1
    MinProbe = 1
    MaxProbes = 5
    Misses = 2
    Frames = {3, 4, 7, 8, 10, 11}
    Paths <- MCPaths
    Window = 3
    FarAllowed = 1
    MaxSeqno = 2
    MaxKeys = 2
    MaxPackets = 3
    MaxFlying = 2
    MaxQueued = 1
    MaxLost = 1
    Ways <- MCWays
    Cases <- MCCases
    MaxTries = 2
INVARIANTS
    StreamSessionsSound
    GossipSound
    AuthSound
    TunnelSound
    LegacySound
PROPERTIES
    HandshakeFinishes
    IsRecordChannel
    GossipEnds
    UpgradeWorks
    MtuConverges
    KeyArrives
CHECK_DEADLOCK FALSE
