SPECIFICATION NetworkSpec
CONSTANTS
    Parts = {"subnets", "edit", "forwarding", "relay", "replay", "stream", "alive", "past", "tarpit", "loop", "tree"}
    Me = 0
    Peers = {1, 2}
    Bits = 1
    Claims <- MCClaims
    Configs <- MCConfigs
    Seen <- MCSeen
    BroadcastNets <- MCBroadcastNets
    Asked <- MCAsked
    Home <- MCHome
    Size = 3
    Iterations = 2
    Bytes = {0, 1, 128, 255}
    Words = {0, 1, 255, 256, 32767, 32768, 65279, 65534, 65535}
    Lengths = {1, 7, 8, 555, 556, 1111, 1480, 1498}
    Mtus = {0, 590, 597, 1000, 1518}
    Hosts <- MCHosts
    Addresses <- MCAddresses
    Worlds <- MCWorlds
    MaxHops = 6
    Stations <- MCStations
    FullMtu = 10
    LeastMtu = 5
    RelayNetworks <- MCRelayNetworks
    WindowBits = 4
    FarLimit = 1
    SeqModulus = 32
    MaxSent = 12
    Streams <- MCStreams
    ReadSize = 4
    PingInterval = 3
    PingTimeout = 2
    Asleep = 3
    MaxLate = 2
    Delays = {0, 1}
    Links = {l1}
    MaxNow = 13
    Members <- MCMembers
    Bonds <- MCBonds
    Requests = {1, 2, 3}
    MaxAge = 3
    AgeEvery = 2
    HopTimes <- MCHopTimes
    Origins <- MCOrigins
    LastSecond = 9
    MaxBurst = 3
    Pits = 2
    LastTime = 2
    MaxFds = 5
    Loops = {"epoll", "kqueue", "select"}
    Fds = {1, 2}
    Timers = {1, 2}
    Waits = {0, 1}
    LastNow = 5
    MaxOpens = 1
    Keys = {1, 2, 3, 4}
    MaxChanges = 2
INVARIANTS
    SubnetsSound
    PacketEditSound
    ForwardingSound
    NoDoubleDelivery
    FreshAccepted
    StreamSound
    PastSound
    TarpitSound
    LoopSound
    SplaySound
PROPERTIES
    RelaySound
    AliveSound
CHECK_DEADLOCK FALSE
