SPECIFICATION RoutingSpec
CONSTANTS
    N = 4
    Nodes <- MCNodes
    Graphs <- MCGraphs
    Selves = {1}
INVARIANTS
    ReachabilityExact
    RoutesSound
    BroadcastsArrive
PROPERTIES
    EveryoneFinishes
CHECK_DEADLOCK FALSE
