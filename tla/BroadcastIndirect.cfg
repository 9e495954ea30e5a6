SPECIFICATION RoutingSpec
CONSTANTS
    N = 4
    Nodes <- MCNodes
    Graphs <- WithIndirect
    Selves = {1}
INVARIANT BroadcastGuaranteed
CHECK_DEADLOCK FALSE
