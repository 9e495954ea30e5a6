CONSTANTS
    N = 3
    K = 3
    A = 1
    Nodes <- MCNodes
    Conns <- MCConns
    Attrs <- MCAttrs
    Plans <- MiddleCloses
SPECIFICATION Spec
INVARIANTS ConnectionsKnown
CHECK_DEADLOCK FALSE
