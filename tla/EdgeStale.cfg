CONSTANTS
    N = 3
    K = 3
    A = 1
    Nodes <- MCNodes
    Conns <- MCConns
    Attrs <- MCAttrs
    Plans <- EndCloses
SPECIFICATION Spec
INVARIANTS GoneForgotten
CHECK_DEADLOCK FALSE
