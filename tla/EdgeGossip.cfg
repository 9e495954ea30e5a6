CONSTANTS
    N = 3
    K = 4
    A = 2
    Nodes <- MCNodes
    Conns <- MCConns
    Attrs <- MCAttrs
    Plans <- MCPlans
SPECIFICATION Spec
INVARIANTS
    TablesAgree
PROPERTIES
    DiesOut
CHECK_DEADLOCK FALSE
