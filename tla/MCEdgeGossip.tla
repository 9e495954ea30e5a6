---------------------------- MODULE MCEdgeGossip ----------------------------
(***************************************************************************)
(* Instances of EdgeGossip: three nodes and a few connections.             *)
(***************************************************************************)
EXTENDS EdgeGossip

CONSTANTS N, K, A

MCNodes == 1 .. N
MCConns == 1 .. K
MCAttrs == 1 .. A

\* Two connections, one after the other or at once; one may be closed.
ComeAndGo ==
    [start |-> <<>>, remembered |-> {}, joinable |-> {<<1, 2>>, <<2, 3>>}, conns |-> 2,
     quitters |-> MCNodes, quits |-> 1, lost |-> 10]

\* Node 3 was cut off before it heard that nodes 1 and 2 lost each other.
Reunion ==
    [start |-> <<>>, remembered |-> {<<3, <<1, 2>>>>, <<3, <<2, 1>>>>},
     joinable |-> {<<1, 3>>, <<2, 3>>}, conns |-> 2,
     quitters |-> {}, quits |-> 0, lost |-> 10]

\* In a ring, two nodes connect once more.
Replacement ==
    [start |-> <<<<1, 2>>, <<2, 3>>, <<1, 3>>>>, remembered |-> {},
     joinable |-> {<<1, 3>>}, conns |-> 4, quitters |-> {}, quits |-> 0, lost |-> 10]

\* A chain that becomes a ring while one of its nodes closes a connection.
Shortcut(quitter) ==
    [start |-> <<<<1, 2>>, <<2, 3>>>>, remembered |-> {},
     joinable |-> {<<1, 3>>}, conns |-> 3, quitters |-> {quitter}, quits |-> 1, lost |-> 0]

MCPlans == {ComeAndGo, Reunion, Replacement}
MiddleCloses == {Shortcut(2)}
EndCloses == {Shortcut(1)}
=============================================================================
