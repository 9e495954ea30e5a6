------------------------------- MODULE Graph -------------------------------
(***************************************************************************)
(* graph(): what a node makes of the edges it knows.  A breadth-first      *)
(* search (sssp_bfs) finds the reachable nodes and how to send to them,    *)
(* check_reachability adopts the result, and mst_kruskal grows the tree    *)
(* that broadcast packets follow.                                          *)
(*                                                                         *)
(* Nodes are numbers in the order of their names.  The two functions are   *)
(* loops over lists that they change themselves; here every round of a     *)
(* loop is a step.  Addresses and options other than OPTION_INDIRECT,      *)
(* which no decision depends on, are left out.                             *)
(***************************************************************************)
EXTENDS Integers, Sequences, FiniteSets

CONSTANTS
    Nodes,    \* the nodes, numbered in the order of their names
    Graphs,   \* the sets of edges that node_tree may hold
    Selves    \* the nodes on which graph() is run

Pairs == Nodes \X Nodes

\* edges: the pairs <<from, to>> for which there is an edge_t;
\* weight and indirect: their weight, and those with OPTION_INDIRECT.
AllGraphs ==
    [edges : SUBSET {p \in Pairs : p[1] # p[2]},
     weight : [Pairs -> Int],
     indirect : SUBSET Pairs]

ASSUME GraphAssumption ==
    /\ Nodes \subseteq Nat
    /\ IsFiniteSet(Nodes)
    /\ Graphs \subseteq AllGraphs
    /\ Selves \subseteq Nodes

NoNode == -1
NoEdge == <<NoNode, NoNode>>

VARIABLES
    g,          \* the edges
    myself,
    phase,      \* "start", "sssp", "reach", "mst", "done"
    todo,       \* todo_list
    left,       \* edges of the head of todo_list still to be looked at
    visited,    \* nodes with status.visited
    indirect,   \* nodes with status.indirect
    distance,
    nexthop,
    prevedge,
    via,
    reachable,  \* nodes with status.reachable
    tree        \* the edges mst_kruskal has added

bfs == <<todo, left, visited, indirect, distance, nexthop, prevedge, via>>
vars == <<g, myself, phase, bfs, reachable, tree>>

Reverse(e) == <<e[2], e[1]>>

\* Edges whose other end confirms them (e->reverse is set).
Confirmed == {e \in g.edges : Reverse(e) \in g.edges}

EdgesOf(n) == {e \in g.edges : e[1] = n}

Init ==
    /\ g \in Graphs
    /\ myself \in Selves
    /\ phase = "start"
    /\ todo = <<>>
    /\ left = {}
    /\ visited = {}
    /\ indirect = {}
    /\ distance = [n \in Nodes |-> -1]
    /\ nexthop = [n \in Nodes |-> NoNode]
    /\ prevedge = [n \in Nodes |-> NoEdge]
    /\ via = [n \in Nodes |-> NoNode]
    /\ reachable = {}
    /\ tree = {}

-----------------------------------------------------------------------------
\* sssp_bfs, before its loop: begin with myself.
Begin ==
    /\ phase = "start"
    /\ phase' = "sssp"
    /\ visited' = {myself}
    /\ indirect' = Nodes \ {myself}
    /\ distance' = [n \in Nodes |-> IF n = myself THEN 0 ELSE -1]
    /\ nexthop' = [nexthop EXCEPT ![myself] = myself]
    /\ prevedge' = [prevedge EXCEPT ![myself] = NoEdge]
    /\ via' = [via EXCEPT ![myself] = myself]
    /\ todo' = <<myself>>
    /\ left' = EdgesOf(myself)
    /\ UNCHANGED <<g, myself, reachable, tree>>

ReachesIndirectly_EdgeOnly(e) == e \in g.indirect

ReachesIndirectly(e) == e[1] \in indirect \/ e \in g.indirect

\* e is as long a way to its end as the one known, over a lighter edge.
Lighter(e) ==
    /\ distance[e[2]] = distance[e[1]] + 1
    /\ g.weight[e] < g.weight[prevedge[e[2]]]

Better_OneWay(e) ==
    /\ e[2] # myself
    /\ \/ e[2] \notin visited
       \/ e[2] \in indirect /\ ~ ReachesIndirectly(e)
       \/ Lighter(e)

\* "If edge e provides for better reachability of e->to".
Better(e) ==
    /\ e \in Confirmed
    /\ e[2] # myself
    /\ \/ e[2] \notin visited
       \/ e[2] \in indirect /\ ~ ReachesIndirectly(e)
       \/ Lighter(e)

\* The neighbour through which e->to is reached over e.
NexthopOver(e) == IF nexthop[e[1]] = myself THEN e[2] ELSE nexthop[e[1]]

\* The last node on the way over e that packets can be sent to directly.
ViaOver(e) == IF ReachesIndirectly(e) THEN via[e[1]] ELSE e[2]

\* Reach e->to over e, and look at it (again) later.
Update(e) ==
    /\ nexthop' = [nexthop EXCEPT ![e[2]] =
            IF e[2] \notin visited \/ Lighter(e) THEN NexthopOver(e) ELSE @]
    /\ visited' = visited \cup {e[2]}
    /\ indirect' = IF ReachesIndirectly(e) THEN indirect \cup {e[2]}
                                           ELSE indirect \ {e[2]}
    /\ prevedge' = [prevedge EXCEPT ![e[2]] = e]
    /\ via' = [via EXCEPT ![e[2]] = ViaOver(e)]
    /\ distance' = [distance EXCEPT ![e[2]] = distance[e[1]] + 1]
    /\ todo' = Append(todo, e[2])

\* One round of the inner loop: the next edge of edge_tree, by name.
Examine(e) ==
    /\ phase = "sssp"
    /\ e \in left
    /\ \A f \in left : e[2] <= f[2]
    /\ left' = left \ {e}
    /\ IF Better(e)
       THEN Update(e)
       ELSE UNCHANGED <<todo, visited, indirect, distance, nexthop, prevedge, via>>
    /\ UNCHANGED <<g, myself, phase, reachable, tree>>

\* The outer loop goes to the next node of todo_list.
NextNode ==
    /\ phase = "sssp"
    /\ left = {}
    /\ Tail(todo) # <<>>
    /\ todo' = Tail(todo)
    /\ left' = EdgesOf(Head(Tail(todo)))
    /\ UNCHANGED <<g, myself, phase, visited, indirect, distance, nexthop,
                   prevedge, via, reachable, tree>>

\* The outer loop ends.
Searched ==
    /\ phase = "sssp"
    /\ left = {}
    /\ Tail(todo) = <<>>
    /\ todo' = <<>>
    /\ phase' = "reach"
    /\ UNCHANGED <<g, myself, left, visited, indirect, distance, nexthop,
                   prevedge, via, reachable, tree>>
-----------------------------------------------------------------------------
Before_OwnFirst(e, f) ==
    \/ g.weight[e] < g.weight[f]
    \/ /\ g.weight[e] = g.weight[f]
       /\ \/ e[1] = myself /\ f[1] # myself
          \/ /\ (e[1] = myself) = (f[1] = myself)
             /\ e[1] < f[1] \/ (e[1] = f[1] /\ e[2] <= f[2])

\* edge_weight_compare: by weight, then by name.
Before(e, f) ==
    \/ g.weight[e] < g.weight[f]
    \/ /\ g.weight[e] = g.weight[f]
       /\ \/ e[1] < f[1]
          \/ e[1] = f[1] /\ e[2] <= f[2]

First(E, e) == e \in E /\ \A f \in E : Before(e, f)

\* check_reachability, and mst_kruskal up to its loop: the tree starts at
\* the lightest edge from a reachable node.
Adopt ==
    /\ phase = "reach"
    /\ phase' = "mst"
    /\ reachable' = visited
    /\ visited' = {n \in visited : \E e \in EdgesOf(n) :
                        First({d \in g.edges : d[1] \in visited}, e)}
    /\ UNCHANGED <<g, myself, todo, left, indirect, distance, nexthop,
                   prevedge, via, tree>>

Safe_Visited(e) == e \in Confirmed

\* Edges that connect the tree with a node that is not in it.
Safe(e) == e \in Confirmed /\ (e[1] \in visited) # (e[2] \in visited)

\* One round of mst_kruskal.  The loop restarts whenever it has skipped
\* something, so it always adds the lightest safe edge.
AddSafe(e) ==
    /\ phase = "mst"
    /\ First({f \in g.edges : Safe(f)}, e)
    /\ visited' = visited \cup {e[1], e[2]}
    /\ tree' = tree \cup {e}
    /\ UNCHANGED <<g, myself, phase, todo, left, indirect, distance, nexthop,
                   prevedge, via, reachable>>

Finish ==
    /\ phase = "mst"
    /\ \A e \in g.edges : ~ Safe(e)
    /\ phase' = "done"
    /\ UNCHANGED <<g, myself, bfs, reachable, tree>>

Next ==
    \/ Begin
    \/ NextNode
    \/ Searched
    \/ Adopt
    \/ Finish
    \/ \E e \in g.edges : Examine(e) \/ AddSafe(e)

Spec == Init /\ [][Next]_vars /\ WF_vars(Next)
-----------------------------------------------------------------------------
TypeOK ==
    /\ g \in AllGraphs
    /\ myself \in Nodes
    /\ phase \in {"start", "sssp", "reach", "mst", "done"}
    /\ todo \in Seq(Nodes)
    /\ left \subseteq g.edges
    /\ visited \subseteq Nodes
    /\ indirect \subseteq Nodes
    /\ distance \in [Nodes -> Nat \cup {-1}]
    /\ nexthop \in [Nodes -> Nodes \cup {NoNode}]
    /\ prevedge \in [Nodes -> g.edges \cup {NoEdge}]
    /\ via \in [Nodes -> Nodes \cup {NoNode}]
    /\ reachable \subseteq Nodes
    /\ tree \subseteq g.edges

Known == phase \in {"mst", "done"}

Closed(S) == \A e \in Confirmed : e[1] \in S => e[2] \in S

\* The nodes marked reachable are exactly those that confirmed edges lead
\* to: the smallest set with myself in it that no confirmed edge leaves.
ReachabilityExact ==
    Known =>
        /\ myself \in reachable
        /\ Closed(reachable)
        /\ \A S \in SUBSET Nodes :
              myself \in S /\ Closed(S) => reachable \subseteq S

\* The abort() in the loop of sssp_bfs is never reached.
NoAbort == phase = "sssp" => \A i \in DOMAIN todo : distance[todo[i]] >= 0

\* Every reachable node has a next hop that is a peer, so that the callers
\* that send to nexthop->connection find a connection there.
NexthopIsPeer ==
    Known => \A n \in reachable \ {myself} : <<myself, nexthop[n]>> \in Confirmed

\* The nodes at most k confirmed edges away from n.
Within(n) ==
    LET ball[k \in 0 .. Cardinality(Nodes)] ==
            IF k = 0 THEN {n}
            ELSE ball[k - 1] \cup {e[2] : e \in {f \in Confirmed : f[1] \in ball[k - 1]}}
    IN  ball

Hops(m, n) ==
    CHOOSE k \in 0 .. Cardinality(Nodes) :
        n \in Within(m)[k] /\ \A j \in 0 .. k - 1 : n \notin Within(m)[j]

\* "Only update nexthop if it doesn't increase the path length": since a
\* breadth-first search comes along a shortest path first, the next hop of
\* every reachable node stays on a shortest path.  Indirect edges spoil this:
\* a direct path that is longer replaces the distance but not the next hop.
NexthopOnShortestPath ==
    Known /\ g.indirect = {} =>
        \A n \in reachable \ {myself} : Hops(nexthop[n], n) + 1 = Hops(myself, n)

\* "The SSSP algorithm will also be used to determine whether nodes are
\* directly, indirectly or not reachable": a node counts as direct only if a
\* path without OPTION_INDIRECT leads to it, the relay for a node that does not
\* is at the end of such a path, and without indirect edges everyone is direct.
\* (The relay may count as indirect itself: a lighter path that came up after it
\* was noted does not ask whether the longer one was direct.)
DirectnessSound ==
    Known =>
        /\ \A n \in reachable \ indirect : via[n] = n
        /\ \A S \in SUBSET Nodes :
              /\ myself \in S
              /\ \A e \in Confirmed \ g.indirect : e[1] \in S => e[2] \in S
              => \A n \in reachable : via[n] \in S
        /\ g.indirect = {} => reachable \cap indirect = {}

Crosses(e, S) == (e[1] \in S) # (e[2] \in S)

\* mst_kruskal ends with a spanning tree of the reachable nodes, in which
\* every edge is the lightest across some division of them.
SpanningTree ==
    phase = "done" =>
        /\ visited = reachable \/ reachable = {myself}
        /\ Cardinality(tree) = Cardinality(reachable) - 1
        /\ \A S \in (SUBSET reachable) \ {{}, reachable} :
              \E e \in tree : Crosses(e, S)
        /\ \A e \in tree : \E S \in SUBSET reachable :
              /\ Crosses(e, S)
              /\ \A f \in Confirmed : Crosses(f, S) => g.weight[e] <= g.weight[f]
=============================================================================
