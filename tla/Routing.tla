------------------------------ MODULE Routing ------------------------------
(***************************************************************************)
(* All nodes run graph() on the same edges, one after the other, and then  *)
(* use what they found: requests and relayed packets are passed from next  *)
(* hop to next hop, and broadcast packets along the tree.                  *)
(***************************************************************************)
EXTENDS Graph

VARIABLES
    table,   \* table[n]: what graph() left behind at n
    mode,    \* how broadcasts are sent; "" until there is one
    air,     \* copies <<from, to>> of the broadcast packet under way
    got      \* got[n]: copies that n received

routingVars == <<vars, table, mode, air, got>>

NoTable == [reachable |-> {}, nexthop |-> <<>>, via |-> <<>>, tree |-> {}]

RoutingInit ==
    /\ Init
    /\ table = [n \in Nodes |-> NoTable]
    /\ mode = ""
    /\ air = <<>>
    /\ got = [n \in Nodes |-> 0]

\* A node has finished graph(); the next one starts.
Publish ==
    /\ phase = "done"
    /\ table[myself] = NoTable
    /\ table' = [table EXCEPT ![myself] =
            [reachable |-> reachable, nexthop |-> nexthop, via |-> via, tree |-> tree]]
    /\ IF myself + 1 \in Nodes
       THEN /\ myself' = myself + 1
            /\ phase' = "start"
            /\ todo' = <<>>
            /\ left' = {}
            /\ visited' = {}
            /\ indirect' = {}
            /\ distance' = [n \in Nodes |-> -1]
            /\ nexthop' = [n \in Nodes |-> NoNode]
            /\ prevedge' = [n \in Nodes |-> NoEdge]
            /\ via' = [n \in Nodes |-> NoNode]
            /\ reachable' = {}
            /\ tree' = {}
       ELSE UNCHANGED <<myself, phase, bfs, reachable, tree>>
    /\ UNCHANGED <<g, mode, air, got>>

Published == \A n \in Nodes : table[n] # NoTable
-----------------------------------------------------------------------------
\* Peers whose connection has status.mst.
TreePeers(n) ==
    {m \in Nodes : <<n, m>> \in table[n].tree \/ <<m, n>> \in table[n].tree}

\* The peer whose connection broadcast_packet leaves out.
Origin(n, from) == IF from = n THEN NoNode ELSE table[n].nexthop[from]

DirectTargets(n) ==
    {m \in table[n].reachable \ {n} :
        \/ table[n].via[m] = m
        \/ table[n].via[m] = n /\ table[n].nexthop[m] = m}

\* broadcast_packet: who n sends a packet to that it has from from.
Targets(n, from, how) ==
    CASE how = "no" -> {}
      [] how = "mst" -> TreePeers(n) \ {Origin(n, from)}
      [] how = "direct" -> IF from = n THEN DirectTargets(n) ELSE {}

\* The copies that n sends, in the order of its connection_list, whatever that is.
Copies(n, to) ==
    CHOOSE s \in [1 .. Cardinality(to) -> {n} \X to] :
        \A m \in to : \E i \in DOMAIN s : s[i] = <<n, m>>

\* n has a broadcast packet of its own.
Broadcast(n, how) ==
    /\ Published
    /\ mode = ""
    /\ mode' = how
    /\ air' = Copies(n, Targets(n, n, how))
    /\ got' = [got EXCEPT ![n] = 1]
    /\ UNCHANGED <<vars, table>>

\* A copy arrives: one for the node itself, and on it goes.
Deliver ==
    /\ air # <<>>
    /\ \A n \in Nodes : got[n] <= 1
    /\ LET from == Head(air)[1]
           n == Head(air)[2]
       IN  /\ got' = [got EXCEPT ![n] = @ + 1]
           /\ air' = Tail(air) \o Copies(n, Targets(n, from, mode))
    /\ UNCHANGED <<vars, table, mode>>

RoutingNext ==
    \/ Next /\ UNCHANGED <<table, mode, air, got>>
    \/ Publish
    \/ \E n \in Nodes, how \in {"no", "mst", "direct"} : Broadcast(n, how)
    \/ Deliver

\* A computation that has begun goes on, and its results are put to use.
RoutingSpec ==
    /\ RoutingInit /\ [][RoutingNext]_routingVars
    /\ WF_routingVars((Next /\ UNCHANGED <<table, mode, air, got>>) \/ Publish)
-----------------------------------------------------------------------------
RoutingTypeOK ==
    /\ TypeOK
    /\ \A n \in Nodes : table[n] # NoTable =>
          /\ table[n].reachable \subseteq Nodes
          /\ table[n].tree \subseteq g.edges
    /\ mode \in {"", "no", "mst", "direct"}
    /\ air \in Seq(Nodes \X Nodes)
    /\ got \in [Nodes -> 0 .. 2]

\* Where something for to is after k hops from n.
Way(n, to) ==
    LET at[k \in 0 .. Cardinality(Nodes)] ==
            IF k = 0 THEN n
            ELSE IF at[k - 1] = to THEN to
            ELSE table[at[k - 1]].nexthop[to]
    IN  at

\* "Each node will use graph algorithms to determine ... what the best route
\* is to other nodes": where no edge is indirect, what is passed from next
\* hop to next hop gets to its destination, without running in circles.
RequestsArrive ==
    Published /\ g.indirect = {} =>
        \A n \in Nodes : \A to \in table[n].reachable :
            Way(n, to)[Cardinality(Nodes)] = to

\* "each node will calculate the same minimum spanning tree": two nodes that
\* can reach each other agree on the tree.
SameTree ==
    Published => \A m, n \in Nodes :
                    m \in table[n].reachable => table[m].tree = table[n].tree

\* Every node that the sender can reach gets the packet, and gets it once.
ReachesAll ==
    /\ \A n \in Nodes : got[n] <= 1
    /\ air = <<>> => \A n \in Nodes : got[n] = 1 =>
                        \A m \in table[n].reachable : got[m] = 1

\* Broadcast = mst, where no edge is indirect: forwarded along the tree, away
\* from where it came from, the packet goes everywhere and stops.
TreeReachesAll == mode = "mst" /\ g.indirect = {} => ReachesAll

\* Broadcast = mst "guarantees all nodes receive the broadcast packet".
BroadcastGuaranteed == mode = "mst" => ReachesAll

\* Broadcast = direct: packets are "sent directly to all nodes that can be
\* reached directly", which without OPTION_INDIRECT are all reachable ones,
\* and "are never forwarded".
DirectReachesAll == mode = "direct" /\ g.indirect = {} => ReachesAll

\* Although sssp_bfs puts nodes back on the list it is working through, and
\* mst_kruskal starts over after edges it has skipped, graph() comes to an
\* end at every node.
EveryoneFinishes == <>Published

\* What sssp_bfs leaves behind can be used: its abort() is never reached, next hops have a
\* connection and lie on shortest paths, relays are direct, and requests arrive.
RoutesSound ==
    /\ RoutingTypeOK /\ NoAbort /\ NexthopIsPeer
    /\ NexthopOnShortestPath /\ DirectnessSound /\ RequestsArrive

\* What mst_kruskal leaves behind is a spanning tree, the same everywhere, and where no edge is
\* indirect broadcast_packet reaches everyone once over it, or directly.
BroadcastsArrive ==
    /\ SpanningTree /\ SameTree
    /\ TreeReachesAll /\ DirectReachesAll
=============================================================================
