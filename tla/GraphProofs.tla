---------------------------- MODULE GraphProofs ----------------------------
(***************************************************************************)
(* What graph() computes, for every set of nodes and edges.                *)
(***************************************************************************)
EXTENDS Graph, SequenceTheorems, TLAPS

\* What the type of an edge table says of one edge (edge_t: from, to, weight).
LEMMA EdgeFacts ==
    ASSUME g \in AllGraphs
    PROVE  /\ g.edges \subseteq Pairs
           /\ g.weight \in [Pairs -> Int]
           /\ \A e \in g.edges : /\ e[1] \in Nodes
                                 /\ e[2] \in Nodes
                                 /\ e[1] # e[2]
                                 /\ e = <<e[1], e[2]>>
                                 /\ e \in Pairs
BY DEF AllGraphs, Pairs

\* An edge with a reverse joins two nodes, and its reverse has one too (edge_add
\* links both).
LEMMA ConfirmedFacts ==
    ASSUME g \in AllGraphs, NEW e \in Confirmed
    PROVE  /\ e \in g.edges
           /\ e[1] \in Nodes
           /\ e[2] \in Nodes
           /\ Reverse(e) \in Confirmed
           /\ Reverse(e)[1] = e[2]
           /\ Reverse(e)[2] = e[1]
BY EdgeFacts DEF Confirmed, Reverse

\* A node that is on the list stays there when another is appended.
LEMMA AppendKeeps ==
    ASSUME NEW s \in Seq(Nodes), NEW n \in Nodes
    PROVE  /\ Append(s, n) \in Seq(Nodes)
           /\ Append(s, n) # <<>>
           /\ s # <<>> => Head(Append(s, n)) = Head(s)
           /\ Len(Append(s, n)) = Len(s) + 1
           /\ \A i \in 1 .. Len(s) : Append(s, n)[i] = s[i]
           /\ Append(s, n)[Len(s) + 1] = n
<1>1. /\ Append(s, n) \in Seq(Nodes)
      /\ Append(s, n) # <<>>
      /\ Len(Append(s, n)) = Len(s) + 1
      /\ \A i \in 1 .. Len(s) : Append(s, n)[i] = s[i]
      /\ Append(s, n)[Len(s) + 1] = n
  BY AppendProperties
<1>2. ASSUME s # <<>> PROVE Head(Append(s, n)) = Head(s)
  <2>1. Len(s) \in Nat \ {0}
    BY <1>2, EmptySeq
  <2>2. Append(s, n)[1] = s[1]
    BY <1>1, <2>1
  <2> QED BY <2>2
<1> QED BY <1>1, <1>2

\* Deleting the head of the list of sssp_bfs moves every other node up by one.
LEMMA TailKeeps ==
    ASSUME NEW s \in Seq(Nodes), s # <<>>
    PROVE  /\ Tail(s) \in Seq(Nodes)
           /\ Len(Tail(s)) = Len(s) - 1
           /\ Head(s) = s[1]
           /\ Head(s) \in Nodes
           /\ \A i \in 1 .. Len(s) - 1 : Tail(s)[i] = s[i + 1]
           /\ Tail(s) # <<>> => Head(Tail(s)) = s[2] /\ Len(s) >= 2
<1>1. /\ Head(s) \in Nodes
      /\ Tail(s) \in Seq(Nodes)
      /\ Len(Tail(s)) = Len(s) - 1
      /\ \A i \in 1 .. Len(Tail(s)) : Tail(s)[i] = s[i + 1]
  BY HeadTailProperties
<1>2. Head(s) = s[1]
  OBVIOUS
<1>3. ASSUME Tail(s) # <<>> PROVE Head(Tail(s)) = s[2] /\ Len(s) >= 2
  <2>1. Len(Tail(s)) \in Nat \ {0} /\ Len(s) \in Nat
    BY <1>1, <1>3, EmptySeq, LenProperties
  <2>2. Tail(s)[1] = s[2] /\ Len(s) >= 2
    BY <1>1, <2>1
  <2> QED BY <2>2
<1> QED BY <1>1, <1>2, <1>3

-----------------------------------------------------------------------------
\* While the search is on: the nodes on the list, and the edges whose turn
\* is yet to come, are all that is left to look at.
Searching ==
    /\ todo # <<>>
    /\ \A i \in 1 .. Len(todo) : todo[i] \in visited
    /\ \A e \in left : e[1] = Head(todo)
    /\ \A e \in Confirmed : e[1] \in visited =>
          \/ e[2] \in visited
          \/ e \in left
          \/ \E i \in 2 .. Len(todo) : todo[i] = e[1]

\* S was reached from myself over confirmed edges only.
Reached(S) ==
    /\ myself \in S
    /\ \A T \in SUBSET Nodes : myself \in T /\ Closed(T) => S \subseteq T

Hopped(S) ==
    /\ nexthop[myself] = myself
    /\ \A n \in S \ {myself} : <<myself, nexthop[n]>> \in Confirmed

Counted(S) == \A n \in S : distance[n] \in Nat

Found(S) == Reached(S) /\ Hopped(S) /\ Counted(S)

Connected ==
    \A S \in SUBSET Nodes :
        (\E a \in visited : a \in S) /\ (\E b \in visited : b \notin S)
            => \E e \in tree : Crosses(e, S)

SearchInv ==
    /\ phase = "start" => visited = {} /\ tree = {}
    /\ phase = "sssp" => Found(visited) /\ Searching
    /\ phase = "reach" => Found(visited) /\ Closed(visited)
    /\ Known => Found(reachable) /\ Closed(reachable)
    /\ phase \in {"sssp", "reach"} => tree = {}

TreeInv ==
    /\ Known => visited \subseteq reachable /\ Connected
    /\ phase = "done" => \A e \in g.edges : ~ Safe(e)

IInv == TypeOK /\ SearchInv /\ TreeInv
-----------------------------------------------------------------------------
\* The state before graph() is well formed.
LEMMA TypeInit == Init => TypeOK
BY GraphAssumption DEF Init, TypeOK, NoNode, NoEdge

\* What sssp_bfs writes when it finds a node over an edge is well formed.
LEMMA UpdateType ==
    ASSUME TypeOK, NEW e \in g.edges, Update(e), distance[e[1]] \in Nat
    PROVE  /\ todo' \in Seq(Nodes)
           /\ visited' \subseteq Nodes
           /\ indirect' \subseteq Nodes
           /\ distance' \in [Nodes -> Nat \cup {-1}]
           /\ nexthop' \in [Nodes -> Nodes \cup {NoNode}]
           /\ prevedge' \in [Nodes -> g.edges \cup {NoEdge}]
           /\ via' \in [Nodes -> Nodes \cup {NoNode}]
<1>1. e[1] \in Nodes /\ e[2] \in Nodes
  BY EdgeFacts DEF TypeOK
<1>2. todo' \in Seq(Nodes)
  BY <1>1, AppendKeeps DEF TypeOK, Update
<1>3. visited' \subseteq Nodes /\ indirect' \subseteq Nodes
  BY <1>1 DEF TypeOK, Update
<1>4. distance' \in [Nodes -> Nat \cup {-1}]
  BY <1>1 DEF TypeOK, Update
<1>5. NexthopOver(e) \in Nodes \cup {NoNode} /\ ViaOver(e) \in Nodes \cup {NoNode}
  BY <1>1 DEF TypeOK, NexthopOver, ViaOver
<1>6. nexthop' \in [Nodes -> Nodes \cup {NoNode}]
  BY <1>1, <1>5 DEF TypeOK, Update
<1>7. via' \in [Nodes -> Nodes \cup {NoNode}]
  BY <1>1, <1>5 DEF TypeOK, Update
<1>8. prevedge' \in [Nodes -> g.edges \cup {NoEdge}]
  BY <1>1 DEF TypeOK, Update
<1> QED BY <1>2, <1>3, <1>4, <1>6, <1>7, <1>8

\* Every step of sssp_bfs, check_reachability and mst_kruskal keeps the types.
LEMMA TypeStep ==
    ASSUME TypeOK, SearchInv, [Next]_vars
    PROVE  TypeOK'
<1>1. CASE Begin
  <2>1. todo' \in Seq(Nodes)
    BY <1>1 DEF Begin, TypeOK
  <2>2. left' \subseteq g'.edges
    BY <1>1 DEF Begin, TypeOK, EdgesOf
  <2>3. visited' \subseteq Nodes /\ indirect' \subseteq Nodes
    BY <1>1 DEF Begin, TypeOK
  <2>4. /\ distance' \in [Nodes -> Nat \cup {-1}]
        /\ nexthop' \in [Nodes -> Nodes \cup {NoNode}]
        /\ prevedge' \in [Nodes -> g.edges \cup {NoEdge}]
        /\ via' \in [Nodes -> Nodes \cup {NoNode}]
    BY <1>1 DEF Begin, TypeOK
  <2> QED BY <1>1, <2>1, <2>2, <2>3, <2>4 DEF Begin, TypeOK
<1>2. CASE NextNode
  <2>1. todo # <<>>
    BY <1>2 DEF NextNode, SearchInv, Searching
  <2>2. todo' \in Seq(Nodes)
    BY <1>2, <2>1, TailKeeps DEF NextNode, TypeOK
  <2>3. left' \subseteq g'.edges
    BY <1>2 DEF NextNode, EdgesOf
  <2> QED BY <1>2, <2>2, <2>3 DEF NextNode, TypeOK
<1>3. CASE Searched
  BY <1>3 DEF Searched, TypeOK
<1>4. CASE Adopt
  <2>1. visited' \subseteq Nodes
    BY <1>4, EdgeFacts DEF Adopt, TypeOK
  <2> QED BY <1>4, <2>1 DEF Adopt, TypeOK
<1>5. CASE Finish
  BY <1>5 DEF Finish, TypeOK, bfs
<1>6. ASSUME NEW e \in g.edges, Examine(e) PROVE TypeOK'
  <2>1. CASE Better(e)
    <3>1. distance[e[1]] \in Nat
      <4>1. e[1] = Head(todo) /\ todo # <<>> /\ phase = "sssp"
        BY <1>6 DEF Examine, SearchInv, Searching
      <4>2. Head(todo) = todo[1] /\ Len(todo) \in Nat \ {0}
        BY <4>1, EmptySeq DEF TypeOK
      <4> QED BY <4>1, <4>2 DEF SearchInv, Searching, Found, Counted
    <3>2. Update(e)
      BY <1>6, <2>1 DEF Examine
    <3> QED BY <1>6, <3>1, <3>2, UpdateType DEF Examine, TypeOK
  <2>2. CASE ~ Better(e)
    BY <1>6, <2>2 DEF Examine, TypeOK
  <2> QED BY <2>1, <2>2
<1>7. ASSUME NEW e \in g.edges, AddSafe(e) PROVE TypeOK'
  <2>1. e[1] \in Nodes /\ e[2] \in Nodes
    BY EdgeFacts DEF TypeOK
  <2> QED BY <1>7, <2>1 DEF AddSafe, TypeOK
<1>8. CASE UNCHANGED vars
  BY <1>8 DEF vars, bfs, TypeOK
<1> QED BY <1>1, <1>2, <1>3, <1>4, <1>5, <1>6, <1>7, <1>8 DEF Next
-----------------------------------------------------------------------------
\* Before the search there is nothing to show of it.
LEMMA SearchInit == Init => SearchInv /\ TreeInv
BY DEF Init, SearchInv, TreeInv, Known

\* Looking at an edge extends what was found.
LEMMA UpdateFinds ==
    ASSUME TypeOK, Found(visited), UNCHANGED <<g, myself>>,
           NEW e \in g.edges, e[1] \in visited, Better(e), Update(e)
    PROVE  Found(visited)'
<1> USE DEF Found
<1>1. /\ e \in Confirmed
      /\ e[2] \in Nodes
      /\ e[1] \in Nodes
      /\ e[2] # myself
      /\ e = <<e[1], e[2]>>
      /\ visited' = visited \cup {e[2]}
  BY EdgeFacts DEF Better, Update, TypeOK
<1>2. Confirmed' = Confirmed /\ \A T : Closed(T)' = Closed(T)
  BY DEF Confirmed, Closed
<1>3. Reached(visited)'
  <2>1. ASSUME NEW T \in SUBSET Nodes, myself \in T, Closed(T)
        PROVE  visited' \subseteq T
    <3>1. visited \subseteq T
      BY <2>1 DEF Reached
    <3>2. e[2] \in T
      BY <1>1, <2>1, <3>1 DEF Closed
    <3> QED BY <1>1, <3>1, <3>2
  <2>2. myself \in visited'
    BY <1>1 DEF Reached
  <2> QED BY <1>2, <2>1, <2>2 DEF Reached
<1>4. Hopped(visited)'
  <2>1. <<myself, NexthopOver(e)>> \in Confirmed
    <3>1. CASE e[1] = myself
      BY <1>1, <3>1 DEF Hopped, NexthopOver
    <3>2. CASE e[1] # myself
      <4>1. <<myself, nexthop[e[1]]>> \in Confirmed
        BY <3>2 DEF Hopped
      <4>2. nexthop[e[1]] # myself
        BY <4>1, EdgeFacts DEF TypeOK, Confirmed
      <4> QED BY <4>1, <4>2 DEF NexthopOver
    <3> QED BY <3>1, <3>2
  <2>2. \A n \in Nodes : n # e[2] => nexthop'[n] = nexthop[n]
    BY DEF TypeOK, Update
  <2>3. \/ nexthop'[e[2]] = NexthopOver(e)
        \/ e[2] \in visited /\ nexthop'[e[2]] = nexthop[e[2]]
    BY <1>1 DEF Update, TypeOK
  <2>4. <<myself, nexthop'[e[2]]>> \in Confirmed
    BY <1>1, <2>1, <2>3 DEF Hopped
  <2>5. visited \subseteq Nodes /\ myself \in Nodes
    BY DEF TypeOK
  <2>6. nexthop'[myself] = myself
    BY <1>1, <2>2, <2>5 DEF Hopped
  <2>7. \A n \in visited' \ {myself} : <<myself, nexthop'[n]>> \in Confirmed
    BY <1>1, <2>2, <2>4, <2>5 DEF Hopped
  <2> QED BY <1>2, <2>6, <2>7 DEF Hopped
<1>5. Counted(visited)'
  BY <1>1 DEF Counted, Update, TypeOK
<1> QED BY <1>3, <1>4, <1>5

\* Every step keeps the invariant of sssp_bfs: what is visited was found over
\* confirmed edges, and what is not explored yet is still on the list.
LEMMA SearchStep ==
    ASSUME TypeOK, SearchInv, [Next]_vars
    PROVE  SearchInv'
<1> USE DEF SearchInv, Known
<1>1. CASE Begin
  <2>1. /\ phase' = "sssp"
        /\ visited' = {myself}
        /\ todo' = <<myself>>
        /\ left' = EdgesOf(myself)
        /\ g' = g /\ myself' = myself /\ tree' = tree
    BY <1>1 DEF Begin
  <2>2. nexthop'[myself] = myself /\ distance'[myself] = 0
    BY <1>1 DEF Begin, TypeOK
  <2>3. Found(visited)'
    BY <2>1, <2>2 DEF Found, Reached, Hopped, Counted
  <2>4. Searching'
    <3>1. Len(todo') = 1 /\ todo'[1] = myself /\ Head(todo') = myself /\ todo' # <<>>
      BY <2>1
    <3>2. \A e \in left' : e[1] = myself
      BY <2>1 DEF EdgesOf
    <3>3. \A e \in Confirmed' : e[1] \in visited' => e \in left'
      BY <2>1 DEF Confirmed, EdgesOf
    <3> QED BY <2>1, <3>1, <3>2, <3>3 DEF Searching
  <2> QED BY <1>1, <2>1, <2>3, <2>4 DEF Begin
<1>2. CASE NextNode
  <2>1. todo # <<>> /\ Found(visited) /\ Searching
    BY <1>2 DEF NextNode, Searching
  <2>2. /\ Len(todo') = Len(todo) - 1
        /\ \A i \in 1 .. Len(todo) - 1 : todo'[i] = todo[i + 1]
        /\ Head(todo') = todo[2]
        /\ Len(todo) \in Nat /\ Len(todo) >= 2
        /\ todo' # <<>>
        /\ Head(todo') = Head(Tail(todo))
    BY <1>2, <2>1, TailKeeps, LenProperties DEF NextNode, TypeOK
  <2>3. Found(visited)'
    BY <1>2, <2>1 DEF NextNode, Found, Reached, Hopped, Counted, Closed, Confirmed
  <2>4. \A i \in 1 .. Len(todo') : todo'[i] \in visited'
    <3>1. \A i \in 1 .. Len(todo) - 1 : i + 1 \in 1 .. Len(todo)
      BY <2>2
    <3> QED BY <1>2, <2>1, <2>2, <3>1 DEF NextNode, Searching
  <2>5. \A e \in left' : e[1] = Head(todo')
    BY <1>2, <2>2 DEF NextNode, EdgesOf
  <2>6. ASSUME NEW e \in Confirmed', e[1] \in visited', e[2] \notin visited'
        PROVE  e \in left' \/ \E i \in 2 .. Len(todo') : todo'[i] = e[1]
    <3>1. e \in Confirmed /\ e \in g.edges
      BY <1>2 DEF NextNode, Confirmed
    <3>2. PICK i \in 2 .. Len(todo) : todo[i] = e[1]
      BY <1>2, <2>1, <2>6, <3>1 DEF NextNode, Searching
    <3>3. CASE i = 2
      BY <1>2, <2>2, <3>1, <3>2, <3>3 DEF NextNode, EdgesOf
    <3>4. CASE i > 2
      <4>1. i - 1 \in 2 .. Len(todo') /\ i - 1 \in 1 .. Len(todo) - 1 /\ (i - 1) + 1 = i
        BY <2>2, <3>2, <3>4
      <4>2. todo'[i - 1] = e[1]
        BY <2>2, <3>2, <4>1
      <4> QED BY <4>1, <4>2
    <3> QED BY <2>2, <3>2, <3>3, <3>4
  <2>7. Searching'
    BY <2>2, <2>4, <2>5, <2>6 DEF Searching
  <2> QED BY <1>2, <2>3, <2>7 DEF NextNode
<1>3. CASE Searched
  <2>1. todo # <<>> /\ Found(visited) /\ Searching
    BY <1>3 DEF Searched, Searching
  <2>2. Len(todo) = 1 /\ left = {}
    <3>1. todo \in Seq(Nodes) /\ Tail(todo) = <<>> /\ left = {}
      BY <1>3 DEF Searched, TypeOK
    <3>2. Len(Tail(todo)) = Len(todo) - 1
      BY <2>1, <3>1, TailKeeps
    <3>3. Len(todo) \in Nat
      BY <3>1, LenProperties
    <3>4. Len(Tail(todo)) = 0
      BY <3>1, EmptySeq
    <3> QED BY <3>1, <3>2, <3>3, <3>4
  <2>3. Closed(visited)
    <3>1. ~ \E i \in 2 .. Len(todo) : TRUE
      BY <2>2
    <3> QED BY <2>1, <2>2, <3>1 DEF Searching, Closed
  <2>4. Found(visited)' /\ Closed(visited)'
    BY <1>3, <2>1, <2>3 DEF Searched, Found, Reached, Hopped, Counted, Closed, Confirmed
  <2> QED BY <1>3, <2>4 DEF Searched
<1>4. CASE Adopt
  <2>1. Found(visited) /\ Closed(visited) /\ reachable' = visited /\ phase' = "mst"
    BY <1>4 DEF Adopt
  <2>2. Found(reachable)' /\ Closed(reachable)'
    BY <1>4, <2>1 DEF Adopt, Found, Reached, Hopped, Counted, Closed, Confirmed
  <2> QED BY <2>1, <2>2
<1>5. CASE Finish
  <2>1. Found(reachable)' /\ Closed(reachable)'
    BY <1>5 DEF Finish, bfs, Found, Reached, Hopped, Counted, Closed, Confirmed
  <2> QED BY <1>5, <2>1 DEF Finish
<1>6. ASSUME NEW e \in g.edges, Examine(e) PROVE SearchInv'
  <2>1. /\ phase = "sssp" /\ phase' = "sssp" /\ g' = g /\ myself' = myself
        /\ tree' = tree /\ left' = left \ {e} /\ e \in left
        /\ Found(visited) /\ Searching /\ todo # <<>>
    BY <1>6 DEF Examine, Searching
  <2>2. e[1] = Head(todo) /\ Head(todo) = todo[1] /\ Len(todo) \in Nat \ {0}
    BY <2>1, EmptySeq DEF Searching, TypeOK
  <2>3. e[1] \in visited /\ e[1] \in Nodes /\ e[2] \in Nodes
    BY <2>1, <2>2, EdgeFacts DEF Searching, TypeOK
  <2>4. Confirmed' = Confirmed
    BY <2>1 DEF Confirmed
  <2>5. CASE Better(e)
    <3>1. Update(e)
      BY <1>6, <2>5 DEF Examine
    <3>2. Found(visited)'
      BY <2>1, <2>3, <2>5, <3>1, UpdateFinds
    <3>3. /\ todo' # <<>> /\ Head(todo') = Head(todo)
          /\ Len(todo') = Len(todo) + 1
          /\ \A i \in 1 .. Len(todo) : todo'[i] = todo[i]
          /\ todo'[Len(todo) + 1] = e[2]
      BY <2>1, <2>3, <3>1, AppendKeeps DEF Update, TypeOK
    <3>4. visited' = visited \cup {e[2]}
      BY <3>1 DEF Update
    <3>5. \A i \in 1 .. Len(todo') : todo'[i] \in visited'
      BY <2>1, <2>2, <3>3, <3>4 DEF Searching
    <3>6. \A f \in left' : f[1] = Head(todo')
      BY <2>1, <3>3 DEF Searching
    <3>7. ASSUME NEW f \in Confirmed, f[1] \in visited', f[2] \notin visited'
          PROVE  f \in left' \/ \E i \in 2 .. Len(todo') : todo'[i] = f[1]
      <4>1. CASE f[1] = e[2]
        <5>1. Len(todo) + 1 \in 2 .. Len(todo')
          BY <2>2, <3>3
        <5> QED BY <3>3, <4>1, <5>1
      <4>2. CASE f[1] # e[2]
        <5>1. f # e /\ f[1] \in visited /\ f[2] \notin visited
          BY <3>4, <3>7, <4>2
        <5>2. f \in left \/ \E i \in 2 .. Len(todo) : todo[i] = f[1]
          BY <2>1, <5>1 DEF Searching
        <5>3. \A i \in 2 .. Len(todo) : i \in 2 .. Len(todo') /\ todo'[i] = todo[i]
          BY <2>2, <3>3
        <5> QED BY <2>1, <5>1, <5>2, <5>3
      <4> QED BY <4>1, <4>2
    <3>8. Searching'
      BY <2>4, <3>3, <3>5, <3>6, <3>7 DEF Searching
    <3> QED BY <2>1, <3>2, <3>8
  <2>6. CASE ~ Better(e)
    <3>1. UNCHANGED <<todo, visited, indirect, distance, nexthop, prevedge, via>>
      BY <1>6, <2>6 DEF Examine
    <3>2. Found(visited)'
      BY <2>1, <3>1 DEF Found, Reached, Hopped, Counted, Closed, Confirmed
    <3>3. e \in Confirmed => e[2] \in visited
      BY <2>1, <2>6 DEF Better, Found, Reached
    <3>4. Searching'
      BY <2>1, <2>4, <3>1, <3>3 DEF Searching
    <3> QED BY <2>1, <3>2, <3>4
  <2> QED BY <2>5, <2>6
<1>7. ASSUME NEW e \in g.edges, AddSafe(e) PROVE SearchInv'
  <2>1. Found(reachable)' /\ Closed(reachable)'
    BY <1>7 DEF AddSafe, Found, Reached, Hopped, Counted, Closed, Confirmed
  <2> QED BY <1>7, <2>1 DEF AddSafe
<1>8. CASE UNCHANGED vars
  <2>1. UNCHANGED <<g, myself, phase, todo, left, visited, distance, nexthop, reachable, tree>>
    BY <1>8 DEF vars, bfs
  <2> QED BY <2>1 DEF Found, Reached, Hopped, Counted, Closed, Confirmed, Searching
<1> QED BY <1>1, <1>2, <1>3, <1>4, <1>5, <1>6, <1>7, <1>8 DEF Next

-----------------------------------------------------------------------------
\* Two lightest edges start at the same node.
LEMMA FirstUnique ==
    ASSUME g \in AllGraphs, GraphAssumption, NEW E \in SUBSET g.edges,
           NEW e, NEW f, First(E, e), First(E, f)
    PROVE  e[1] = f[1]
<1>1. /\ e \in g.edges /\ f \in g.edges
      /\ Before(e, f) /\ Before(f, e)
  BY DEF First
<1>2. g.weight[e] \in Int /\ g.weight[f] \in Int
  BY <1>1, EdgeFacts
<1>3. e[1] \in Int /\ f[1] \in Int
  BY <1>1, EdgeFacts, GraphAssumption
<1> QED BY <1>1, <1>2, <1>3 DEF Before

\* Every step keeps the invariant of mst_kruskal: the tree connects what is visited.
LEMMA TreeStep ==
    ASSUME TypeOK, SearchInv, TreeInv, [Next]_vars
    PROVE  TreeInv'
<1> USE DEF TreeInv, Known
<1>1. CASE Begin
  BY <1>1 DEF Begin
<1>2. CASE NextNode
  BY <1>2 DEF NextNode
<1>3. CASE Searched
  BY <1>3 DEF Searched
<1>4. CASE Adopt
  <2>1. visited' \subseteq reachable' /\ phase' = "mst"
    BY <1>4 DEF Adopt
  <2>2. \A a, b \in visited' : a = b
    <3> DEFINE E == {d \in g.edges : d[1] \in visited}
    <3>1. \A a \in visited' : \E e \in EdgesOf(a) : First(E, e)
      BY <1>4 DEF Adopt
    <3>2. E \in SUBSET g.edges /\ g \in AllGraphs
      BY DEF TypeOK
    <3> HIDE DEF E
    <3>3. \A a \in visited' : \E e : e[1] = a /\ First(E, e)
      BY <3>1 DEF EdgesOf
    <3> QED BY <3>2, <3>3, FirstUnique, GraphAssumption
  <2>3. Connected'
    BY <2>2 DEF Connected
  <2> QED BY <2>1, <2>3
<1>5. CASE Finish
  BY <1>5 DEF Finish, bfs, Connected, Crosses, Safe, Confirmed
<1>6. ASSUME NEW e \in g.edges, Examine(e) PROVE TreeInv'
  BY <1>6 DEF Examine
<1>7. ASSUME NEW e \in g.edges, AddSafe(e) PROVE TreeInv'
  <2>1. /\ phase = "mst" /\ phase' = "mst" /\ reachable' = reachable
        /\ Safe(e) /\ visited' = visited \cup {e[1], e[2]}
        /\ tree' = tree \cup {e}
    BY <1>7 DEF AddSafe, First
  <2>2. Reverse(e) \in Confirmed /\ Reverse(e)[1] = e[2] /\ Reverse(e)[2] = e[1] /\ e \in Confirmed
    BY <2>1, ConfirmedFacts DEF Safe, TypeOK
  <2>3. e[1] \in reachable /\ e[2] \in reachable
    BY <2>1, <2>2 DEF SearchInv, Closed, Safe
  <2>4. Connected'
    <3>1. ASSUME NEW S \in SUBSET Nodes,
                 NEW a \in visited', a \in S, NEW b \in visited', b \notin S
          PROVE  \E f \in tree' : Crosses(f, S)
      <4>1. CASE Crosses(e, S)
        BY <2>1, <4>1
      <4>2. CASE ~ Crosses(e, S)
        <5>1. (\E c \in visited : c \in S) /\ (\E c \in visited : c \notin S)
          BY <2>1, <3>1, <4>2 DEF Crosses, Safe
        <5> QED BY <2>1, <5>1 DEF Connected
      <4> QED BY <4>1, <4>2
    <3> QED BY <3>1 DEF Connected, Crosses
  <2> QED BY <2>1, <2>3, <2>4
<1>8. CASE UNCHANGED vars
  BY <1>8 DEF vars, bfs, Connected, Crosses, Safe, Confirmed
<1> QED BY <1>1, <1>2, <1>3, <1>4, <1>5, <1>6, <1>7, <1>8 DEF Next

-----------------------------------------------------------------------------
\* The inductive invariant holds throughout every run of graph().
THEOREM GraphInvariant == Spec => []IInv
<1>1. Init => IInv
  BY TypeInit, SearchInit DEF IInv
<1>2. IInv /\ [Next]_vars => IInv'
  BY TypeStep, SearchStep, TreeStep DEF IInv
<1> QED BY <1>1, <1>2, PTL DEF Spec

\* Types are kept.
THEOREM GraphTypes == Spec => []TypeOK
BY GraphInvariant, PTL DEF IInv

\* Whatever the edges, sssp_bfs and check_reachability mark exactly the
\* nodes that are connected with myself over confirmed edges.
THEOREM Reachability == Spec => []ReachabilityExact
<1>1. IInv => ReachabilityExact
  BY DEF IInv, SearchInv, Found, Reached, ReachabilityExact
<1> QED BY <1>1, GraphInvariant, PTL

\* The abort() in sssp_bfs is unreachable.
THEOREM NeverAborts == Spec => []NoAbort
<1>1. IInv => NoAbort
  <2> SUFFICES ASSUME IInv, phase = "sssp", NEW i \in DOMAIN todo
               PROVE  distance[todo[i]] >= 0
    BY DEF NoAbort
  <2>1. i \in 1 .. Len(todo)
    BY LenProperties DEF IInv, TypeOK
  <2> QED BY <2>1 DEF IInv, SearchInv, Searching, Found, Counted
<1> QED BY <1>1, GraphInvariant, PTL

\* Whoever is reachable has a next hop with a connection.
THEOREM NexthopHasConnection == Spec => []NexthopIsPeer
<1>1. IInv => NexthopIsPeer
  BY DEF IInv, SearchInv, Found, Hopped, NexthopIsPeer
<1> QED BY <1>1, GraphInvariant, PTL

\* If mst_kruskal found a place to start, its tree connects all reachable
\* nodes, and only those.
TreeSpans ==
    phase = "done" /\ visited # {} =>
        /\ visited = reachable
        /\ \A S \in SUBSET Nodes :
              (\E a \in reachable : a \in S) /\ (\E b \in reachable : b \notin S)
                  => \E e \in tree : Crosses(e, S)

\* When mst_kruskal has returned, no set of nodes separates reachable nodes without
\* an edge of the tree (c->status.mst) that crosses its border.
THEOREM SpanningTreeConnects == Spec => []TreeSpans
<1>1. ASSUME IInv, phase = "done", visited # {} PROVE visited = reachable
  <2>1. visited \subseteq reachable /\ visited \subseteq Nodes /\ myself \in Nodes
    BY <1>1 DEF IInv, TreeInv, Known, TypeOK
  <2>2. \A e \in Confirmed : e[1] \in visited <=> e[2] \in visited
    BY <1>1 DEF IInv, TreeInv, Safe, Confirmed
  <2>3. Closed(visited) /\ Closed(Nodes \ visited)
    <3>1. \A e \in Confirmed : e[2] \in Nodes
      BY <1>1, ConfirmedFacts DEF IInv, TypeOK
    <3> QED BY <2>2, <3>1 DEF Closed
  <2>4. Reached(reachable)
    BY <1>1 DEF IInv, SearchInv, Known, Found
  <2>5. myself \in visited
    <3> SUFFICES ASSUME myself \notin visited PROVE FALSE
      OBVIOUS
    <3>1. reachable \subseteq Nodes \ visited
      BY <2>1, <2>3, <2>4 DEF Reached
    <3> QED BY <1>1, <2>1, <3>1
  <2>6. reachable \subseteq visited
    BY <2>1, <2>3, <2>4, <2>5 DEF Reached
  <2> QED BY <2>1, <2>6
<1>2. IInv => TreeSpans
  BY <1>1 DEF IInv, TreeInv, Known, Connected, TreeSpans
<1> QED BY <1>2, GraphInvariant, PTL
=============================================================================
