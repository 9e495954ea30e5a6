----------------------------- MODULE EdgeGossip -----------------------------
(***************************************************************************)
(* How the nodes of a VPN tell each other which meta connections exist.    *)
(* Every node keeps a table of directed edges and is the authority on the  *)
(* edges that leave itself: it announces one (ADD_EDGE) when a connection  *)
(* is activated by an ACK, withdraws it (DEL_EDGE) when the connection     *)
(* ends, and contradicts whoever says otherwise.  Everyone else stores     *)
(* what it hears and floods it over its other connections; a request is    *)
(* recognised as already seen by the random number it carries.             *)
(*                                                                         *)
(* A connection is a TCP stream: two sockets, one at each end, and a FIFO  *)
(* of requests towards each.  The event loop of a node handles one request *)
(* at a time, so a handler is one step.  A socket may be closed at any     *)
(* moment, by a ping timeout, an I/O error or an operator; what the closer *)
(* had not flushed yet is then lost.                                       *)
(***************************************************************************)
EXTENDS Integers, FiniteSets, FiniteSetsExt, SequencesExt

CONSTANTS
    Nodes,      \* the daemons, as integers
    Conns,      \* identities of the connections made during a behaviour
    Attrs,      \* what an edge carries: address, options and weight
    Plans       \* how behaviours begin, and bounds on what may happen to them

Pairs == {p \in Nodes \X Nodes : p[1] # p[2]}

\* What is connected at the start, and what some node still remembers of lost
\* connections; the pairs that may connect later, up to how many connections in
\* all; the nodes that may close a socket for a reason outside the model, how
\* often, and how many requests a closed socket may take with it.
ASSUME GossipAssumption ==
    /\ Attrs \subseteq Nat \ {0} /\ 1 \in Attrs
    /\ Conns = 1 .. Cardinality(Conns)
    /\ \A p \in Plans :
          /\ p.start \in Seq(Pairs) /\ Len(p.start) <= p.conns
          /\ p.remembered \subseteq Nodes \X Pairs
          /\ p.joinable \subseteq Pairs /\ p.conns <= Cardinality(Conns)
          /\ p.quitters \subseteq Nodes /\ p.quits \in Nat /\ p.lost \in Nat

VARIABLES
    ends,    \* connection |-> the two nodes it joins, <<>> before it is made
    attr,    \* connection |-> attributes its two edges get
    socket,  \* <<connection, node>> |-> connection_t at that node
    queue,   \* <<connection, node>> |-> requests on their way to that node
    edges,   \* node |-> edge |-> attributes in that node's table, 0 if absent
    seen,    \* node |-> past_request_tree
    plan     \* one of Plans, with the number of quits left

vars == <<ends, attr, socket, queue, edges, seen, plan>>

Sockets == Conns \X Nodes
Absent == 0
Ack == [kind |-> "ACK"]
Eof == [kind |-> "EOF"]
Add(e, a, nonce) == [kind |-> "ADD_EDGE", edge |-> e, attr |-> a, nonce |-> nonce]
Del(e, nonce) == [kind |-> "DEL_EDGE", edge |-> e, nonce |-> nonce]

Joins(c, n) == ends[c] # <<>> /\ n \in Range(ends[c])
Peer(c, n) == CHOOSE m \in Range(ends[c]) : m # n

Init ==
    /\ plan \in Plans
    /\ ends = [c \in Conns |-> IF c <= Len(plan.start) THEN plan.start[c] ELSE <<>>]
    /\ attr = [c \in Conns |-> 1]
    /\ socket = [s \in Sockets |-> IF Joins(s[1], s[2]) THEN "active" ELSE "none"]
    /\ queue = [s \in Sockets |-> <<>>]
    /\ edges = [n \in Nodes |-> [e \in Pairs |->
                    IF <<n, e>> \in plan.remembered \/ \E c \in Conns : Range(ends[c]) = Range(e)
                        THEN attr[1] ELSE Absent]]
    /\ seen = [n \in Nodes |-> {}]

-----------------------------------------------------------------------------
(***************************************************************************)
(* A handler transforms the state of the node that runs it: its edge       *)
(* table, its connections that have an edge, the connections it has        *)
(* deleted, and what it has sent, in order.                                *)
(***************************************************************************)

Local(n) ==
    [node   |-> n,
     edges  |-> edges[n],
     active |-> {c \in Conns : socket[c, n] = "active"},
     gone   |-> {},
     out    |-> <<>>]

\* A request that its sender makes up, rather than forwards, has no number yet.
Fresh == 0

\* send_request to a set of connections, forward_request, broadcast_meta
Tell(r, cs, m) == [r EXCEPT !.out = Append(@, [to |-> cs, msg |-> m])]

EdgeDel(r, e) == [r EXCEPT !.edges[e] = Absent]

\* The nodes sssp_bfs visits: those joined to `r.node` by edges with a reverse.
Reachable(r) ==
    LET Linked(a, b) == r.edges[<<a, b>>] # Absent /\ r.edges[<<b, a>>] # Absent
    IN  {m \in Nodes : \A S \in SUBSET Nodes :
            (r.node \in S /\ \A a \in S, b \in Nodes \ S : ~Linked(a, b)) => m \in S}

\* "If the node is not reachable anymore but we remember it had an edge to us, clean it up"
CleanUp(r, m) ==
    IF m \notin Reachable(r) /\ r.edges[<<m, r.node>>] # Absent
        THEN EdgeDel(Tell(r, r.active, Del(<<m, r.node>>, Fresh)), <<m, r.node>>)
        ELSE r

terminate_connection_Quiet(r, c, report) ==
    LET e == <<r.node, Peer(c, r.node)>>
        cut == [EdgeDel(r, e) EXCEPT !.active = @ \ {c}]
    IN  [(IF c \in r.active THEN cut ELSE r) EXCEPT !.gone = @ \union {c}]

terminate_connection(r, c, report) ==
    LET e == <<r.node, Peer(c, r.node)>>
        told == IF report THEN Tell(r, r.active, Del(e, Fresh)) ELSE r
        cut == [EdgeDel(told, e) EXCEPT !.active = @ \ {c}]
        done == IF c \notin r.active THEN r
                ELSE IF report THEN CleanUp(cut, e[2])
                ELSE cut
    IN  [done EXCEPT !.gone = @ \union {c}]

\* The edges in the order of the two splay trees that hold them.
InOrder ==
    LET UpTo(e) == {d \in Pairs : d[1] < e[1] \/ (d[1] = e[1] /\ d[2] <= e[2])}
    IN  [i \in 1 .. Cardinality(Pairs) |-> CHOOSE e \in Pairs : Cardinality(UpTo(e)) = i]

\* One ADD_EDGE, with a number of its own, for every edge in the table.
send_everything(r, c) ==
    FoldLeft(LAMBDA x, e : Tell(x, {c}, Add(e, r.edges[e], Fresh)), r,
             SelectSeq(InOrder, LAMBDA e : r.edges[e] # Absent))

\* A second connection with the same node replaces the first without a report.
ack_h(r, c) ==
    LET e == <<r.node, Peer(c, r.node)>>
        old == {d \in r.active : Peer(d, r.node) = e[2]}
        alone == IF old = {} THEN r ELSE terminate_connection(r, CHOOSE d \in old : TRUE, FALSE)
        greeted == send_everything(alone, c)
        joined == [greeted EXCEPT !.edges[e] = attr[c], !.active = @ \union {c}]
    IN  Tell(joined, joined.active, Add(e, attr[c], Fresh))

add_edge_h_BothEnds(r, c, m) ==
    IF r.edges[m.edge] = m.attr THEN r
    ELSE IF r.node \in Range(m.edge)
        THEN Tell(r, {c}, IF r.edges[m.edge] # Absent
                              THEN Add(m.edge, r.edges[m.edge], Fresh)
                              ELSE Del(m.edge, Fresh))
        ELSE Tell([r EXCEPT !.edges[m.edge] = m.attr], r.active \ {c}, m)

add_edge_h(r, c, m) ==
    IF r.edges[m.edge] = m.attr THEN r
    ELSE IF m.edge[1] = r.node
        THEN Tell(r, {c}, IF r.edges[m.edge] # Absent
                              THEN Add(m.edge, r.edges[m.edge], Fresh)
                              ELSE Del(m.edge, Fresh))
        ELSE Tell([r EXCEPT !.edges[m.edge] = m.attr], r.active \ {c}, m)

del_edge_h(r, c, m) ==
    IF r.edges[m.edge] = Absent THEN r
    ELSE IF m.edge[1] = r.node THEN Tell(r, {c}, Add(m.edge, r.edges[m.edge], Fresh))
    ELSE CleanUp(EdgeDel(Tell(r, r.active \ {c}, m), m.edge), m.edge[2])

-----------------------------------------------------------------------------
(***************************************************************************)
(* Running a handler and delivering what it sent.                          *)
(***************************************************************************)

Flooded(m) == m.kind \in {"ADD_EDGE", "DEL_EDGE"}

\* The numbers of the requests in a set of queues.
InFlight(q) == {m.nonce : m \in {x \in UNION {Range(q[s]) : s \in Sockets} : Flooded(x)}}

\* prng() gives every new request a number that no request in flight has: here
\* the smallest one that is free.
Numbered(out, used) ==
    LET IsNew(i) == Flooded(out[i].msg) /\ out[i].msg.nonce = Fresh
        free == (1 .. Cardinality(used) + Len(out)) \ used
        number(i) == CHOOSE k \in free :
            Cardinality({j \in free : j <= k}) = Cardinality({j \in 1 .. i : IsNew(j)})
    IN  [i \in DOMAIN out |->
            IF IsNew(i) THEN [out[i] EXCEPT !.msg.nonce = number(i)] ELSE out[i]]

\* The requests in `out` that went to connection `c`.
On(c, out) ==
    LET mine == SelectSeq(out, LAMBDA o : c \in o.to)
    IN  [i \in DOMAIN mine |-> mine[i].msg]

\* The state after the node `r.node` ran a handler with outcome `r`, `q` being the
\* queues without the request it took and `heard` the number of that request.
\* The peer of a connection that it closed gets a prefix of what was under way.
Commit(r, q, heard) ==
    \E out \in {Numbered(r.out, InFlight(queue))}, lost \in [r.gone -> 0 .. plan.lost] :
        /\ \A c \in r.gone : lost[c] <= Len(queue[c, Peer(c, r.node)])
        /\ queue' = [s \in Sockets |->
                IF s[2] = r.node THEN IF s[1] \in r.gone THEN <<>> ELSE q[s]
                ELSE IF ~Joins(s[1], r.node) \/ socket[s] \notin {"auth", "active"} THEN q[s]
                ELSE IF s[1] \in r.gone THEN SubSeq(q[s], 1, Len(q[s]) - lost[s[1]]) \o <<Eof>>
                ELSE q[s] \o On(s[1], out)]
        /\ socket' = [s \in Sockets |->
                IF s[2] # r.node THEN socket[s]
                ELSE IF s[1] \in r.gone THEN "closed"
                ELSE IF s[1] \in r.active THEN "active"
                ELSE socket[s]]
        /\ edges' = [edges EXCEPT ![r.node] = r.edges]
        /\ \E live \in {InFlight(queue')} :
              seen' = [n \in Nodes |->
                (IF n = r.node THEN seen[n] \union heard ELSE seen[n]) \intersect live]
        /\ UNCHANGED <<ends, attr>>

-----------------------------------------------------------------------------
\* Two nodes authenticate a new connection; each has sent its ACK.  Attributes
\* are only ever compared, so those of the first connection may be called 1.
Connect(c, p, a) ==
    /\ c <= plan.conns /\ a <= c
    /\ ends[c] = <<>> /\ \A d \in Conns : d < c => ends[d] # <<>>
    /\ ends' = [ends EXCEPT ![c] = p]
    /\ attr' = [attr EXCEPT ![c] = a]
    /\ socket' = [s \in Sockets |-> IF s[1] = c /\ s[2] \in Range(p) THEN "auth" ELSE socket[s]]
    /\ queue' = [s \in Sockets |-> IF s[1] = c /\ s[2] \in Range(p) THEN <<Ack>> ELSE queue[s]]
    /\ UNCHANGED <<edges, seen, plan>>

\* receive_request: seen_request is the first thing both flooding handlers do.
Handled(n, c, m) ==
    CASE m.kind = "ACK" -> ack_h(Local(n), c)
      [] m.kind = "EOF" -> terminate_connection(Local(n), c, socket[c, n] = "active")
      [] m.kind = "ADD_EDGE" -> IF m.nonce \in seen[n] THEN Local(n) ELSE add_edge_h(Local(n), c, m)
      [] m.kind = "DEL_EDGE" -> IF m.nonce \in seen[n] THEN Local(n) ELSE del_edge_h(Local(n), c, m)

Receive(c, n) ==
    /\ queue[c, n] # <<>>
    /\ \E m \in {Head(queue[c, n])} : \E r \in {Handled(n, c, m)} :
          Commit(r, [queue EXCEPT ![c, n] = Tail(@)], IF Flooded(m) THEN {m.nonce} ELSE {})
    /\ UNCHANGED plan

\* A ping timeout, an I/O error or a disconnect command at one end.
Terminate(c, n) ==
    /\ n \in plan.quitters /\ plan.quits > 0
    /\ plan' = [plan EXCEPT !.quits = @ - 1]
    /\ socket[c, n] \in {"auth", "active"}
    /\ \E r \in {terminate_connection(Local(n), c, socket[c, n] = "active")} :
          Commit(r, queue, {})

Next ==
    \/ \E c \in Conns, p \in plan.joinable, a \in Attrs : Connect(c, p, a)
    \/ \E c \in Conns, n \in Nodes : Receive(c, n) \/ Terminate(c, n)

\* The event loop of every node goes on reading its sockets.
Spec ==
    /\ Init /\ [][Next]_vars
    /\ WF_vars(\E c \in Conns, n \in Nodes : Receive(c, n))

-----------------------------------------------------------------------------
Messages ==
    {Ack, Eof} \union [kind : {"ADD_EDGE"}, edge : Pairs, attr : Attrs, nonce : Nat \ {0}]
               \union [kind : {"DEL_EDGE"}, edge : Pairs, nonce : Nat \ {0}]

\* Every variable has its type; a request that has been announced carries the
\* attributes of an edge that exists, never those of a missing one.
TypeOK ==
    /\ ends \in [Conns -> Pairs \union {<<>>}]
    /\ attr \in [Conns -> Attrs]
    /\ socket \in [Sockets -> {"none", "auth", "active", "closed"}]
    /\ \A s \in Sockets : \A i \in DOMAIN queue[s] : queue[s][i] \in Messages
    /\ edges \in [Nodes -> [Pairs -> Attrs \union {Absent}]]
    /\ \A n \in Nodes : seen[n] \subseteq Nat
    /\ plan.quits \in Nat

Quiet == \A s \in Sockets : queue[s] = <<>>

\* The nodes that the live connections join to `n`.
Component(n) ==
    {m \in Nodes : \A S \in SUBSET Nodes :
        (n \in S /\ \A c \in Conns : \A a \in S, b \in Nodes \ S :
            ~(socket[c, a] = "active" /\ socket[c, b] = "active")) => m \in S}

\* A node's own edges are its connections, one edge for each peer.
OwnEdges ==
    \A n, m \in Nodes : n # m =>
        edges[n][<<n, m>>] =
            LET cs == {c \in Conns : socket[c, n] = "active" /\ Peer(c, n) = m}
            IN  IF cs = {} THEN Absent ELSE attr[CHOOSE c \in cs : TRUE]

\* No ACK or end of a connection is under way, nor anything about these edges.
Settled(es) ==
    \A s \in Sockets : \A i \in DOMAIN queue[s] :
        Flooded(queue[s][i]) /\ queue[s][i].edge \notin es

\* Node `n` can judge the edge `e`: it is connected to where the edge leaves, and
\* nothing that is still under way is about the edge.
Judges(n, e) == Settled({e}) /\ e[1] \in Component(n)

\* doc/CONNECTIVITY: "every node will eventually know every connection every node
\* has on the VPN", with its attributes.
ConnectionsKnown ==
    \A n \in Nodes, e \in Pairs :
        (edges[e[1]][e] \notin {Absent, edges[n][e]}) => ~Judges(n, e)

\* doc/CONNECTIVITY: "after a short amount of time all tinc daemons share the
\* same information": nor does anyone remember an edge that is gone.
GoneForgotten ==
    \A n \in Nodes, e \in Pairs :
        (edges[e[1]][e] = Absent /\ edges[n][e] # Absent) => ~Judges(n, e)

\* "It will also almost completely prevent information from looping": once
\* connections stop coming and going, the flood ends.
DiesOut == <>[]Quiet

\* Where nothing about an edge is under way, everyone who can hear of it has it right: a node its
\* own edges, others the edges that there are and none that are gone.
TablesAgree ==
    /\ TypeOK /\ OwnEdges
    /\ ConnectionsKnown /\ GoneForgotten
=============================================================================
