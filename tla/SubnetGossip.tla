---------------------------- MODULE SubnetGossip ----------------------------
(***************************************************************************)
(* How the nodes tell each other which subnets they own.  A node is the    *)
(* authority on its own subnets: it announces them (ADD_SUBNET), withdraws *)
(* them (DEL_SUBNET), and contradicts whoever says otherwise.  The others  *)
(* store what they hear and flood it; a node with StrictSubnets stores     *)
(* only what its host files list, a TunnelServer also does not pass it on. *)
(*                                                                         *)
(* A connection is here up at both ends or at neither (EdgeGossip takes    *)
(* that step apart), and a node counts as reachable when connections lead  *)
(* to it.  A handler is one step of the event loop of its node.            *)
(***************************************************************************)
EXTENDS Integers, FiniteSets, FiniteSetsExt, SequencesExt

CONSTANTS
    Daemons,    \* the nodes, as integers
    Ranges,     \* the subnets, as opaque values
    Networks    \* how behaviours begin, and bounds on what may happen to them

\* The connections at the start and those that may be made or lost, and how often; which
\* subnets who may own, who owns what at the start, and how often that may change; which are
\* learned hardware addresses; the nodes with StrictSubnets and TunnelServer and what their
\* host files list; how many purges may be asked for.
ASSUME NetworkAssumption ==
    \A w \in Networks :
        /\ \A l \in w.up \union w.links : l \subseteq Daemons /\ Cardinality(l) = 2
        /\ w.learned \subseteq Ranges /\ w.own \subseteq w.may /\ w.may \subseteq Daemons \X Ranges
        /\ w.tunnel \subseteq w.strict /\ w.strict \subseteq Daemons
        /\ w.listed \subseteq Daemons \X Ranges
        /\ {w.cuts, w.changes, w.purges} \subseteq Nat

VARIABLES
    linked,   \* the connections that are up, as pairs of nodes
    flow,     \* <<a, b>> |-> requests on their way from a to b
    known,    \* node |-> <<owner, subnet>> in its subnet trees
    handed,   \* node |-> its learned subnets that somebody else has announced (expires = 1)
    heard,    \* node |-> past_request_tree, as far as the requests are still on their way
    plan     \* one of Networks, with what is left of the bounds

gossipVars == <<linked, flow, known, handed, heard, plan>>

Channels == {p \in Daemons \X Daemons : p[1] # p[2]}
Neighbours(n) == {m \in Daemons : {n, m} \in linked}
Strict(n) == n \in plan.strict
Tunnel(n) == n \in plan.tunnel

RECURSIVE Spread(_)
Spread(S) == LET T == S \union UNION {Neighbours(n) : n \in S} IN IF T = S THEN S ELSE Spread(T)
Reached(n) == Spread({n})

Numbers(f) == UNION {{f[p][i].nonce : i \in 1 .. Len(f[p])} : p \in Channels}
FreshNumber(used) == CHOOSE i \in 1 .. Cardinality(used) + 1 : i \notin used

GossipInit ==
    /\ plan \in Networks
    /\ linked = plan.up
    /\ flow = [p \in Channels |-> <<>>]
    /\ known = [n \in Daemons |-> (IF n \in plan.strict THEN plan.listed ELSE plan.own)
                                     \union {k \in plan.own : k[1] = n}]
    /\ handed = [n \in Daemons |-> {}]
    /\ heard = [n \in Daemons |-> {}]

Request(kind, k) == [kind |-> kind, sub |-> k, nonce |-> 0]

\* A sequence of requests from n, each sent to a set of neighbours; one made up by n gets a
\* number of its own for every connection it is written to (send_request formats it once for
\* `everyone`, so the copies of one broadcast share it).
RECURSIVE Sent(_, _, _)
Sent(f, n, out) ==
    IF out = <<>> THEN f
    ELSE LET o == Head(out)
             used == Numbers(f) \union UNION {heard[m] : m \in Daemons}
             msg == IF o.msg.nonce = 0 THEN [o.msg EXCEPT !.nonce = FreshNumber(used)] ELSE o.msg
         IN  Sent([p \in Channels |-> IF p[1] = n /\ p[2] \in o.to THEN Append(f[p], msg) ELSE f[p]], n, Tail(out))

To(set, m) == <<[to |-> set, msg |-> m]>>

\* Numbers of requests that are nowhere any more are forgotten: they are not drawn again.
Remember(h, f) == [n \in Daemons |-> h[n] \cap Numbers(f)]

Sends(n, f, out) ==
    /\ flow' = Sent(f, n, out)
    /\ heard' = Remember(heard, flow')

-----------------------------------------------------------------------------
(* What a handler of node n does with a request for k = <<owner, subnet>>   *)
(* from m: its table, what it sends, and whether a learned subnet of its    *)
(* own is now somebody else's.                                              *)

Ignore(n) == [known |-> known[n], out |-> <<>>, handed |-> handed[n]]
Forward(n, m, r) == To(Neighbours(n) \ {m}, r)

add_subnet_h_Meek(n, m, r) ==
    LET k == r.sub IN
    IF k \in known[n] \/ k[1] = n THEN Ignore(n)
    ELSE [known |-> known[n] \union {k}, out |-> Forward(n, m, r), handed |-> handed[n]]

add_subnet_h(n, m, r) ==
    LET k == r.sub IN
    CASE Tunnel(n) /\ k[1] \notin {n, m} -> Ignore(n)
      [] k \in known[n] -> Ignore(n)
      [] k[1] = n -> [Ignore(n) EXCEPT !.out = To({m}, Request("DEL_SUBNET", k))]
      [] Tunnel(n) -> Ignore(n)
      [] Strict(n) -> [Ignore(n) EXCEPT !.out = Forward(n, m, r)]
      [] OTHER -> [known  |-> known[n] \union {k},
                   out    |-> Forward(n, m, r),
                   handed |-> IF k[2] \in plan.learned /\ <<n, k[2]>> \in known[n]
                                  THEN handed[n] \union {k[2]} ELSE handed[n]]

del_subnet_h_AnyoneObjects(n, m, r) ==
    LET k == r.sub IN
    IF k \notin known[n] THEN Ignore(n)
    ELSE [Ignore(n) EXCEPT !.out = To({m}, Request("ADD_SUBNET", k))]

del_subnet_h(n, m, r) ==
    LET k == r.sub IN
    CASE Tunnel(n) /\ k[1] \notin {n, m} -> Ignore(n)
      [] k \notin known[n] -> [Ignore(n) EXCEPT !.out = IF Strict(n) THEN Forward(n, m, r) ELSE <<>>]
      [] k[1] = n -> [Ignore(n) EXCEPT !.out = To({m}, Request("ADD_SUBNET", k))]
      [] Tunnel(n) -> Ignore(n)
      [] Strict(n) -> [Ignore(n) EXCEPT !.out = Forward(n, m, r)]
      [] OTHER -> [Ignore(n) EXCEPT !.out = Forward(n, m, r), !.known = @ \ {k}]

Handle(m, n) ==
    /\ flow[<<m, n>>] # <<>>
    /\ LET r == Head(flow[<<m, n>>])
           f == [flow EXCEPT ![<<m, n>>] = Tail(@)]
       IN  IF r.nonce \in heard[n]
           THEN /\ flow' = f /\ heard' = Remember(heard, f)
                /\ UNCHANGED <<known, handed>>
           ELSE \E x \in {IF r.kind = "ADD_SUBNET" THEN add_subnet_h(n, m, r) ELSE del_subnet_h(n, m, r)} :
                   /\ known' = [known EXCEPT ![n] = x.known]
                   /\ handed' = [handed EXCEPT ![n] = x.handed]
                   /\ flow' = Sent(f, n, x.out)
                   /\ heard' = Remember([heard EXCEPT ![n] = @ \union {r.nonce}], flow')
    /\ UNCHANGED <<linked, plan>>

-----------------------------------------------------------------------------
\* learn_mac, and a reload that finds a new Subnet in our own host file
Announce(n, s) ==
    /\ plan.changes > 0 /\ <<n, s>> \in plan.may \ known[n]
    /\ plan' = [plan EXCEPT !.changes = @ - 1]
    /\ known' = [known EXCEPT ![n] = @ \union {<<n, s>>}]
    /\ Sends(n, flow, To(Neighbours(n), Request("ADD_SUBNET", <<n, s>>)))
    /\ UNCHANGED <<linked, handed>>

Withdrawn(n, s) ==
    /\ known' = [known EXCEPT ![n] = @ \ {<<n, s>>}]
    /\ handed' = [handed EXCEPT ![n] = @ \ {s}]
    /\ Sends(n, flow, To(Neighbours(n), Request("DEL_SUBNET", <<n, s>>)))

\* a reload that misses a Subnet, or a learned address nobody uses any more
Withdraw(n, s) ==
    /\ plan.changes > 0 /\ <<n, s>> \in known[n] /\ s \notin handed[n]
    /\ plan' = [plan EXCEPT !.changes = @ - 1]
    /\ Withdrawn(n, s)
    /\ UNCHANGED linked

\* age_subnets: what was handed over has expired.
Age(n) ==
    /\ \E s \in handed[n] : Withdrawn(n, s)
    /\ UNCHANGED <<linked, plan>>

\* The subnets of every node, in the order of the trees; a tunnel server sends its own.
send_everything(n, m) ==
    LET subs == SetToSeq({k \in known[n] : Tunnel(n) => k[1] = n})
    IN  [i \in 1 .. Len(subs) |-> [to |-> {m}, msg |-> Request("ADD_SUBNET", subs[i])]]

Connect(l) ==
    /\ plan.cuts > 0 /\ l \in plan.links \ linked
    /\ plan' = [plan EXCEPT !.cuts = @ - 1]
    /\ linked' = linked \union {l}
    /\ LET a == Min(l)  b == Max(l)
       IN  flow' = Sent(Sent(flow, a, send_everything(a, b)), b, send_everything(b, a))
    /\ heard' = Remember(heard, flow')
    /\ UNCHANGED <<known, handed>>

\* terminate_connection at both ends: what was on its way is lost.
Disconnect(l) ==
    /\ plan.cuts > 0 /\ l \in linked \cap plan.links
    /\ plan' = [plan EXCEPT !.cuts = @ - 1]
    /\ linked' = linked \ {l}
    /\ flow' = [p \in Channels |-> IF {p[1], p[2]} = l THEN <<>> ELSE flow[p]]
    /\ heard' = Remember(heard, flow')
    /\ UNCHANGED <<known, handed>>

\* The subnets of unreachable nodes
purge(n) == {k \in known[n] : k[1] \notin Reached(n)}

Purge(n) ==
    /\ plan.purges > 0 /\ purge(n) # {}
    /\ plan' = [plan EXCEPT !.purges = @ - 1]
    /\ LET gone == SetToSeq(purge(n))
       IN  Sends(n, flow, [i \in 1 .. Len(gone) |->
                              [to |-> Neighbours(n), msg |-> Request("DEL_SUBNET", gone[i])]])
    /\ known' = IF Strict(n) THEN known ELSE [known EXCEPT ![n] = @ \ purge(n)]
    /\ UNCHANGED <<linked, handed>>

GossipNext ==
    \/ \E p \in Channels : Handle(p[1], p[2])
    \/ \E n \in Daemons, s \in Ranges : Announce(n, s) \/ Withdraw(n, s)
    \/ \E n \in Daemons : Age(n) \/ Purge(n)
    \/ \E l \in plan.links : Connect(l) \/ Disconnect(l)

-----------------------------------------------------------------------------
GossipQuiet == (\A p \in Channels : flow[p] = <<>>) /\ \A n \in Daemons : handed[n] = {}

\* Tables hold known subnets, requests go over connections that are up.
GossipTypeOK ==
    /\ linked \subseteq plan.up \union plan.links
    /\ \A n \in Daemons : known[n] \subseteq Daemons \X Ranges /\ handed[n] \subseteq plan.learned
    /\ \A n \in Daemons : \A s \in handed[n] : <<n, s>> \in known[n]
    /\ \A p \in Channels : flow[p] # <<>> => {p[1], p[2]} \in linked

\* When everything sent has been handled, a node knows exactly the subnets of every node it
\* can reach, whatever was cut, joined, learned elsewhere or purged before (unless a node has
\* been told to trust its host files instead).
SubnetsAgree ==
    (GossipQuiet /\ plan.strict = {}) =>
        \A n \in Daemons : \A o \in Reached(n), s \in Ranges :
            <<o, s>> \in known[n] <=> <<o, s>> \in known[o]

\* A node with StrictSubnets routes to what its host files list and to nothing else, and keeps
\* listing it through denials by the owner and through purges.
StrictHolds ==
    \A n \in plan.strict : {k \in known[n] : k[1] # n} = {k \in plan.listed : k[1] # n}

\* Contradictions end: an announcement that its owner denies, and a denial that its owner
\* contradicts, die out.
GossipEnds == <>[]GossipQuiet

\* Once everything sent has been handled the nodes that reach each other agree on subnets, and a
\* node with StrictSubnets holds to its host files at all times.
GossipSound ==
    /\ GossipTypeOK
    /\ SubnetsAgree /\ StrictHolds
=============================================================================
