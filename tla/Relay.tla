------------------------------- MODULE Relay -------------------------------
(***************************************************************************)
(* Records of an SPTPS session between two nodes, carried by others: each  *)
(* hop goes over UDP when the record is no larger than what is known to    *)
(* get through, over the meta connection of the next hop when not.  Who    *)
(* gets a record over a relay tells the sender how to do better: UDP_INFO  *)
(* with the address under which it was last seen, MTU_INFO with the size   *)
(* that the relays can carry.                                              *)
(*                                                                         *)
(* The routes (nexthop, via) do not change; discovering UDP and the MTU is *)
(* a step each here (see UdpTunnel).                                       *)
(***************************************************************************)
EXTENDS Integers, Sequences, FiniteSets, FiniteSetsExt, Bags

CONSTANTS
    Stations,   \* nodes
    FullMtu,    \* MTU
    LeastMtu,   \* 512: what MTU_INFO must say at least
    RelayNetworks    \* the networks, see below

VARIABLES
    net,      \* one of RelayNetworks
    know,     \* know[n][m]: what n has in its node_t of m
    wire,     \* records under way over UDP
    line,     \* line[n][m]: what is under way over the meta connection from n to m
    told,     \* <<n, m, kind>>: n sent m a kind of info less than an interval ago
    issued,   \* records sent so far
    accepted  \* records that arrived, a bag of <<number, from, to>>

relayVars == <<net, know, wire, line, told, issued, accepted>>

\* Of a network: nexthop[n][m], via[n][m], peers[n] (meta connections), blocked (pairs between which no
\* UDP gets through), path[n][m] (largest record), nat (nodes seen under another address than they
\* know of), keys (<<n, m>>: n has a key for m), tcponly, settled (all peers have found out about each other), flows (<<from, to, length>>),
\* sends (how many records), intervals (how often the interval passes).

Own(m) == <<m, "own">>
SeenAs(m) == <<m, IF m \in net.nat THEN "nat" ELSE "own">>

Unknown(address) == [confirmed |-> FALSE, minmtu |-> 0, maxmtu |-> FullMtu, mtu |-> FullMtu, address |-> address]
Measured(m, size) == [confirmed |-> TRUE, minmtu |-> size, maxmtu |-> size, mtu |-> size, address |-> SeenAs(m)]

RelayInit ==
    /\ net \in RelayNetworks
    /\ know = [n \in Stations |-> [m \in Stations |->
                  IF net.settled /\ m \in net.peers[n] /\ <<n, m>> \notin net.blocked
                      THEN Measured(m, net.path[n][m]) ELSE Unknown(Own(m))]]
    /\ wire = {} /\ line = [n \in Stations |-> [m \in Stations |-> <<>>]] /\ told = {} /\ issued = 0 /\ accepted = EmptyBag

NodeOrHop(n, m) == IF net.via[n][m] = n THEN net.nexthop[n][m] ELSE net.via[n][m]

-----------------------------------------------------------------------------
\* send_sptps_data: the hop that a record takes from n
send_sptps_data_HopSize(n, r) ==
    LET via == net.via[n][r.to]
        hop == net.nexthop[n][r.to]
        relay == IF via # n /\ r.len <= know[n][hop].minmtu THEN via ELSE hop
    IN  IF net.tcponly \/ r.len > know[n][hop].minmtu
            THEN [r EXCEPT !.at = hop, !.prev = n, !.udp = FALSE]
            ELSE [r EXCEPT !.at = relay, !.prev = n, !.udp = TRUE, !.direct = (r.from = n /\ r.to = relay)]

send_sptps_data(n, r) ==
    LET via == net.via[n][r.to]
        relay == IF via # n /\ r.len <= know[n][via].minmtu THEN via ELSE net.nexthop[n][r.to]
    IN  IF net.tcponly \/ r.len > know[n][relay].minmtu
            THEN [r EXCEPT !.at = net.nexthop[n][r.to], !.prev = n, !.udp = FALSE]
            ELSE [r EXCEPT !.at = relay, !.prev = n, !.udp = TRUE, !.direct = (r.from = n /\ r.to = relay)]

\* Info messages go along next hops; nothing is sent where it makes no sense.
Skip(n, from, to, kind) ==
    \/ to = n
    \/ from = n /\ (to \in net.peers[n] \/ <<n, to, kind>> \in told)

Info(n, kind, from, to, value) ==
    <<[kind |-> kind, from |-> from, to |-> to, at |-> net.nexthop[n][to], udp |-> FALSE, value |-> value]>>

\* with the address that n has for from
send_udp_info(n, from, to, address) ==
    LET target == NodeOrHop(n, to)
    IN  IF Skip(n, from, target, "udp") \/ net.tcponly THEN <<>> ELSE Info(n, "udp", from, target, address)

Fixed(k) == k.minmtu = k.maxmtu

\* The MTU to pass on: an own measurement, or what the relays leave of it
BetterMtu(n, from, mtu) ==
    LET via == NodeOrHop(n, from)
        hop == net.nexthop[n][via]
    IN  IF Fixed(know[n][from]) /\ net.via[n][from] = n THEN know[n][from].minmtu
        ELSE IF Fixed(know[n][via]) THEN Min({mtu, know[n][via].minmtu})
        ELSE IF Fixed(know[n][hop]) THEN Min({mtu, know[n][hop].minmtu})
        ELSE mtu

send_mtu_info(n, from, to, mtu) ==
    IF Skip(n, from, to, "mtu") THEN <<>> ELSE Info(n, "mtu", from, to, BetterMtu(n, from, mtu))

\* n sends messages: records over UDP, or over the meta connection of the next hop in order, and notes
\* when it sent info of its own.
Emits(n, out, udp, queues) ==
    LET tcp(x) == ~x.udp
        mine == {i \in 1 .. Len(out) : out[i].kind # "data" /\ out[i].from = n}
    IN  /\ wire' = udp \union {out[i] : i \in {j \in 1 .. Len(out) : out[j].udp}}
        /\ line' = [queues EXCEPT ![n] = [m \in Stations |->
                        @[m] \o SelectSeq(out, LAMBDA x : tcp(x) /\ x.at = m)]]
        /\ told' = told \union {<<n, out[i].to, out[i].kind>> : i \in mine}

\* update_node_udp
update_node_udp(k, address) == [Unknown(address) EXCEPT !.mtu = k.mtu]

-----------------------------------------------------------------------------
\* A node sends a record of its own; try_tx is Discover and Measure.
IssueRecord(from, to, len) ==
    /\ <<from, to, len>> \in net.flows /\ issued < net.sends
    /\ issued' = issued + 1
    /\ Emits(from, <<send_sptps_data(from,
            [kind |-> "data", id |-> issued + 1, from |-> from, to |-> to, len |-> len,
             at |-> from, prev |-> from, udp |-> FALSE, direct |-> FALSE])>>, wire, line)
    /\ UNCHANGED <<net, know, accepted>>

Delivered(r) == accepted' = accepted (+) SetToBag({<<r.id, r.from, r.to>>})

\* handle_incoming_vpn_packet: who sent the datagram that n got from an address
Identified(n, r) == know[n][r.prev].confirmed \/ r.direct

\* A node that sent a datagram directly, whoever it was thought to be, is at the address it came from.
Met(k, m) == IF k.address = SeenAs(m) THEN k ELSE update_node_udp(k, SeenAs(m))

handle_incoming_vpn_packet(r) ==
    LET n == r.at
        info == IF r.prev # net.via[n][r.from] /\ net.via[n][r.to] = n THEN send_udp_info(n, n, r.from, Own(n)) ELSE <<>>
        help == IF r.direct THEN <<>> ELSE send_mtu_info(n, n, r.prev, FullMtu)
    IN  /\ \/ /\ ~Identified(n, r)
              /\ Emits(n, <<>>, wire \ {r}, line) /\ UNCHANGED <<know, accepted>>
           \/ /\ Identified(n, r) /\ r.to # n
              /\ Emits(n, Append(info, send_sptps_data(n, r)), wire \ {r}, line) /\ UNCHANGED <<know, accepted>>
           \/ /\ Identified(n, r) /\ r.to = n
              /\ Emits(n, info \o help, wire \ {r}, line) /\ Delivered(r)
              /\ know' = IF r.direct THEN [know EXCEPT ![n][r.prev] = Met(@, r.prev)] ELSE know
        /\ UNCHANGED <<net, issued>>

\* What came over the meta connection from p; a relay without a key for the other end drops it.
receive_tcppacket_sptps(n, r, rest) ==
    LET info == IF net.via[n][r.to] = n THEN send_udp_info(n, n, r.from, Own(n)) ELSE <<>>
        relayed == IF <<n, r.to>> \in net.keys THEN <<send_sptps_data(n, r)>> ELSE <<>>
    IN  /\ \/ /\ r.to # n
              /\ Emits(n, info \o relayed, wire, rest) /\ UNCHANGED accepted
           \/ /\ r.to = n
              /\ Emits(n, info \o send_mtu_info(n, n, r.from, FullMtu), wire, rest) /\ Delivered(r)
        /\ UNCHANGED <<net, know, issued>>

udp_info_h(n, i, rest) ==
    LET k == know[n][i.from]
        learns == i.from \notin net.peers[n] /\ ~k.confirmed /\ k.address # i.value
        now == IF learns THEN update_node_udp(k, i.value) ELSE k
    IN  /\ \/ i.from # net.via[n][i.from] /\ Emits(n, <<>>, wire, rest) /\ UNCHANGED know
           \/ /\ i.from = net.via[n][i.from]
              /\ know' = [know EXCEPT ![n][i.from] = now]
              /\ Emits(n, send_udp_info(n, i.from, i.to, now.address), wire, rest)
        /\ UNCHANGED <<net, issued, accepted>>

\* terminate_connection, as far as the two ends go that lose it
Closed(p, n) ==
    /\ net' = [net EXCEPT !.peers[p] = @ \ {n}, !.peers[n] = @ \ {p}]
    /\ line' = [line EXCEPT ![p][n] = <<>>, ![n][p] = <<>>]

mtu_info_h(n, i, rest) ==
    LET k == know[n][i.from]
        mtu == Min({i.value, FullMtu})
    IN  /\ know' = IF k.mtu # mtu /\ ~Fixed(k) THEN [know EXCEPT ![n][i.from].mtu = mtu] ELSE know
        /\ Emits(n, send_mtu_info(n, i.from, i.to, mtu), wire, rest)
        /\ UNCHANGED <<net, issued, accepted>>

ReceiveMeta(p, n) ==
    /\ line[p][n] # <<>>
    /\ LET x == Head(line[p][n])
           rest == [line EXCEPT ![p][n] = Tail(@)]
       IN  \/ x.kind = "mtu" /\ x.value < LeastMtu /\ Closed(p, n) /\ UNCHANGED <<know, wire, told, issued, accepted>>
           \/ x.kind = "data" /\ receive_tcppacket_sptps(n, x, rest)
           \/ x.kind = "udp" /\ udp_info_h(n, x, rest)
           \/ x.kind = "mtu" /\ x.value >= LeastMtu /\ mtu_info_h(n, x, rest)

\* A probe from n reaches m, and its answer n; either side may see a new address.  A probe goes to
\* the address held, or to one from an edge.
Discover(n, m) ==
    /\ n # m /\ <<n, m>> \notin net.blocked /\ <<m, n>> \notin net.blocked /\ ~net.tcponly
    /\ NodeOrHop(n, m) = m
    /\ SeenAs(m) \in {know[n][m].address, Own(m)} /\ ~know[n][m].confirmed
    /\ know' = [know EXCEPT
            ![n][m] = IF @.address = SeenAs(m) THEN [@ EXCEPT !.confirmed = TRUE] ELSE Met(@, m),
            ![m][n] = Met(@, n)]
    /\ UNCHANGED <<net, wire, line, told, issued, accepted>>

Measure(n, m) ==
    /\ know[n][m].confirmed /\ ~Fixed(know[n][m])
    /\ know' = [know EXCEPT ![n][m] = Measured(m, net.path[n][m])]
    /\ UNCHANGED <<net, wire, line, told, issued, accepted>>

Interval ==
    /\ told # {} /\ net.intervals > 0
    /\ told' = {} /\ net' = [net EXCEPT !.intervals = @ - 1]
    /\ UNCHANGED <<know, wire, line, issued, accepted>>

RelayNext ==
    \/ \E f \in net.flows : IssueRecord(f[1], f[2], f[3])
    \/ \E r \in wire : handle_incoming_vpn_packet(r)
    \/ \E p, n \in Stations : ReceiveMeta(p, n)
    \/ \E n, m \in Stations : Discover(n, m) \/ Measure(n, m)
    \/ Interval
-----------------------------------------------------------------------------
Calm == wire = {} /\ \A p, n \in Stations : line[p][n] = <<>>

RelayTypeOK ==
    /\ \A n, m \in Stations : know[n][m].minmtu \in 0 .. FullMtu /\ know[n][m].mtu \in 1 .. FullMtu
    /\ \A r \in wire : r.udp /\ r.at \notin {r.from, r.prev}
    /\ \A p, n \in Stations : line[p][n] # <<>> => n \in net.peers[p]
    /\ told \subseteq Stations \X Stations \X {"udp", "mtu"}

\* Where the peers have found each other and the relays have the keys, every record arrives, once,
\* whatever mixture of UDP and TCP it takes and whoever finds a better way meanwhile.
RecordsArrive ==
    net.settled /\ net.keys = Stations \X Stations /\ Calm =>
        /\ BagCardinality(accepted) = issued
        /\ \A x \in DOMAIN accepted : accepted[x] = 1

\* A record over UDP is never larger than what the hop carries.
UdpFits == \A r \in wire : r.len <= net.path[r.prev][r.at]

\* What UDP_INFO says of a node comes from a peer that has seen it, so where the peers have found each
\* other nobody who knows a node's address as others see it goes back to the one that the node itself
\* has in mind.  (Before that a late UDP_INFO can undo what a probe has shown.)
AddressesImprove ==
    [][net.settled => \A n, m \in Stations :
            know[n][m].address = SeenAs(m) => know'[n][m].address = SeenAs(m)]_relayVars

\* Once MTU_INFO from m has come to n, n holds an MTU for m that the hops after the first carry, unless
\* n has measured the way to m itself; the peers here have measured theirs.  (A relay that measured
\* less than 512 bytes says so too, and loses the connection that it says it over.)
Later(n, m) == {h \in Stations \X Stations : h[1] = net.nexthop[n][m] /\ h[1] # m /\ h[2] = m}

ProvisionalFits ==
    net.settled /\ Calm => \A n, m \in Stations :
        <<m, n, "mtu">> \in told /\ ~Fixed(know[n][m]) =>
            \A h \in Later(n, m) : know[n][m].mtu <= net.path[h[1]][h[2]] \/ net.path[h[1]][h[2]] < LeastMtu

\* Records arrive once over whatever relays, over UDP only where they fit, and what relays tell the
\* sender (UDP_INFO, MTU_INFO) is true and never makes it know less.
RelaySound ==
    /\ [](RelayTypeOK /\ RecordsArrive /\ UdpFits /\ ProvisionalFits)
    /\ AddressesImprove
============================================================================
