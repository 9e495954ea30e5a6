---------------------------- MODULE Forwarding -----------------------------
(***************************************************************************)
(* The way of a frame through the network: read from the device of one     *)
(* node, routed there by route(), sent on by send_packet, received and     *)
(* routed again by others, until it is written to a device, broadcast,     *)
(* answered with an error message, or dropped.                             *)
(*                                                                         *)
(* Between nodes that speak SPTPS a frame goes to the owner of its address *)
(* in one piece, however it is relayed; legacy nodes hand it from one node *)
(* to the next, and each routes it anew.  What a node knows of the others  *)
(* (graph(), subnets, MTU) is fixed, but need not be the same everywhere.  *)
(***************************************************************************)
EXTENDS PacketEdit, Bags

CONSTANTS
    Hosts,      \* nodes
    Addresses,  \* addresses in frames
    Worlds,     \* how the nodes are configured and what they know of each other, see below
    MaxHops     \* bound on the length of a way

None == "none"        \* no such subnet
Everyone == "all"     \* a subnet without an owner: the broadcast addresses

VARIABLES
    world,   \* one of Worlds
    sent,    \* what has been read from devices, as <<node, frame>>
    air,     \* frames under way: [at, from, frame, tcp, hops]
    wrote,   \* what was written to devices: a bag of <<node, frame>>
    errors   \* errors[n]: error messages that n sent in this second

\* Of a world: mode, forwarding, broadcast, server (TunnelServer), ttl (DecrementTTL), direct
\* (DirectOnly), legacy and tcponly as configured everywhere; for each node owner[n] (of addresses),
\* reachable[n], nexthop[n], via[n], mtu[n], minmtu[n], keys[n] (nodes whose key n has), mst[n] (peers
\* on the tree); frames: what the devices have to send, reads: how many frames; sane: whether the
\* nodes agree on the network.
forwardingVars == <<world, sent, air, wrote, errors>>

\* A frame: kind, addresses, length, whether it may not be fragmented, hops it may make (0: of a kind
\* that has no such field); what its IP header is like (plain; with options; with another length than
\* the frame's; or such that do_decrement_ttl takes the packet for a "time exceeded": mute); what part
\* of the original it carries (offset in bytes, more), for errors and replies what they are, and which
\* frame it is about.
Frame(kind, src, dst, len, df, ttl) ==
    [kind |-> kind, src |-> src, dst |-> dst, len |-> len, df |-> df, ttl |-> ttl,
     head |-> "plain", off |-> 0, more |-> FALSE, what |-> "", id |-> 0]

ForwardingInit ==
    /\ world \in Worlds
    /\ sent = <<>> /\ air = {} /\ wrote = EmptyBag
    /\ errors = [n \in Hosts |-> 0]

-----------------------------------------------------------------------------
\* What a step does: frames that leave n, as records of air, and what it writes to its device.
Nothing == [out |-> {}, write |-> {}]
Both(a, b) == [out |-> a.out \union b.out, write |-> a.write \union b.write]

NodeVia(n, m) == IF world.via[n][m] = n THEN world.nexthop[n][m] ELSE world.via[n][m]

\* A frame from n arrives at m; over TCP as a PACKET.
Hop(n, m, frame, tcp, hops) == [at |-> m, from |-> n, frame |-> frame, tcp |-> tcp, hops |-> hops + 1]
One(hop) == [out |-> {hop}, write |-> {}]

\* send_sptps_packet: to a node without a key only as a PACKET, over the connection that there is if it
\* is its own next hop; sptps_send_record sends nothing without a key.
send_sptps_packet(n, m, frame, hops) ==
    CASE world.nexthop[n][m] = m /\ frame.len > world.minmtu[n][m] -> One(Hop(n, m, frame, TRUE, hops))
      [] m \in world.keys[n] -> One(Hop(n, m, frame, FALSE, hops))
      [] OTHER -> Nothing

\* send_packet, with the way that it takes through send_udppacket; forced: priority is -1
RECURSIVE send_packet(_, _, _, _, _)
send_packet(n, m, frame, forced, hops) ==
    IF m = n THEN [out |-> {}, write |-> {<<n, frame>>}]
    ELSE IF m \notin world.reachable[n] THEN Nothing
    ELSE IF ~world.legacy THEN send_sptps_packet(n, m, frame, hops)
    ELSE LET via == IF forced THEN world.nexthop[n][m] ELSE NodeVia(n, m)
             next == world.nexthop[n][via]
         IN  IF forced \/ world.tcponly THEN One(Hop(n, via, frame, TRUE, hops))
             ELSE IF via \notin world.keys[n] THEN One(Hop(n, next, frame, TRUE, hops))
             ELSE IF frame.len <= world.minmtu[n][via] THEN One(Hop(n, via, frame, FALSE, hops))
             ELSE IF via # next THEN send_packet(n, next, frame, forced, hops)
             ELSE One(Hop(n, next, frame, TRUE, hops))

\* broadcast_packet; on the tree, away from where the packet came from
OnTree(n, from) == world.mst[n] \ {world.nexthop[n][from]}

DirectOnes(n) ==
    {m \in world.reachable[n] \ {n} :
        (world.via[n][m] = n /\ world.nexthop[n][m] = m) \/ world.via[n][m] = m}

CopiesTo(n, from) ==
    CASE world.server \/ world.broadcast = "no" -> {}
      [] world.broadcast = "mst" -> OnTree(n, from)
      [] OTHER -> IF from = n THEN DirectOnes(n) ELSE {}

broadcast_packet(n, from, frame, forced, hops) ==
    LET self == IF from = n THEN Nothing ELSE send_packet(n, n, frame, forced, hops)
    IN  [out |-> UNION {send_packet(n, m, frame, forced, hops).out : m \in CopiesTo(n, from)},
         write |-> self.write]

\* do_decrement_ttl: ARP and frames of other types have no TTL.
Decreased(frame) == IF frame.ttl = 0 THEN frame ELSE [frame EXCEPT !.ttl = @ - 1]
Expired(frame) == frame.ttl = 1

-----------------------------------------------------------------------------
\* Outcomes of routing: an error to send back, or a result.
Error(what, frame) ==
    [error |-> TRUE, what |-> what, frame |-> frame, do |-> Nothing]
Do(r) == [error |-> FALSE, what |-> "", frame |-> <<>>, do |-> r]
Drop == Do(Nothing)

\* The end of do_decrement_ttl: no error about what looks like one
TtlError(frame) == IF frame.head = "mute" THEN Drop ELSE Error("ttl", frame)

\* The frame with an error message about frame.  (Whether an ICMP message for IPv4 looks like a "time
\* exceeded" depends on its checksum, route.c:344; that it does not is the case with more messages.)
Unreachable(what, frame) ==
    [frame EXCEPT !.kind = IF frame.kind = "ipv6" THEN "icmp6" ELSE "icmp",
                  !.src = frame.dst, !.dst = frame.src, !.what = what, !.ttl = 255, !.df = FALSE,
                  !.head = IF frame.kind \in {"ipv6", "icmp6"} /\ what = "ttl" THEN "mute" ELSE "plain",
                  !.off = 0, !.more = FALSE, !.len = route_ipv4_unreachable(frame.len, ether_size).len]

Version6(frame) == frame.kind \in {"ipv6", "icmp6"}

HeaderOfFrame(frame) ==
    [hl |-> IF frame.head = "options" THEN 6 ELSE 5,
     len |-> frame.len - ether_size - (IF frame.head = "padded" THEN 6 ELSE 0),
     off |-> frame.off \div 8, more |-> frame.more]

PiecesOf(frame, ip, mtu) ==
    LET f == fragment_ipv4_packet(ip, frame.len, mtu)
    IN  {[frame EXCEPT !.off = 8 * f[k].off, !.more = f[k].more, !.len = ether_size + ip_size + f[k].len]
            : k \in DOMAIN f}

Pieces_FromZero(frame, mtu) == PiecesOf(frame, [HeaderOfFrame(frame) EXCEPT !.off = 0], mtu)

\* The fragments that are sent, none if the header is not what fragment_ipv4_packet can handle
Pieces(frame, mtu) == PiecesOf(frame, HeaderOfFrame(frame), mtu)

route_broadcast(n, from, frame, forced, hops) ==
    LET counts == world.ttl /\ from # n
    IN  IF counts /\ Expired(frame) THEN TtlError(frame)
        ELSE Do(broadcast_packet(n, from, IF counts THEN Decreased(frame) ELSE frame, forced, hops))

\* What is done with a frame that is too large for the node it goes to first
TooLarge(n, via, frame, forced, hops, limit) ==
    IF Version6(frame) \/ frame.df THEN Error("toobig", [frame EXCEPT !.len = limit])
    ELSE Do([out |-> UNION {send_packet(n, via, f, forced, hops).out : f \in Pieces(frame, world.mtu[n][via])},
             write |-> {}])

\* What route_ipv4 and route_ipv6 share; no hop is asked to take less than `least`.
route_ip(n, from, frame, forced, hops, least) ==
    LET owner == world.owner[n][frame.dst]
        counts == world.ttl /\ from # n /\ owner # n
        f == IF counts THEN Decreased(frame) ELSE frame
        via == NodeVia(n, owner)
        limit == Max({world.mtu[n][via], least})
    IN  CASE owner = None -> Error("unknown", frame)
          [] owner = Everyone -> route_broadcast(n, from, frame, forced, hops)
          [] owner = from -> Drop
          [] owner \notin world.reachable[n] -> Error("unreachable", frame)
          [] world.forwarding = "off" /\ from # n /\ owner # n -> Error("prohibited", frame)
          [] counts /\ Expired(frame) -> TtlError(frame)
          [] via = from -> Drop
          [] world.direct /\ owner # via -> Error("prohibited", f)
          [] f.len > limit /\ via # n -> TooLarge(n, via, f, forced, hops, limit)
          [] OTHER -> Do(send_packet(n, owner, f, forced, hops))

route_ipv4(n, from, frame, forced, hops) == route_ip(n, from, frame, forced, hops, 590)
route_ipv6(n, from, frame, forced, hops) == route_ip(n, from, frame, forced, hops, 1294)

\* Only the own device may ask, and is told of addresses elsewhere.
Asks(n, from, frame) == from = n /\ world.owner[n][frame.dst] \notin {None, n}

Told(n, frame, forced, hops) ==
    Do(send_packet(n, n, [frame EXCEPT !.src = frame.dst, !.dst = frame.src, !.what = "reply"], forced, hops))

route_arp(n, from, frame, forced, hops) ==
    IF Asks(n, from, frame) THEN Told(n, frame, forced, hops) ELSE Drop

\* The header that was copied before the hop limit went down is put back.
route_neighborsol(n, from, frame, forced, hops) ==
    IF ~Asks(n, from, frame) THEN Drop
    ELSE IF world.ttl /\ Expired(frame) THEN TtlError(frame)
    ELSE Told(n, frame, forced, hops)

\* route_mac
route_mac(n, from, frame, forced, hops) ==
    LET owner == world.owner[n][frame.dst]
        counts == world.ttl /\ from # n /\ owner # n
        f == IF counts THEN Decreased(frame) ELSE frame
        via == NodeVia(n, owner)
        mtu == world.mtu[n][via]
        least == IF Version6(f) THEN 1280 ELSE 576
    IN  CASE owner \in {None, Everyone} -> route_broadcast(n, from, frame, forced, hops)
          [] owner = from -> Drop
          [] world.forwarding = "off" /\ from # n /\ owner # n -> Drop
          [] counts /\ Expired(frame) -> TtlError(frame)
          [] world.direct /\ owner # via -> Drop
          [] f.len > mtu /\ via # n /\ f.kind # "other" /\ f.len > least + ether_size ->
                 TooLarge(n, via, f, forced, hops, mtu)
          [] OTHER -> Do(send_packet(n, owner, f, forced, hops))

route(n, from, frame, forced, hops) ==
    CASE world.forwarding = "kernel" /\ from # n -> Do(send_packet(n, n, frame, forced, hops))
      [] world.mode = "switch" -> route_mac(n, from, frame, forced, hops)
      [] world.mode = "hub" -> route_broadcast(n, from, frame, forced, hops)
      [] frame.kind = "arp" -> route_arp(n, from, frame, forced, hops)
      [] frame.kind = "neighbor" -> route_neighborsol(n, from, frame, forced, hops)
      [] frame.kind \in {"ipv4", "icmp"} -> route_ipv4(n, from, frame, forced, hops)
      [] frame.kind \in {"ipv6", "icmp6"} -> route_ipv6(n, from, frame, forced, hops)
      [] OTHER -> Drop

\* ratelimit(3)
ratelimit(n) == errors[n] >= 3

\* The end of route(): n does r with the frame from from (one of air, or of the device); an error goes
\* back to from.
Conclude(n, taken, from, r) ==
    LET done == IF ~r.error \/ ratelimit(n) THEN r.do
                ELSE send_packet(n, from, Unreachable(r.what, r.frame), FALSE, 0)
    IN  /\ air' = {h \in done.out : h.hops <= MaxHops} \union (air \ taken)
        /\ wrote' = wrote (+) SetToBag(done.write)
        /\ errors' = IF r.error /\ ~ratelimit(n) THEN [errors EXCEPT ![n] = @ + 1] ELSE errors

\* handle_device_data
handle_device_data(n, frame) ==
    /\ <<n, frame>> \in world.frames /\ Len(sent) < world.reads
    /\ LET f == [frame EXCEPT !.id = Len(sent) + 1]
           r == route(n, n, f, FALSE, 0)
       IN  /\ sent' = Append(sent, <<n, f>>)
           /\ Conclude(n, {}, n, r)
    /\ UNCHANGED world

\* receive_packet: a frame arrives, over UDP or (receive_tcppacket) over TCP.
receive_packet(h) ==
    /\ Conclude(h.at, {h}, h.from, route(h.at, h.from, h.frame, h.tcp /\ ~world.tcponly, h.hops))
    /\ UNCHANGED <<world, sent>>

\* The next second begins.
Second ==
    /\ \E n \in Hosts : errors[n] = 3
    /\ errors' = [n \in Hosts |-> 0]
    /\ UNCHANGED <<world, sent, air, wrote>>

ForwardingNext ==
    \/ \E pair \in world.frames : handle_device_data(pair[1], pair[2])
    \/ \E h \in air : receive_packet(h)
    \/ Second
-----------------------------------------------------------------------------
\* Frames are where the modes let them be, and no more errors than three a second leave a node.
ForwardingTypeOK ==
    /\ world \in Worlds /\ Len(sent) <= world.reads
    /\ errors \in [Hosts -> 0 .. 3]
    /\ \A h \in air : h.at \in Hosts /\ h.at # h.from /\ h.frame.ttl \in 0 .. 255
    /\ \A w \in DOMAIN wrote : w[1] \in Hosts /\ (w[2].kind \in {"arp", "neighbor"} => w[2].what = "reply" \/ world.mode # "router")

Unicast(f) == f.kind \in {"ipv4", "ipv6"} /\ f.what = "" /\ world.mode = "router"

\* In router mode a packet is written only to the device of a node that holds its address to be its
\* own, and there once, whatever the others think.
OnlyOwnerOnce ==
    world.forwarding # "kernel" =>
        \A w \in DOMAIN wrote : Unicast(w[2]) /\ world.owner[w[1]][w[2].dst] # Everyone =>
            world.owner[w[1]][w[2].dst] = w[1] /\ wrote[w] = 1

\* What of the frame with this number was written at n
Arrived(n, id) == {w[2] : w \in {v \in DOMAIN wrote : v[1] = n /\ v[2].id = id /\ v[2].what = ""}}
Payload(f) == f.len - ether_size - ip_size

\* The pieces that arrived make up the whole frame.
Whole(n, f) ==
    LET got == Arrived(n, f.id)
    IN  /\ FoldSet(LAMBDA g, sum : sum + Payload(g), 0, got) = Payload(f)
        /\ \A g \in got : g.off = 0 \/ \E e \in got : e.off + Payload(e) = g.off
        /\ Cardinality({g \in got : ~g.more}) = 1

Quiet == air = {}

\* A frame that was fragmented, maybe again on its way, arrives in pieces that fit together.
WholeOrNothing ==
    Quiet => \A k \in DOMAIN sent : Unicast(sent[k][2]) =>
        \A n \in Hosts : Arrived(n, k) # {} => Whole(n, sent[k][2])

\* What route.c drops without a word: with IP options or padding what it would have to fragment, and
\* with DecrementTTL what looks like a "time exceeded".
Handled(f) ==
    CASE f.head = "plain" -> TRUE
      [] f.head = "mute" -> ~world.ttl
      [] OTHER -> f.len <= 590

\* send_sptps_packet drops packets to a node without a connection while there is no key for it.
InTouch(n, m) == world.legacy \/ m \in world.keys[n] \/ (world.nexthop[n][m] = m /\ world.minmtu[n][m] = 0)

\* Where the nodes agree on the network, and the sender and the owner of the address have each other's
\* keys, the sender of a packet is told when it does not arrive: it is written whole at the owner, or
\* an error is written at the sender, unless that is where the packet would go, too many errors were
\* sent already, or its header is one that route.c gives up on.
NothingVanishes ==
    Quiet /\ world.sane => \A k \in DOMAIN sent :
        LET n == sent[k][1]
            f == sent[k][2]
            owner == world.owner[n][f.dst]
        IN  /\ Unicast(f) /\ Handled(f) /\ Len(sent) <= 2
            /\ owner \notin {Everyone, n} /\ (owner # None => InTouch(n, owner) /\ InTouch(owner, n))
            => \/ owner # None /\ Whole(owner, f)
               \/ \E w \in DOMAIN wrote : w[1] = n /\ w[2].id = k /\ w[2].what # ""
               \/ world.forwarding = "kernel"

\* Every reachable node gets a broadcast packet once, in router mode, as a switch and as a hub.
ForAll(n, f) ==
    \/ world.mode = "hub"
    \/ world.owner[n][f.dst] = Everyone /\ f.kind # "arp"
    \/ world.mode = "switch" /\ world.owner[n][f.dst] = None

EveryoneOnce ==
    Quiet /\ world.sane /\ world.broadcast = "mst" /\ ~world.server /\ ~world.ttl /\ world.forwarding # "kernel" =>
        \A k \in DOMAIN sent : ForAll(sent[k][1], sent[k][2]) =>
            \A m \in world.reachable[sent[k][1]] \ {sent[k][1]} : CopiesIn(<<m, sent[k][2]>>, wrote) = 1

\* No packet stays under way: where the nodes agree, it never takes more hops than there are nodes;
\* where they do not, DecrementTTL ends it.
LoopsEnd ==
    \A h \in air : h.frame.what = "" =>
        /\ world.sane => h.hops < Cardinality(Hosts)
        /\ world.ttl => h.hops < MaxHops

\* A frame gets to those it is for, once and whole, or its sender is told; none circles for ever.
ForwardingSound ==
    /\ ForwardingTypeOK
    /\ OnlyOwnerOnce /\ WholeOrNothing /\ EveryoneOnce
    /\ NothingVanishes /\ LoopsEnd
============================================================================
