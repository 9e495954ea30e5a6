----------------------------- MODULE MCNetwork -----------------------------
(***************************************************************************)
(* The parts of a running daemon, checked one by one for safety: which     *)
(* node a packet is for (Subnets), what is done to it (PacketEdit,         *)
(* Forwarding), by which hops it goes (Relay), the window it goes through  *)
(* (ReplayWindow); the meta connections (MetaStream, KeepAlive,            *)
(* PastRequests, Tarpit); and what they all run on (EventLoop, SplayTree). *)
(* A behaviour is one of one part; the others stay where they start.       *)
(***************************************************************************)
EXTENDS Subnets, Forwarding, Relay, ReplayWindow, MetaStream, KeepAlive, PastRequests, Tarpit, EventLoop, SplayTree, TLC

CONSTANT Parts
VARIABLE part   \* the part that takes steps

-----------------------------------------------------------------------------
(* Subnets: digits of one bit, addresses of two. *)
Net(type, addr, plen, weight) == [type |-> type, addr |-> addr, plen |-> plen, weight |-> weight]
Half == Net("ipv4", <<1, 0>>, 1, 10)
Whole4 == Net("ipv4", <<0, 0>>, 0, 10)
Single == Net("ipv4", <<1, 0>>, 2, 5)
Single6 == Net("ipv6", <<0, 1>>, 2, 10)
Card == Net("mac", <<0, 1>>, 2, 10)
MCClaims == {<<Half, 1>>, <<Single, 2>>, <<Single6, 1>>, <<Card, 2>>}
MCConfigs == {{}, {Whole4, Card}}
MCSeen == {<<0, 1>>}
MCBroadcastNets == {Net("mac", <<1, 1>>, 2, 10), Net("ipv4", <<1, 1>>, 2, 10), Net("ipv4", <<1, 1>>, 1, 10), Net("ipv6", <<1, 1>>, 1, 10)}
MCAsked == {<<"ipv4", <<1, 0>> >>, <<"ipv4", <<1, 1>> >>, <<"ipv4", <<0, 1>> >>, <<"ipv6", <<0, 1>> >>, <<"mac", <<0, 1>> >>}
MCHome == [a \in {0, 1} \X {0, 1} |-> IF a[1] = 1 THEN 2 ELSE 0]

-----------------------------------------------------------------------------
(* Forwarding: a - b - c in a line, and a triangle that they do not agree on. *)
MCHosts == {"a", "b", "c"}
MCAddresses == {"A", "B", "C", "bcast", "nobody"}
Owner == [x \in MCAddresses |-> CASE x = "A" -> "a" [] x = "B" -> "b" [] x = "C" -> "c" [] x = "bcast" -> Everyone [] OTHER -> None]

All(v) == [n \in MCHosts |-> v]
Map(p, q, r) == ("a" :> p @@ "b" :> q @@ "c" :> r)
InLine == Map(Map("a", "b", "b"), Map("a", "b", "c"), Map("b", "b", "c"))
Straight == All(Map("a", "b", "c"))
\* c is only indirectly reachable: b and c each count as the relay of what is beyond their edge.
Behind == Map(Map("a", "b", "b"), Map("a", "b", "b"), Map("c", "c", "c"))
Beside == Map({"b"}, {"a", "c"}, {"b"})

V4(src, dst, len, df) == Frame("ipv4", src, dst, len, df, 3)
V6(src, dst, len) == Frame("ipv6", src, dst, len, FALSE, 3)

Pkts == {<<"a", V4("A", "C", 1500, FALSE)>>, <<"a", V4("A", "C", 1500, TRUE)>>, <<"a", V4("A", "C", 100, TRUE)>>,
         <<"a", V6("A", "C", 1500)>>, <<"a", V4("A", "A", 100, FALSE)>>, <<"c", V4("C", "A", 600, FALSE)>>,
         <<"a", V4("A", "nobody", 100, FALSE)>>, <<"a", V4("A", "bcast", 100, FALSE)>>,
         <<"a", Frame("arp", "A", "C", 60, FALSE, 0)>>, <<"a", Frame("neighbor", "A", "nobody", 90, FALSE, 0)>>,
         <<"a", [V4("A", "C", 1500, FALSE) EXCEPT !.head = "options"]>>, <<"a", [V4("A", "C", 1500, FALSE) EXCEPT !.head = "padded"]>>,
         <<"a", [V4("A", "C", 580, FALSE) EXCEPT !.head = "options"]>>, <<"a", [V4("A", "C", 100, FALSE) EXCEPT !.head = "mute", !.ttl = 1]>>,
         <<"b", Frame("other", "B", "C", 100, FALSE, 0)>>}

Base == [mode |-> "router", forwarding |-> "internal", broadcast |-> "mst", server |-> FALSE, ttl |-> FALSE,
         direct |-> FALSE, legacy |-> FALSE, tcponly |-> FALSE, owner |-> All(Owner), reachable |-> All(MCHosts),
         nexthop |-> InLine, via |-> Straight, mtu |-> All(All(1518)), minmtu |-> All(All(1518)), keys |-> All(MCHosts),
         mst |-> Beside, frames |-> Pkts, reads |-> 1, sane |-> TRUE]

Narrow == All(Map(1518, 800, 600))
Legacy == [Base EXCEPT !.legacy = TRUE]
Lost == [Base EXCEPT !.reachable = Map({"a", "b"}, {"a", "b"}, {"c"})]
Few == {<<"a", V4("A", "C", 1500, FALSE)>>, <<"c", V4("C", "A", 600, FALSE)>>, <<"a", V4("A", "nobody", 100, FALSE)>>, <<"b", V6("B", "C", 1500)>>}

\* The triangle: each thinks that the address of c's network is behind the next.
Round == Map(Map("a", "b", "b"), Map("c", "b", "c"), Map("a", "a", "c"))
Circle == [Legacy EXCEPT !.nexthop = Round, !.via = Round, !.sane = FALSE,
                      !.owner = Map(Owner, [Owner EXCEPT !["B"] = "c"], [Owner EXCEPT !["B"] = "a"]),
                      !.frames = {<<"a", V4("A", "B", 100, FALSE)>>, <<"c", V4("C", "B", 100, FALSE)>>}]

MCWorlds ==
    {Base, Lost, Legacy,
     [Base EXCEPT !.keys = All({}), !.minmtu = All(All(0))], [Base EXCEPT !.minmtu = Narrow],
     [Base EXCEPT !.mtu = Narrow], [Base EXCEPT !.mtu = Narrow, !.via = Behind],
     [Legacy EXCEPT !.mtu = Narrow, !.via = Behind, !.minmtu = Narrow, !.reads = 2],
     [Legacy EXCEPT !.mtu = Narrow, !.minmtu = Narrow, !.reads = 2, !.frames = Few],
     [Legacy EXCEPT !.tcponly = TRUE], [Legacy EXCEPT !.keys = All({})],
     [Legacy EXCEPT !.ttl = TRUE], [Base EXCEPT !.ttl = TRUE, !.legacy = TRUE, !.via = Behind],
     [Legacy EXCEPT !.forwarding = "off", !.via = Behind], [Legacy EXCEPT !.forwarding = "kernel", !.via = Behind],
     [Base EXCEPT !.direct = TRUE, !.via = Behind],
     [Base EXCEPT !.mode = "switch"], [Legacy EXCEPT !.mode = "switch", !.mtu = Narrow, !.via = Behind, !.ttl = TRUE],
     [Legacy EXCEPT !.mode = "switch", !.forwarding = "off", !.direct = TRUE, !.via = Behind],
     [Base EXCEPT !.mode = "hub"], [Legacy EXCEPT !.mode = "hub", !.ttl = TRUE],
     [Base EXCEPT !.broadcast = "direct"], [Base EXCEPT !.broadcast = "no"], [Base EXCEPT !.server = TRUE],
     [Base EXCEPT !.reads = 4, !.frames = {<<"a", V4("A", "nobody", 100, FALSE)>>}],
     [Circle EXCEPT !.ttl = TRUE], Circle}

-----------------------------------------------------------------------------
(* Relay: a - b - c in a line. *)
MCStations == {"a", "b", "c"}
Of(p, q, r) == ("a" :> p @@ "b" :> q @@ "c" :> r)
Chain == Of(Of("a", "b", "b"), Of("a", "b", "c"), Of("b", "b", "c"))
Itself == Of(Of("a", "b", "c"), Of("a", "b", "c"), Of("a", "b", "c"))
Indirect == Of(Of("a", "b", "b"), Of("a", "b", "b"), Of("c", "c", "c"))
\* The edge a - b has become indirect, which c does not know yet.
Outdated == Of(Of("a", "a", "a"), Of("b", "b", "c"), Of("a", "b", "c"))
Unit == [nexthop |-> Chain, via |-> Itself, peers |-> Of({"b"}, {"a", "c"}, {"b"}),
         blocked |-> {<<"a", "c">>, <<"c", "a">>}, path |-> Of(Of(9, 9, 9), Of(9, 9, 7), Of(9, 7, 9)),
         nat |-> {}, keys |-> MCStations \X MCStations, tcponly |-> FALSE, settled |-> TRUE, flows |-> {<<"a", "c", 5>>, <<"a", "c", 8>>, <<"c", "a", 8>>},
         sends |-> 2, intervals |-> 1]
MCRelayNetworks ==
    {Unit, [Unit EXCEPT !.settled = FALSE, !.sends = 1], [Unit EXCEPT !.tcponly = TRUE, !.settled = FALSE, !.sends = 1],
     [Unit EXCEPT !.blocked = {}, !.path = Of(Of(9, 9, 6), Of(9, 9, 7), Of(6, 7, 9))], [Unit EXCEPT !.blocked = {}, !.nat = {"c"}],
     [Unit EXCEPT !.blocked = {}, !.nat = {"a", "c"}, !.settled = FALSE, !.sends = 1],
     [Unit EXCEPT !.path = Of(Of(9, 9, 9), Of(9, 9, 4), Of(9, 4, 9)), !.flows = {<<"a", "c", 8>>}, !.sends = 1],
     [Unit EXCEPT !.keys = @ \ {<<"b", "c">>}],
     [Unit EXCEPT !.via = Indirect], [Unit EXCEPT !.via = Outdated, !.flows = {<<"a", "c", 5>>, <<"c", "a", 8>>}], [Unit EXCEPT !.path = Of(Of(9, 6, 9), Of(6, 9, 7), Of(9, 7, 9))]}

-----------------------------------------------------------------------------
(* MetaStream: streams that begin with a proxy's answer or with an ID, for *)
(* the legacy protocol and for SPTPS, and one with a line that is too long.*)
(* Newlines are positions in raw bytes.                                    *)
Msg(kind, len) == [kind |-> kind, len |-> len, newlines |-> {}]
Raw(kind, len, nl) == [kind |-> kind, len |-> len, newlines |-> nl]
Plain == <<Msg("id", 1), Msg("request", 2), Msg("packet", 2), Raw("raw", 3, {2}), Msg("request", 2)>>
MCStreams ==
  {<<Raw("socks", 3, {2}), Msg("sptps_id", 2), Raw("record", 2, {1}), Msg("sptps_packet", 1),
     Raw("raw", 3, {1, 3}), Msg("record", 1)>>,
   <<Msg("http", 2), Msg("blank", 1), Msg("sptps_id", 2), Raw("record", 3, {2})>>,
   <<Raw("socks", 2, {2}), Msg("id", 2), Msg("metakey", 2), Msg("request", 2), Msg("packet", 1),
     Raw("raw", 2, {1}), Msg("request", 1)>>,
   <<Msg("id", 2), Msg("request", 4), Msg("request", 5)>>,
   Plain}

(* PastRequests: a triangle; the first request is slow, and the others keep it from being aged. *)
MCMembers == {"a", "b", "c"}
MCBonds == {<<n, m>> \in MCMembers \X MCMembers : n # m}
MCHopTimes == <<{0, 3}, {0}, {0}>>
MCOrigins == <<{<<"a", 1>>}, {<<"a", 3>>, <<"b", 3>>}, {<<"b", 4>>, <<"b", 5>>}>>

-----------------------------------------------------------------------------
(* One part at a time. *)
networkVars ==
    <<part, subnetVars, input, forwardingVars, relayVars, vars, streamVars, aliveVars, pastVars, pitVars, loopVars, splayVars>>

NetworkInit ==
    /\ part \in Parts
    /\ SubnetInit /\ PacketEditInit /\ Init /\ AliveInit /\ PastInit /\ PitInit /\ SplayInit
    /\ IF part = "forwarding" THEN ForwardingInit ELSE ForwardingInit /\ world = Base
    /\ IF part = "relay" THEN RelayInit ELSE RelayInit /\ net = Unit
    /\ IF part = "stream" THEN StreamInit ELSE StreamInit /\ stream = Plain
    /\ IF part = "loop" THEN LoopInit
       ELSE LoopInit /\ flavour = "select" /\ timer = [t \in Timers |-> 0] /\ io = [f \in Fds |-> [on |-> FALSE, flags |-> {}]]

NetworkNext ==
    /\ UNCHANGED part
    /\ IF part = "subnets" THEN SubnetNext ELSE UNCHANGED subnetVars
    /\ IF part = "edit" THEN PacketEditNext ELSE UNCHANGED input
    /\ IF part = "forwarding" THEN ForwardingNext ELSE UNCHANGED forwardingVars
    /\ IF part = "relay" THEN RelayNext ELSE UNCHANGED relayVars
    /\ IF part = "replay" THEN Next ELSE UNCHANGED vars
    /\ IF part = "stream" THEN StreamNext ELSE UNCHANGED streamVars
    /\ IF part = "alive" THEN AliveNext ELSE UNCHANGED aliveVars
    /\ IF part = "past" THEN PastNext ELSE UNCHANGED pastVars
    /\ IF part = "tarpit" THEN PitNext ELSE UNCHANGED pitVars
    /\ IF part = "loop" THEN LoopNext ELSE UNCHANGED loopVars
    /\ IF part = "tree" THEN SplayNext ELSE UNCHANGED splayVars

NetworkSpec == NetworkInit /\ [][NetworkNext]_networkVars
=============================================================================
