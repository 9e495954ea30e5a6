---------------------------- MODULE MCProtocols ----------------------------
(***************************************************************************)
(* What two or three daemons come to agree on by exchanging requests:      *)
(* subnets (SubnetGossip), identities (MetaAuth), the size of packets      *)
(* (UdpTunnel) and keys (SptpsStream, LegacyTunnel), each with the         *)
(* fairness that its progress rests on.  A behaviour is one of one part;   *)
(* the others stay where they start, and SptpsStream after a handshake.    *)
(***************************************************************************)
EXTENDS SptpsStream, SubnetGossip, MetaAuth, UdpTunnel, LegacyTunnel

CONSTANT Parts
VARIABLE part   \* the part that takes steps

-----------------------------------------------------------------------------
(* SptpsStream: a session whose first handshake is over. *)
Established(p) ==
    LET material == <<Kex("initiator", 1), Kex("responder", 1)>>
        first == p = "initiator"
    IN  [Stopped EXCEPT !.state = "secondary_kex", !.initiator = first, !.instate = TRUE, !.outstate = TRUE,
                        !.incipher = CipherKey(IF first THEN 0 ELSE 1, material),
                        !.outcipher = CipherKey(IF first THEN 1 ELSE 0, material), !.inseqno = 2, !.outseqno = 2]
Settled ==
    /\ sess = [p \in Peers |-> Established(p)] /\ wire = [p \in Peers |-> <<>>] /\ kexes = [p \in Peers |-> 1]
    /\ sent = [p \in Peers |-> 0] /\ given = [p \in Peers |-> 0] /\ broken = [p \in Peers |-> FALSE]

-----------------------------------------------------------------------------
(* SubnetGossip: three daemons, in a line or a triangle. *)
AB == {1, 2}
BC == {2, 3}
AC == {1, 3}
Plan(up0, links, cuts, may, own, changes, purges, learned, strict, tunnel, listed) ==
    [up |-> up0, links |-> links, cuts |-> cuts, may |-> may, own |-> own, changes |-> changes,
     purges |-> purges, learned |-> learned, strict |-> strict, tunnel |-> tunnel, listed |-> listed]
MCNetworks == {
    Plan({AB, BC, AC}, {AB, AC}, 2, {<<1, "s">>}, {<<1, "s">>}, 1, 0, {}, {}, {}, {}),
    Plan({AB, BC}, {AB, BC}, 3, {<<1, "s">>}, {<<1, "s">>}, 1, 0, {}, {}, {}, {}),
    Plan({AB, BC}, {AB, BC}, 3, {<<1, "s">>}, {<<1, "s">>}, 0, 2, {}, {}, {}, {}),
    Plan({AB, BC}, {AB}, 2, {<<1, "s">>, <<3, "s">>}, {<<1, "s">>}, 2, 0, {"s"}, {}, {}, {}),
    Plan({AB, BC}, {BC}, 2, {<<1, "s">>, <<3, "s">>}, {<<1, "s">>}, 2, 1, {}, {2}, {}, {<<3, "s">>}),
    Plan({AB, BC}, {BC}, 2, {<<1, "s">>, <<3, "s">>}, {<<1, "s">>}, 2, 0, {}, {2}, {2}, {<<3, "s">>}) }

-----------------------------------------------------------------------------
(* MetaAuth: an initiator and a responder. *)
Both(v) == [x \in {"i", "r"} |-> v]
Good == [experimental |-> Both(TRUE), legacy |-> Both(TRUE), genuine |-> TRUE, named |-> TRUE, listed |-> TRUE,
         major |-> TRUE, bypass |-> FALSE, proxy |-> "none", key |-> Both("none"), timeouts |-> FALSE]
Pairs(S) == [{"i", "r"} -> S]
MCCases ==
    {[Good EXCEPT !.experimental = e, !.legacy = l, !.key = k, !.timeouts = t] :
        e \in Pairs(BOOLEAN), l \in {Both(TRUE), [i |-> TRUE, r |-> FALSE]},
        k \in Pairs({"none", "right", "wrong"}), t \in BOOLEAN}
    \union {[Good EXCEPT !.genuine = g, !.named = n, !.listed = l, !.major = m, !.proxy = p, !.key = k] :
        g, n, l, m \in BOOLEAN, p \in {"none", "granted", "refused"}, k \in {Both("none"), Both("right")}}
    \union {[Good EXCEPT !.bypass = TRUE, !.experimental = e] : e \in Pairs(BOOLEAN)}
Unable == [Good EXCEPT !.proxy = "refused"]

-----------------------------------------------------------------------------
(* UdpTunnel and LegacyTunnel. *)
PathTo(size, then, kernel, faults) == [size |-> size, then |-> then, steady |-> size = then, kernel |-> kernel, learns |-> FALSE, linked |-> FALSE, faults |-> faults]
Short == PathTo(2, 2, 12, 0)
MCPaths ==
    {PathTo(9, 9, 12, 1), PathTo(9, 6, 12, 1), PathTo(6, 10, 10, 1), PathTo(12, 12, 12, 0), PathTo(8, 0, 8, 0), PathTo(0, 7, 12, 1), Short,
     [PathTo(9, 6, 12, 0) EXCEPT !.learns = TRUE], [PathTo(9, 9, 12, 1) EXCEPT !.linked = TRUE]}

MCWays == {[direct |-> TRUE, fits |-> TRUE], [direct |-> FALSE, fits |-> TRUE], [direct |-> FALSE, fits |-> FALSE]}

-----------------------------------------------------------------------------
(* One part at a time. *)
protocolVars == <<part, vars, gossipVars, authVars, tunnelVars, legacyVars>>

ProtocolInit ==
    /\ part \in Parts
    /\ IF part = "sptps" THEN Init ELSE Settled
    /\ IF part = "gossip" THEN GossipInit ELSE GossipInit /\ plan = CHOOSE p \in Networks : TRUE
    /\ IF part = "auth" THEN AuthInit ELSE AuthInit /\ case = Unable
    /\ IF part = "udp" THEN TunnelInit ELSE TunnelInit /\ path = Short
    /\ IF part = "legacy" THEN LegacyInit ELSE LegacyInit /\ ~ way.fits

ProtocolNext ==
    /\ UNCHANGED part
    /\ IF part = "sptps" THEN Next ELSE UNCHANGED vars
    /\ IF part = "gossip" THEN GossipNext ELSE UNCHANGED gossipVars
    /\ IF part = "auth" THEN AuthNext ELSE UNCHANGED authVars
    /\ IF part = "udp" THEN TunnelNext ELSE UNCHANGED tunnelVars
    /\ IF part = "legacy" THEN LegacyNext ELSE UNCHANGED legacyVars

\* What the parts rely on.  SubnetGossip: requests that have arrived are handled, and learned
\* subnets that were handed over time out.
GossipFairness ==
    /\ \A p \in Channels : WF_gossipVars(part = "gossip" /\ Handle(p[1], p[2]))
    /\ \A n \in Daemons : WF_gossipVars(part = "gossip" /\ Age(n))

\* UdpTunnel: packets keep coming, and each calls try_udp and try_mtu; an answer takes less than
\* the time to the next probe, so both find nothing on its way again and again.  (Strong fairness
\* of TryMtu, which is enabled in these states, and of TryUdp.)
TunnelFairness ==
    /\ []<>(part = "udp" /\ Prompt /\ peer.confirmed) => []<><<TryMtu>>_tunnelVars
    /\ SF_tunnelVars(part = "udp" /\ TryUdp) /\ WF_tunnelVars(part = "udp" /\ UdpTimeout)
    /\ WF_tunnelVars(part = "udp" /\ \E l \in flying : Reply(l))

\* LegacyTunnel: the sender keeps having packets, time passes, and what is sent over meta
\* connections is received.
LegacyFairness ==
    /\ WF_legacyVars(part = "legacy" /\ Ask) /\ WF_legacyVars(part = "legacy" /\ TenSeconds)
    /\ WF_legacyVars(part = "legacy" /\ req_key_h) /\ WF_legacyVars(part = "legacy" /\ ReceiveDown)

\* MetaAuth: the initiator tries again, and both ends handle what arrives and give up on a
\* connection that was closed or makes no progress.
AuthFairness ==
    /\ WF_authVars(part = "auth" /\ Dial)
    /\ \A x \in Ends :
        /\ WF_authVars(part = "auth" /\ TakeMessage(x))
        /\ WF_authVars(part = "auth" /\ Hangup(x))
        /\ WF_authVars(part = "auth" /\ Timeout(x))

ProtocolSpec ==
    /\ ProtocolInit /\ [][ProtocolNext]_protocolVars
    /\ Fairness /\ GossipFairness /\ TunnelFairness /\ LegacyFairness /\ AuthFairness
=============================================================================
