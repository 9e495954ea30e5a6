----------------------------- MODULE UdpTunnel -----------------------------
(***************************************************************************)
(* What a daemon finds out about the UDP path to one other node: whether   *)
(* datagrams go both ways (try_udp, udp_confirmed), and how large a record *)
(* may be (try_mtu).  Probes are sent whenever there is traffic; the other *)
(* end answers each with its length, and now and then reports the largest  *)
(* record it has received lately.  Data goes over UDP only when it is not  *)
(* larger than what has been proven, and over the meta connection if not.  *)
(*                                                                         *)
(* Lengths are scaled down: MTU stands for 1518, MinMtu for 512, Floor for *)
(* the 590 bytes that route.c never goes below, Header for the 14 bytes of *)
(* an Ethernet header that a record in router mode does without.           *)
(*                                                                         *)
(* Records are not compressed.  (With Compression, which is off by         *)
(* default, maxrecentlen counts what a record grew to when it was          *)
(* unpacked, and nothing below bounds what is reported.)                   *)
(***************************************************************************)
EXTENDS Integers, FiniteSets, FiniteSetsExt

CONSTANTS
    MTU, MinMtu, Floor, Header,
    MinProbe,   \* MIN_PROBE_SIZE
    MaxProbes,  \* 20: probes of the first discovery
    Misses,     \* udp_discovery_timeout in keepalive intervals
    Frames,     \* lengths of the frames that are sent
    Paths       \* what the paths do: [size, then, steady, kernel, learns, linked, faults], see below

\* A path carries records up to `size` (0: no UDP at all), after a change up to `then`
\* unless it is `steady`;
\* sendto refuses what is larger than `kernel`, and choose_initial_maxmtu knows that; a kernel
\* that `learns` refuses from the change on what is larger than `then`; the other node is `linked` if there is a meta
\* connection to it; so many datagrams are lost or late.
ASSUME PathAssumption ==
    /\ {MTU, MinMtu, Floor, Header, MinProbe, MaxProbes, Misses} \union Frames \subseteq Nat
    /\ 0 < MinProbe /\ MinProbe < MinMtu /\ MinMtu <= Floor /\ Floor < MTU /\ 0 < MaxProbes
    /\ Paths \subseteq [size : 0 .. MTU, then : 0 .. MTU, steady : BOOLEAN, kernel : 0 .. MTU, learns : BOOLEAN, linked : BOOLEAN, faults : Nat]
    /\ \A p \in Paths : p.steady = (p.size = p.then) /\ p.size <= p.kernel /\ p.then <= p.kernel

VARIABLES
    peer,    \* node_t of the other node; `fixed`: its MTU has been fixed before (history)
    longest, \* maxrecentlen over there: the largest frame or probe of ours lately, 0 if none
    flying,  \* lengths of the probe replies on their way to us
    silence, \* pings in a row without an answer
    path     \* one of Paths, with the faults left

tunnelVars == <<peer, longest, flying, silence, path>>

TunnelInit ==
    /\ path \in Paths
    /\ peer = [confirmed |-> FALSE, probes |-> 0, minmtu |-> 0, maxmtu |-> MTU, mtu |-> MTU, fixed |-> FALSE]
    /\ longest = 0 /\ flying = {} /\ silence = 0

-----------------------------------------------------------------------------
try_fix_mtu(n) ==
    IF n.probes >= 0 /\ (n.probes = MaxProbes \/ n.minmtu >= n.maxmtu)
        THEN [n EXCEPT !.minmtu = Min({@, n.maxmtu}), !.maxmtu = Min({@, n.minmtu}),
                       !.mtu = Min({n.minmtu, n.maxmtu}), !.probes = -1, !.fixed = TRUE]
        ELSE n

reduce_mtu_KeepsMtu(n, size) == try_fix_mtu([n EXCEPT !.maxmtu = Min({@, Max({size, MinMtu})})])

\* sendto said EMSGSIZE
reduce_mtu(n, size) ==
    LET m == Max({size, MinMtu})
    IN  try_fix_mtu([n EXCEPT !.maxmtu = Min({@, m}), !.mtu = Min({@, m})])

Restarted(n) == [n EXCEPT !.probes = 0, !.minmtu = 0, !.maxmtu = MTU]

udp_probe_timeout(n) == IF n.confirmed THEN [Restarted(n) EXCEPT !.confirmed = FALSE] ELSE n

\* A probe reply for a record of length len
udp_probe_h(n, len) ==
    LET m == [n EXCEPT !.confirmed = TRUE]
        valid == IF m.probes < 0 /\ len = m.maxmtu THEN [m EXCEPT !.probes = -1] ELSE m
    IN  IF len > m.maxmtu
            THEN [m EXCEPT !.minmtu = len, !.maxmtu = MTU, !.probes = 1]
        ELSE IF m.minmtu < len THEN try_fix_mtu([valid EXCEPT !.minmtu = len])
        ELSE valid

\* send_udp_probe_packet: the node afterwards, and the length if it left the machine.
Probe(n, size) ==
    LET len == Max({size, MinProbe})
    IN  IF len > path.kernel THEN [node |-> reduce_mtu(n, len - 1), sent |-> {}]
        ELSE [node |-> n, sent |-> {len}]

\* Three probes to a cycle instead of eight: the whole interval (a bit less of it when maxmtu
\* is only the default), its square root, one byte.
Offset(n, interval) ==
    LET position == 2 - (n.probes % 3)
        root == CHOOSE r \in 1 .. interval : r * r >= interval /\ (r - 1) * (r - 1) < interval
    IN  IF interval <= 0 THEN 0
        ELSE CASE position = 0 -> 1
               [] position = 1 -> root
               [] OTHER -> IF n.maxmtu = MTU THEN Max({interval - 1, 1}) ELSE interval

\* One round of the loop of try_mtu, which goes on while the system refuses and maxmtu comes down.
Once(r) ==
    LET n == r.node
        low == Max({n.minmtu, MinMtu})
        p == Probe(n, low + Offset(n, n.maxmtu - low))
    IN  IF ~r.again THEN r
        ELSE [node |-> p.node, sent |-> p.sent, again |-> p.node.probes >= 0 /\ p.node.maxmtu # n.maxmtu]

\* The loop, which has come to its end after as many rounds as maxmtu has values.
Burst(n) ==
    LET round[k \in 0 .. MTU + 1] ==
            IF k = 0 THEN [node |-> n, sent |-> {}, again |-> TRUE] ELSE Once(round[k - 1])
    IN  round[MTU + 1]

choose_initial_maxmtu == IF path.kernel < MinMtu THEN MTU ELSE path.kernel

\* mtuprobes < 0: one probe of maxmtu, and one a byte larger to see whether more goes through
Recheck_NeverMore(n) ==
    LET one == Probe(n, n.maxmtu)
    IN  [node |-> [one.node EXCEPT !.probes = @ - 1], sent |-> one.sent]

Recheck(n) ==
    LET one == Probe(n, n.maxmtu)
        more == n.probes = -1 /\ one.node.maxmtu + 1 < MTU
        two == IF more THEN Probe(one.node, one.node.maxmtu + 1) ELSE [node |-> one.node, sent |-> {}]
    IN  [node |-> [two.node EXCEPT !.probes = @ - 1], sent |-> one.sent \union two.sent]

\* try_mtu when it is time for it
try_mtu(n) ==
    LET fixed == try_fix_mtu(n)
        again == IF fixed.probes < -3 THEN [fixed EXCEPT !.probes = 0, !.minmtu = 0] ELSE fixed
    IN  IF again.probes < 0 THEN Recheck(again)
        ELSE LET r == Burst(IF again.probes = 0 THEN [again EXCEPT !.maxmtu = choose_initial_maxmtu] ELSE again)
             IN  [node |-> [r.node EXCEPT !.probes = IF @ >= 0 THEN @ + 1 ELSE @], sent |-> r.sent]

-----------------------------------------------------------------------------
\* Of what was sent, what fits the path is answered; some of the answers may get lost.
Answered(sent) == {l \in sent : l <= path.size}

\* The other end remembers the length of the largest probe too.
Remembered(sent) == Max({longest} \union Answered(sent))

\* With answers still on their way only if one of them is late.
Prompt == flying = {} \/ path.faults > 0
Late == IF flying = {} THEN path ELSE [path EXCEPT !.faults = @ - 1]

TryMtu ==
    /\ Prompt /\ peer.confirmed
    /\ \E r \in {try_mtu(peer)} :
          peer' = r.node /\ flying' = flying \union Answered(r.sent) /\ longest' = Remembered(r.sent)
    /\ path' = Late
    /\ UNCHANGED silence

\* try_udp sends a ping; without UDP, try_mtu has nothing to do but reset.
TryUdp ==
    /\ Prompt
    /\ peer' = IF peer.confirmed THEN peer ELSE Restarted(peer)
    /\ flying' = flying \union Answered({MinProbe}) /\ longest' = Remembered({MinProbe})
    /\ silence' = Min({silence + 1, Misses})
    /\ path' = Late

Reply(l) ==
    /\ l \in flying
    /\ flying' = flying \ {l}
    /\ peer' = udp_probe_h(peer, l)
    /\ silence' = 0
    /\ UNCHANGED <<longest, path>>

Lose(l) ==
    /\ l \in flying /\ path.faults > 0
    /\ flying' = flying \ {l}
    /\ path' = [path EXCEPT !.faults = @ - 1]
    /\ UNCHANGED <<peer, longest, silence>>

\* udp_ping_timeout: the time for several pings has passed since the last reply.
UdpTimeout ==
    /\ peer.confirmed /\ silence = Misses /\ flying = {}
    /\ peer' = udp_probe_timeout(peer)
    /\ UNCHANGED <<longest, flying, silence, path>>

PathChanges ==
    /\ path.then # path.size
    /\ path' = [path EXCEPT !.size = path.then, !.kernel = IF path.learns THEN path.then ELSE @]
    /\ UNCHANGED <<peer, longest, flying, silence>>

\* What route.c lets through
Passes(frame) == Header < frame /\ frame <= Max({peer.mtu, Floor})

\* Whether a frame goes by UDP: its record is no larger than what has been proven, and to a node
\* with a meta connection the frame itself is not.
OverUdp(frame) == frame - Header <= peer.minmtu /\ (path.linked => frame <= peer.minmtu)

\* A frame is sent over UDP.  sendto may refuse it, or it may be too large for the path.
SendFrame(frame) ==
    /\ Passes(frame) /\ OverUdp(frame)
    /\ \E len \in {frame - Header} :
          /\ peer' = IF len > path.kernel THEN reduce_mtu(peer, len - 1) ELSE peer
          /\ longest' = IF len <= path.size THEN Max({longest, frame}) ELSE longest
    /\ UNCHANGED <<flying, silence, path>>

\* The other end's gratuitous reply
Report ==
    /\ longest # 0 /\ Prompt
    /\ flying' = IF path.size < MinProbe THEN flying ELSE flying \union {longest}
    /\ longest' = 0
    /\ path' = Late
    /\ UNCHANGED <<peer, silence>>

TunnelNext ==
    \/ TryMtu \/ TryUdp \/ UdpTimeout \/ PathChanges \/ Report
    \/ \E l \in flying : Reply(l) \/ Lose(l)
    \/ \E frame \in Frames : SendFrame(frame)

-----------------------------------------------------------------------------
\* Sizes and counters stay in their ranges; the number of probes never leaves the states that
\* the comment in try_mtu lists.
TunnelTypeOK ==
    /\ peer \in [confirmed : BOOLEAN, probes : -4 .. MaxProbes, minmtu : 0 .. MTU, maxmtu : 0 .. MTU, mtu : 0 .. MTU, fixed : BOOLEAN]
    /\ longest \in 0 .. MTU /\ flying \subseteq 1 .. MTU /\ silence \in 0 .. Misses

\* As long as the path stays what it is, what counts as proven exceeds what it carries by no more
\* than a header, and no frame that goes over UDP is too large for it: always when there is a
\* meta connection to the node (frames and not records are compared with minmtu then), and
\* otherwise from the moment the MTU was fixed for the first time, for frames up to that MTU.
\* (Before that, or below the 590 bytes, a report that counts the header lets records through
\* that are up to a header too large; they disappear without a trace.)
NothingTooLarge ==
    path.steady =>
        /\ peer.minmtu <= path.size + Header
        /\ \A frame \in Frames :
              Passes(frame) /\ OverUdp(frame) /\ (path.linked \/ (peer.fixed /\ frame <= peer.mtu))
                => frame - Header <= path.size

\* Once discovery has ended, the MTU that route.c goes by is within both bounds: a lower maxmtu
\* found later (the system refused a probe) takes it along.  (minmtu may stay above maxmtu.)
FixedWithinBounds ==
    peer.probes < 0 => (peer.mtu <= peer.maxmtu /\ peer.mtu <= peer.minmtu)

\* With traffic, and once the path is quiet, the MTU in use stays within what the path carries
\* and reaches it again and again, also after the path has shrunk or grown (one byte short of
\* MTU, where maxmtu + 1 is not tried).  It need not stay there: maxrecentlen counts the header
\* that the record did without, so a report can claim more than the path carries, and the
\* rechecks that fail then restart the discovery.  A path without UDP is found out and given up.
MtuConverges ==
    /\ <>[](/\ path.size >= MinMtu => peer.confirmed /\ peer.mtu <= path.size + Header
            /\ path.size = 0 => ~peer.confirmed /\ peer.minmtu = 0)
    /\ []<>(path.size >= MinMtu => peer.mtu >= Min({path.size, MTU - 1}))

\* The sizes by which route.c and send_sptps_data go stay within what the discovery knows, and on a
\* steady path what they let through fits.
TunnelSound ==
    /\ TunnelTypeOK
    /\ NothingTooLarge /\ FixedWithinBounds
============================================================================
