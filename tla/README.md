# tinc in TLA+

A verification development for the tinc VPN daemon: TLA+ models of its
protocols, data structures and tools, translated from the C sources under
`src/src/`, TLC configurations that check them on small instances, and TLAPS
proofs of some of the properties for every value of the constants.

## The system

Every tinc node runs one daemon, `tincd`: a single-threaded event loop
(`event.c`, with a loop per platform) that calls handlers for sockets, for the
virtual network device and for timers. No two handlers of one node ever run at
the same time; all concurrency is between nodes, the network, the timers and
the `tinc` commands of an operator. A handler is therefore one step of a model,
and what can happen between two steps of a node is everything the others do.

| Part | Source | Modelled by |
|---|---|---|
| SPTPS sessions, replay window | `sptps.c` | `SptpsSession`, `SptpsStream`, `RecordChannel`, `ReplayWindow` |
| Keys for packets | `protocol_key.c`, `net_packet.c` | `KeyExchange`; `LegacyTunnel` for the legacy protocol |
| Graph, broadcast | `graph.c`, `edge.c`, `net_packet.c` | `Graph`, `Routing` |
| Edge gossip, past requests | `protocol_edge.c`, `protocol.c` | `EdgeGossip`, `PastRequests` |
| Subnets | `subnet.c`, `subnet_parse.c`, `hash.h`, `protocol_subnet.c` | `Subnets`, `SubnetGossip` |
| Packet routing | `route.c`, `net_packet.c` | `Forwarding`, `PacketEdit` |
| MTU and UDP discovery, relays | `net_packet.c`, `protocol_misc.c` | `UdpTunnel`, `Relay` |
| Authentication | `protocol_auth.c` | `MetaAuth` |
| Meta connections | `meta.c`, `buffer.c`, `proxy.c`, `net.c` | `MetaStream`, `KeepAlive`, `Tarpit` |
| Outgoing connections | `net_socket.c`, `autoconnect.c`, `address_cache.c` | `Outgoing`, `AddressCache` |
| Event loop, containers | `event.c`, `linux/event.c`, `bsd/event.c`, `event_select.c`, `splay_tree.c` | `EventLoop`, `SplayTree` |
| Start, stop, control socket | `tincd.c`, `net_setup.c`, `control.c`, `tincctl.c` | `Lifecycle`, `Control` |
| Invitations | `invitation.c`, `protocol_auth.c` | `Invitation` |
| Configuration and key files | `conf.c`, `keys.c`, `fsck.c`, `tincctl.c` | `ConfigFiles`, `KeyFiles` |

How the parts interact. `Lifecycle` brings a daemon up, with a configuration
read as in `ConfigFiles`. A meta connection is dialled by `Outgoing` or accepted
through `Tarpit`, authenticated by `MetaAuth`, carried by `MetaStream`, secured
by an SPTPS session, watched by `KeepAlive`, and announced by `EdgeGossip`;
`SubnetGossip` says who owns which addresses. Every change of the edge table
runs the graph algorithms, whose next hops carry requests and whose tree carries
broadcasts (`Routing`). A packet from the device is looked up in `Subnets`, goes
where `Forwarding` says, edited by `PacketEdit` where needed, as a record of a
session that `KeyExchange` set up, over the hops that `Relay` and `UdpTunnel`
choose, and through the window of `ReplayWindow`. All of it runs on `EventLoop`
and `SplayTree`.

Modules that extend others compose them: `SptpsStream` and `KeyExchange` run two
sessions of `SptpsSession` each, `Routing` one `Graph` per node, `Outgoing` the
cursor of `AddressCache`, `Forwarding` the packet edits of `PacketEdit`.

## Modules and their correspondence with the code

### Sessions and keys

**ReplayWindow** is `sptps_check_seqno` and its callers. `late` is the bitmap,
indexed by sequence number modulo `WindowBits`, `farfuture` the counter of
packets far ahead, `SeqModulus` stands for 2^32. A datagram's identity is its
number before wrapping. The network may deliver any datagram sent so far, any
number of times, in any order. `Deliver`, `DropFar` and `DropQuietly` are the
three ways out of the function.

**SptpsSession** is the rest of `sptps.c` as operators on a session record.
Keys are symbolic: the material made from two KEX records in their roles, and of
that the half for one direction. A record is decrypted exactly when the key and
the sequence number match. **SptpsStream** puts two sessions at the ends of two
FIFO streams, as `meta.c` does; **RecordChannel** is what this promises.

**KeyExchange** runs two sessions in datagram mode whose handshake records
travel in REQ_KEY and ANS_KEY over meta connections (FIFO, a request may be
lost with its connection) and whose packets travel over UDP. The status bits
`validkey`, `waitingforkey` and the ten-second test on `last_req_key` are
state. `Receive` is shared by `ans_key_h` and `receive_udppacket`, as the
restart on failure is in the code. KEX identities come from a pool and are used
again when nothing remembers them, so behaviours may be of any length.

**LegacyTunnel** is the same for the legacy protocol, in one direction: the
`taker` makes up keys (`regenerate_key`, `send_ans_key`), the `sender` asks for
them (`try_tx_legacy`) and numbers its packets. The receiver's bitmap marks the
numbers that are missing (`Marked`), the opposite of the SPTPS one. The sequence
number of a key runs up to a limit, after which the key is regenerated.

### Topology

**Graph** is `graph()`: `Begin`, `Examine` (one edge), `NextNode` for
`sssp_bfs`, `Adopt` for `check_reachability`, `AddSafe` and `Finish` for
`mst_kruskal`. The edge table is chosen from `Graphs`: each link may exist in
both directions, or in one, with a weight and `OPTION_INDIRECT`. **Routing** lets
every node run `graph()` on the same table and then forwards requests and
broadcast packets by what each node found. **SmallGraphs** enumerates tables.

**EdgeGossip** has a table of edges per node, FIFO queues per connection, and
one operator per handler: `add_edge_h`, `del_edge_h` with its clean-up, `ack_h`
with replacement of an older connection, `send_everything`,
`terminate_connection`. A socket may be closed at any moment and takes the
requests it had not flushed with it. Requests never age there; **PastRequests**
is about ageing: `seen_request`, `forward_request`, and the timer of
`age_past_requests` in seconds, with copies that take a time of `HopTimes` on
every connection, some longer than the tree remembers them.

**SubnetGossip** is `add_subnet_h` and `del_subnet_h` for the owner (which
contradicts), for other nodes, for nodes with StrictSubnets and for a
TunnelServer; `send_everything` on a new connection; reload, `age_subnets` and
the subnet half of `purge`. `handed` are learned addresses that another node
has announced meanwhile and that the owner lets expire.

### Packets

**Subnets** is the table of one daemon: `Precedes` is `subnet_compare`, `Lookup`
the walk through the tree, `cache` the hash tables of `hash.h` with their probe
sequences. The table changes by announcements, configuration, MAC learning
(`learn_mac`, `age_subnets`) and the reachability of owners. Parsing and printing
(`str2net`, `net2str`) are there by what they do to prefix length and weight.

**Forwarding** follows one frame through `route()` on each node it visits. A
`world` holds the settings (mode, Forwarding, Broadcast, DecrementTTL,
DirectOnly, legacy or SPTPS, TunnelServer) and what each node believes. `route_ip`
is `route_ipv4` and `route_ipv6` with their errors, fragments and rate limit;
`route_mac`, `route_arp` and `route_neighborsol` follow the functions of that
name. **PacketEdit** is the arithmetic on bytes that goes with it, as operators on
16-bit words: `inet_checksum`, `do_decrement_ttl`, `clamp_mss`,
`fragment_ipv4_packet`; its only step takes an input. A frame's `head` says
whether its header has IP options, is followed by padding, or looks like a "time
exceeded", which are the cases in which `route.c` says nothing.

**UdpTunnel** is one node's knowledge of one path: `try_udp`, `try_mtu` with its
probes (scaled lengths), replies of both kinds, `reduce_mtu` on EMSGSIZE,
`udp_probe_timeout_handler`, `try_fix_mtu`. A `path` carries records up to a size
that may change once, with or without the kernel noticing, and is `linked` where
there is a meta connection to the node as well: then frames and not records are
compared with `minmtu`. `fixed` remembers that `try_fix_mtu` has fixed an MTU
once. **Relay** takes over
where there are nodes in between: `send_sptps_data` chooses relay and transport
at each hop, `handle_incoming_vpn_packet` and `sptps_tcppacket_h` receive and pass
on, UDP_INFO and MTU_INFO travel back; discovery is one step per hop there. A
relay whose hop carries less than 512 bytes says so in an MTU_INFO that its
receiver does not accept: `mtu_info_h` fails and the connection is closed.

### Meta connections

**MetaAuth** is a connection between an initiator and a responder: `id_h` with
its choice of protocol, `metakey_h`, `challenge_h`, `chal_reply_h`, `ack_h`,
`upgrade_h`, the SPTPS handshake with the order of its signatures, closing and
timing out. A `case` says
which keys each side has and knows, whether the responder is who it says, and
whether a proxy stands in between. **MetaStream** is what carries these bytes:
`send_meta` and `handle_meta_write` at one end, `receive_meta` at the other,
which cuts the bytes that the socket hands it into proxy answers, lines, SPTPS
records and raw packets, and changes to ciphertext in the middle of a buffer. A
failed write, a full input buffer and the end of the stream end the connection.

**KeepAlive** is `timeout_handler`, in seconds, with the rounds of the event loop
that it runs in: timers first (`Watch`), then the sockets that were ready when
the loop asked (`EndRound`), each of which may take its time (`Work`). `loopNow`
is the loop's `now`, which stands still meanwhile, and a PONG may wait unread.
Unfinished connections, PING, PONG and waking up after sleep are there; control
connections are spared. **Tarpit** is
`check_tarpit`, `handle_new_meta_connection` and the ring of sockets in `tarpit`.

**AddressCache** and **Outgoing** follow one `outgoing_t`: its timer, its
back-off, the connections to the node (attempts, authenticating, activated,
incoming ones), the take-over in `ack_h`, `retry()`, reload and autoconnect.

### What the daemon runs on

**EventLoop** has timers in a tree ordered by time, descriptors with the events
they want, and the batch of events a loop is dispatching; `flavour` is one of the
three loops, which differ in how they notice that a callback has removed or
replaced a descriptor of the batch. **SplayTree** is `splay_tree.c` with parent,
child and list pointers, and the `splay_each` loop whose body deletes and inserts.

### Administration

**Lifecycle** has the steps of `main2`, `setup_network`, `init_control` and their
undoing as separate steps of each daemon, because daemons and `tinc` commands run
side by side; `files` says who wrote the PID file and bound the socket. A command
that finds the number of a dead process removes both by name, in two steps.
**Control** is the daemon's `control_h` and logging on one side, a `tinc` shell's
commands and `recvline` on the other; a shell keeps what it had received when a
connection ends (`buffer`), and reads it before the greeting of the next one.
**Invitation** joins `cmd_invite`, `receive_invitation_sptps`, `finalize_join`
(with and without `--force`) and `finalize_invitation`; a machine may try again,
and another program than `tinc join` may send several lines for a key.

**ConfigFiles** models a file as a sequence of lines of some kind, with a variable
and a value; the tree is ordered as `config_compare` orders it. `disk` holds the
files, `conf` and `temp` say which one has the name of the configuration file and
which that of its copy, so that two `tinc config` commands that write the same
copy, and write on after one has renamed it, do what the system does. A command
reads, writes, renames and tells the daemon in steps between which the daemon may
append or reload, and may end at any of them.
**KeyFiles** models a file as a sequence of keys; `disable_old_keys`, key
generation, the readers of `keys.c` and the repairs of `fsck.c` work on it in
steps. A command may die between two, a step may fail, and what was appended may
be lost when the file is closed, which no command looks at.

## What is checked

Seven passing runs. Four are about one model each; three check several parts,
one at a time: the MC module extends them all, the variable `part` says which
one takes steps, the others stay in a state in which they start.

A property that ends in `Sound` (and `TablesAgree`, `BroadcastsArrive`) is what a
part promises as a whole: its type invariant and named statements, each defined
and explained before it, in conjunction. Those that contain action properties are
given to TLC as temporal properties.

| Run | Parts and properties | Shows |
|---|---|---|
| `key_exchange` | `KeyExchange`: `SessionsSound`, `NoStorm`, `KeyAlwaysReturns` | finished handshakes agree, status bits match the session, no restart storms; after any fault an agreed pair of keys returns |
| `routing` | `Graph`, `Routing`: `ReachabilityExact`, `RoutesSound`, `BroadcastsArrive`, `EveryoneFinishes` | reachability exact, `abort()` never reached, next hops are peers, directness never claimed wrongly, trees span and agree, everyone finishes. Where no edge is indirect: next hops on shortest paths, requests arrive, broadcasts reach everyone once |
| `edge_gossip` | `EdgeGossip`: `TablesAgree`, `DiesOut` | a node's own edges are its connections; when nothing about an edge is under way, tables agree with the connections they can hear of; floods and contradictions die out |
| `outgoing` | `Outgoing`, `AddressCache`: `OutgoingSound`, `Reconnects` | one attempt, one activated connection, complete rounds over the configured addresses; unless the peer connects by itself, our connection always comes back |
| `protocols` | `SptpsStream`: `StreamSessionsSound`, `HandshakeFinishes`, `IsRecordChannel` | two ends never fail, keys agree and differ by direction, handshakes finish, the stream implements `RecordChannel` |
| | `SubnetGossip`: `GossipSound`, `GossipEnds` | once all is handled, everyone knows exactly the subnets of the nodes they reach, and strict nodes what their files say; the gossip ends |
| | `MetaAuth`: `AuthSound`, `UpgradeWorks` | only a verified peer is activated; a peer whose Ed25519 key is known never gets in by the legacy protocol; where both sides know the other's key, or neither does, no message is read with the wrong cipher, and upgrades happen on both sides or neither; they are followed by an SPTPS connection |
| | `UdpTunnel`: `TunnelSound`, `MtuConverges` | while a path stays as it is, no frame sent over UDP is too large for it, if there is a meta connection or the MTU has been fixed; a fixed MTU is within both bounds; the MTU in use gets to what the path carries again and again |
| | `LegacyTunnel`: `LegacySound`, `KeyArrives` | no packet accepted twice; a valid key is the last one made up, though the receiver may not expect it (see below); a key arrives |
| `network` | `Subnets`: `SubnetsSound` | no cached pointer to a freed subnet; a lookup through the cache gives what the longest prefix gives; masks and printing agree with parsing; ageing never stops while something can age |
| | `PacketEdit`: `PacketEditSound` | checksum, TTL, MSS and fragments as the RFCs define them |
| | `Forwarding`: `ForwardingSound` | a packet reaches its owner at most once, and whole or not at all; where nodes agree its sender is told when it does not; broadcasts reach everyone once; loops end with DecrementTTL |
| | `Relay`: `RelaySound` | records arrive, are never larger than the hop carries, and UDP_INFO and MTU_INFO only improve what is known |
| | `ReplayWindow`: `NoDoubleDelivery`, `FreshAccepted` | no datagram is accepted twice; none within the window that is new is refused |
| | `MetaStream`: `StreamSound` | messages come out as they went in, as soon as they are complete; the writer is woken while there is output; SOCKS lengths fit |
| | `KeepAlive`: `AliveSound` | a dead peer is noticed in time; one that answers is closed only if handlers left its answer unread for long enough; control connections are spared |
| | `PastRequests`: `PastSound` | everyone hears a request, and handles it once if its copies are fast; only a steady stream of new requests keeps old ones from being forgotten |
| | `Tarpit`: `TarpitSound` | bursts are limited, refusals happen in bursts only; the sockets held are the latest ones |
| | `EventLoop`: `LoopSound` | no callback of a closed descriptor, none unwanted, timers run once |
| | `SplayTree`: `SplaySound` | an ordered set in tree and list, searches right, loops visit what stays |
| `administration` | `Lifecycle`: `LifeSound`, `CommandsEnd` | after `tinc stop` the daemon is gone; one that was always alone can be reached, unless a command took its files for those of a dead one; commands return |
| | `Control`: `ControlSound`, `CommandsEnd` | every command reads its own answer and ends; subscribers get every record |
| | `Invitation`: `InvitationSound` | an invitation is used once and not too late; whoever believes to have joined is known; host files stay; nothing unsafe is taken over |
| | `ConfigFiles`: `ConfigSound` | options of the command line win; an edit that no other interferes with changes what it should and nothing else; what was set is what is then read, and the daemon works from the files as they are once it was told |
| | `KeyFiles`: `KeyFilesSound` | no key is lost; a new pair is the one in use, and `fsck` repairs what it offers to repair, but for a host file with a `PublicKey =` |

Five runs show where the code departs from what its documentation or comments
say, each with a counterexample:

| Run | Property | Disagreement |
|---|---|---|
| `key_expire` | `RenegotiationProceeds` | a lost renegotiation is never taken up again, and the key never expires |
| `broadcast_indirect` | `BroadcastGuaranteed` | with indirect edges, a broadcast over the tree can miss nodes |
| `edge_cleanup` | `ConnectionsKnown` | the clean-up after DEL_EDGE can lose a live edge for good |
| `edge_stale` | `GoneForgotten` | the edge of a closed connection can remain |
| `outgoing_orphan` | `NeverAbandoned` | a ConnectTo that met an incoming connection is never retried |

Two of these mark the limits of a passing run. `ConnectionsKnown` and
`GoneForgotten` hold in the plans of `edge_gossip`, as parts of `TablesAgree`, and fail in the one where a
chain of nodes becomes a ring while a connection of the chain is closed: then
the clean-up of another node's edge races with an announcement that travels the
other way round. And the properties about next hops are stated for tables
without `OPTION_INDIRECT`, because `sssp_bfs` gives a node a longer path when
that makes it direct, and keeps distances and next hops of nodes behind it.

### Disagreements met on the way, without a run of their own

* `route.c:461`: `clamp_mss` tests the length of the MSS option without the
  index of the option, so an MSS option behind another one is left alone,
  although `doc/tinc.texi` says that ClampMSS clamps the segment size to the path
  MTU. `MssSound` speaks of the option that the walk finds.
* `control.c:240`: a second daemon that fails to start because the first one has
  the port goes through `exit_control`, which removes the PID file and the socket
  of the first. `doc/tincd.8.in` says that the PID of the running daemon is stored
  in the file. `AloneMeansReachable` excludes daemons that overlapped.
* `invitation.c:405`: `tinc invite` deletes invitations older than a week whatever
  InvitationExpire says; the option is only known to the daemon.
* `sptps.c:499`: a far-future packet that is accepted after `farfuture` ran over
  advances `inseqno` only if its number is larger, which after a wrap of the
  number it is not; the comment at `sptps.c:469` says that the others are then
  considered lost. `ReplayWindow` with `MaxSent` beyond `SeqModulus`
  gets there.
* `net_setup.c:157`: `regenerate_key` clears `validkey_in` after
  `send_key_changed` has sent the peers their new keys ("Immediately send new keys
  to directly connected nodes to keep UDP mappings alive", `protocol_key.c:43`),
  so packets under these are refused until the key is sent again. `KeysMeet`
  admits a receiver without a key for this reason, and does not catch it.
* `net.c:351`: a reload reads the options of the command line again for the
  server's variables, not for its host file.
* `net_socket.c:705`: the test for connections of one host compares with a copy
  of the pointer to the address, so only the limit for all hosts is in force.
* `net_socket.c:721`: `doc/tinc.conf.5.in:387-391` says of MaxConnectionBurst "how
  many connections tinc accepts in quick succession", and that above it tinc will
  "reduce the number of accepted connections to only one per second". One fewer
  is accepted, and an attempt that is refused counts too, so that a peer that
  tries once a second after a burst is refused every time. `BurstLimited` and
  `RefusedInBurst` state what the code does.
* `fsck.c:348`: a wrong `PublicKey =` in the host file is found ("public and private
  RSA keys do not match"), the fix writes a block that is never read because
  `disable_old_keys` leaves the line alone and the line is read first, and `fsck`
  says "Wrote RSA public key". `FsckRepairs` leaves this case out, and `NewPairInUse`
  the same one for `generate-keys`. `fclose` is not looked at (`fsck.c:286`, `:315`), so
  a full disk goes unnoticed; both properties are about commands that met none.
* `tincctl.c:770`: a command that read the number of a dead process and is slow to
  remove the files removes those of a daemon that started in between.
  `AloneMeansReachable` leaves out the daemon to which that happened.
* `protocol_misc.c:339`: an MTU_INFO of less than 512 bytes, which `send_mtu_info`
  does send, ends the connection to the relay that measured it. `ProvisionalFits`
  leaves hops of less than that out.
* `protocol_auth.c:408-437`: where exactly one of two daemons knows the other's
  Ed25519 key, one may take the connection for SPTPS and the other for the legacy
  protocol. It ends with a message that is misread. `NothingMisread` and
  `UpgradedTogether` leave this case out; `OnlyVerified` and `NoRollback` do not.
* `net_packet.c:1198-1216`: a report of the longest packet counts the Ethernet
  header that the record did without, so `minmtu` can exceed what the path carries,
  and `maxmtu`, by a header. See the comment of `NothingTooLarge`.
* `protocol.c:234`: each new request moves the ageing of old ones ten seconds on.
  While requests come faster than that nothing is forgotten.
* `subnet.c`: `lookup_subnet_mac` answers from the cache without regard to the
  owner it was asked for. Callers in `route.c` ask for no owner but when learning.

### Bounds, and why they are enough

* SPTPS: three KEX records and two application records per end: one initial
  handshake and up to two renegotiations that may cross.
* KeyExchange: `Conditions` lists which nodes send packets, how many requests
  may be under way when the ten seconds run out, and how many faults and
  renegotiations there are. The run has two senders whose requests cross, with a
  fault or a renegotiation; one sender whose answers come late; and one sender
  with a fault and a renegotiation at any moment. Behaviours have any length.
* Graph and Routing: all tables on four nodes whose links are absent, one-way or
  of weight 1 or 2, and all whose links are absent, of weight 1 or 2, or
  indirect. Four nodes are the least on which a node can be found again over a
  longer path with something behind it. `Graph` is proved for every table.
* EdgeGossip: three nodes, in one of three plans. `ComeAndGo`: two connections
  with attributes of their own, one spontaneous close that takes any number of
  requests with it. `Reunion`: a node that remembers edges which are gone joins
  the others again. `Replacement`: in a ring, where news arrives over two ways,
  two nodes connect once more.
* Outgoing: two simultaneous connections, three addresses with one in each
  list, back-off in two steps, and four `Settings`, with incoming connections
  and AutoConnect each on or off, and between two and six faults and changes.
* SubnetGossip: three nodes in a line or a triangle, one range that one or two of
  them may own, up to three cuts and joins, two changes, two purges; one plan
  with learned addresses, one with a strict node, one with a TunnelServer. Two
  owners of one range and news over two ways need no more nodes.
* MetaAuth: all combinations of which side uses Ed25519 and knows the right, a
  wrong or no key of the other, with or without legacy keys and timeouts; all
  combinations of a responder that is not genuine, not the one wanted, does not
  know us or has another major version, with and without proxies. Two tries,
  because an upgrade takes effect on the second.
* UdpTunnel: lengths up to 12 for 1518, with a header of 1, and nine paths: steady,
  narrowing, widening (also from and to no UDP at all), noticed by the kernel or
  not, with and without a meta connection; one loss or late answer.
* LegacyTunnel: window of 3, two keys, three packets of which two are under way at
  a time, numbers up to 2 so that the limit is met, one lost request.
* Replay window: a window of 4 bits, 12 datagrams, modulus 32. The sender gets
  three windows ahead, so every slot is used again, and the far-future limit is
  reached. The proofs cover every size below the wrap.
* Subnets: addresses of two digits of one bit, hash tables of three slots with two
  probes so that entries collide; prefixes of length 0, 1 and 2, equal addresses
  of several owners, and broadcast subnets.
* Forwarding: three nodes in a line and in a triangle that they do not agree on;
  27 worlds that cover each setting of `route.c`, and frames of each kind that fit,
  must be split, or may not be. PacketEdit: words and bytes at the edges of ones'
  complement, option lists with options before the MSS, lengths around multiples
  of eight. Relay: three nodes, eleven networks with blocked pairs, NAT, narrow and
  too narrow hops, TCPOnly, a missing key, an indirect edge, and one that a node
  has not heard of yet.
* MetaStream: five streams with every kind of message, cut by the socket in every
  way, into an input buffer of 4 bytes, with one line that does not fit.
* KeepAlive: a ping interval of 3 and a timeout of 2 seconds, peers that take up to
  1, handlers that together take up to 2 in a round, 16 seconds: several intervals,
  and a sleep of more than the 3 after which all connections are closed.
* PastRequests: a triangle, an age of 3 and an ageing interval of 2 seconds; a
  request whose copies take up to 3, and two more that arrive while it ages.
* Tarpit: bursts of 3, a ring of 2, five connections. EventLoop: two descriptors and
  two timers, three loops. SplayTree: five keys, which is enough for every
  rotation, and two changes in the body of a loop.
* Lifecycle: three daemons, two commands, one start by hand, and either a signal or
  a crash and a failing step. Control: two tools, one with two commands, the other
  with one, a message and a dump of up to one row.
* Invitation: two invitations for one name, whose contents are an ordinary file or
  one that was edited; two machines, one with a directory of its own and one that
  uses `--force`; lifetimes on either side of the week; a lost connection or a crash.
* ConfigFiles: four starting points and two commands out of thirteen, together or
  one after the other, one line of the daemon's. KeyFiles: four host files and four
  private ones, two commands and one mishap.

The runs set `CHECK_DEADLOCK FALSE` because each bounded system may really
stop: the datagrams are spent, `graph()` has returned, the network is quiet,
the failures are used up, the operator gives no more commands.

### Fairness

Weak fairness of the handlers that the event loop will call: a record or
request that has arrived is received, an armed timer fires, a graph computation
goes on, a connection attempt ends one way or another, a daemon or a command that
can go on does. In KeyExchange and LegacyTunnel the ten seconds pass and the node
that has packets to send keeps sending. In MetaAuth the initiator dials again.

UdpTunnel assumes more: that `try_mtu` is run again and again when no probe is
under way. Its callers run it for each packet, and it waits between probes longer
than an answer takes, so this is what a node with traffic does; without it a
scheduler could keep every answer until after the next probe. The same holds for
`try_udp`, which is why it has strong fairness.

Faults, operator actions and renegotiations are never assumed to happen. In a run
of several parts the fairness of a part is conditioned on it being the one that
takes steps.

## What is proved

`ReplayWindowProofs` (assuming only that the numbers in use do not reach the
modulus, `NoWrap`): `TypeCorrect`, `ReplayProtection`, `NoNeedlessLoss`. The
inductive invariant `IInv` adds to the properties that the receiver trails the
sender (`Bounds`), that nothing at or beyond `inseqno` was delivered
(`NothingAhead`), and that inside the window a bit is set exactly for the
datagrams not delivered yet (`WindowExact`). The last is what makes the
argument go through: NoDoubleDelivery says nothing of the bitmap, and a wrong
bit would only show when its slot is used again. It rests on
`SlotInjective`: two numbers less than a window apart have different slots.

`GraphProofs`, for every finite edge table and every myself: `GraphTypes`,
`Reachability`, `NeverAborts`, `NexthopHasConnection`, `SpanningTreeConnects`.
The inductive invariant says that every visited node was reached over confirmed
edges and has a distance and a next hop that is a neighbour (`Found`), that a
visited node whose edges are not all explored is still on the list
(`Searching`), hence that the visited set is closed when the list is empty,
and for Kruskal's loop that the visited nodes are connected by the tree.

Only model-checked: everything about liveness (`EveryoneFinishes`, `DiesOut`,
`Reconnects`, `KeyAlwaysReturns`, `HandshakeFinishes`, `GossipEnds`,
`UpgradeWorks`, `MtuConverges`, `KeyArrives`, `CommandsEnd`),
which TLAPS cannot do; what recursive definitions compute (`PacketEdit`,
`SplayTree` and others); refinement of `RecordChannel`; and the modules
whose invariants have not been made inductive.

## What is not modelled, and why

* Device drivers (`*/device.c` and the like): reads and writes of a descriptor.
* Cryptographic primitives, compression: arithmetic; symbolic where they are used.
* Scripts, sandbox, UPnP, address and interface utilities: effects outside the
  daemon. The UPnP thread shares nothing but its configuration.
* Assignment of configuration variables in `net_setup.c`, option parsing, names:
  straight-line code. What others depend on is in `Lifecycle` and `SubnetGossip`.
* Commands of `tinc` that print, copy or edit text (`top`, `info`, `edit`, `export`,
  `import`, `sign`, `verify`, completion, the layout of dumps); `ifconfig.c`.
* `list.c`: the models use sequences.
* Parts of modelled components: the Windows event loop and signals, PROXY_EXEC, the
  deletion of nodes and edges in `purge`, TunnelServer mode of the edge gossip,
  host options on the command line, reuse of process numbers.
