------------------------------ MODULE Outgoing ------------------------------
(***************************************************************************)
(* How a daemon keeps up its meta connection with one peer.  An outgoing_t *)
(* in outgoing_list stands for the intention to be connected; it moves     *)
(* between the connection_t that is trying or has succeeded and a timer    *)
(* that will try again.  The peer connects to us as well, connections      *)
(* replace each other, the configuration is reloaded, and AutoConnect adds *)
(* and removes intentions of its own.                                      *)
(*                                                                         *)
(* The other nodes are seen only through `elsewhere`: whether their edges  *)
(* lead to the peer.  Times are counted in steps of the back-off; a timer  *)
(* that runs may fire at any moment.                                       *)
(***************************************************************************)
EXTENDS AddressCache

CONSTANTS
    Addresses,    \* addresses of the peer
    Source,       \* the address its own connections come from
    Home,         \* the address such a connection announces in its edge
    Alive,        \* the addresses at which it answers
    CacheFile,    \* what the cache holds at start-up
    Reported,     \* its addresses in the edges of other nodes
    MaxTimeout,   \* MaxTimeout, in steps of the back-off
    MaxConns,     \* bound: connections with the peer at one time
    Settings      \* what surrounds the daemon, and bounds on what happens to it

\* Whether the peer connects to us, the AutoConnect variable, and how many times
\* connections are closed that are not due to a dead address, and how many reloads
\* and changes elsewhere there are.
ASSUME OutgoingAssumption ==
    /\ Alive \subseteq Addresses /\ Home \in Addresses /\ Source \notin Addresses
    /\ CacheFile \in Seq(Addresses) /\ Len(CacheFile) <= MaxCached /\ IsInjective(CacheFile)
    /\ Reported \in Seq(Addresses) /\ Config \in Seq(Addresses)
    /\ MaxTimeout \in Nat \ {0} /\ MaxConns \in Nat \ {0}
    /\ Settings \subseteq
          [incoming : BOOLEAN, autoconnect : BOOLEAN, faults : Nat, changes : Nat]

VARIABLES
    d,        \* the daemon
    offered,  \* addresses offered since get_recent_address last returned NULL
    missed,   \* addresses it had not offered when it returned NULL
    env       \* one of Settings, with the faults and changes that are left

outVars == <<d, offered, missed, env>>

(***************************************************************************)
(* The state of the daemon:                                                *)
(*   listed, timeout, timer  the outgoing_t, its timeout, whether ev runs  *)
(*   conns       connection_list, oldest first: id, phase, whether         *)
(*               c->outgoing is set, and the address                       *)
(*   current     n->connection, 0 if NULL                                  *)
(*   peeredge    there is an edge from the peer to us                      *)
(*   elsewhere, reachable, udp   status of the peer                        *)
(*   cache       n->address_cache                                          *)
(*   told        addresses that get_recent_address returned in this step,  *)
(*   dry         and whether it returned NULL                              *)
(***************************************************************************)
Blank ==
    [listed |-> FALSE, timeout |-> 0, timer |-> FALSE,
     conns |-> <<>>, current |-> 0,
     peeredge |-> FALSE, elsewhere |-> FALSE, reachable |-> FALSE, udp |-> FALSE,
     cache |-> Opened(CacheFile), told |-> {}, dry |-> FALSE]

Ids(r) == {r.conns[i].id : i \in DOMAIN r.conns}
Place(r, id) == CHOOSE i \in DOMAIN r.conns : r.conns[i].id = id
Conn(r, id) == r.conns[Place(r, id)]
NewId(r) == CHOOSE i \in 1 .. Len(r.conns) + 1 : i \notin Ids(r)

connection_del(conns, i) == SubSeq(conns, 1, i - 1) \o SubSeq(conns, i + 1, Len(conns))

Change(r, c) ==
    [r EXCEPT !.conns = [i \in DOMAIN @ |-> IF @[i].id = c.id THEN c ELSE @[i]]]

Owners(r) == {c \in Range(r.conns) : c.out}

EdgeAddress(c) == IF c.addr = Source THEN Home ELSE c.addr

-----------------------------------------------------------------------------
\* get_known_addresses: where edges that have a reverse say the peer is.
Known(r) ==
    LET own == IF r.current # 0 /\ r.peeredge THEN <<EdgeAddress(Conn(r, r.current))>> ELSE <<>>
    IN  own \o (IF r.elsewhere THEN Without(Reported, Range(own)) ELSE <<>>)

retry_outgoing(r) ==
    [r EXCEPT !.timeout = IF @ < MaxTimeout THEN @ + 1 ELSE MaxTimeout, !.timer = TRUE]

\* do_outgoing_connection: the first address that connect() accepts.  One at
\* which nobody answers may be refused at once.
do_outgoing_connection(r) ==
    LET offers == Offers(r.cache, Known(r))
        Told(j) == [r EXCEPT !.told = @ \cup {offers[i] : i \in 1 .. j}]
        Trying(j) == [Told(j) EXCEPT
            !.cache = After(@, Known(r), j),
            !.conns = Append(@, [id |-> NewId(r), phase |-> "connecting",
                                 out |-> TRUE, addr |-> offers[j]])]
        failed == retry_outgoing([Told(Len(offers)) EXCEPT !.cache = Exhausted(@), !.dry = TRUE])
    IN  {Trying(j) : j \in {i \in DOMAIN offers : \A h \in 1 .. i - 1 : offers[h] \notin Alive}}
        \cup (IF Range(offers) \cap Alive = {} THEN {failed} ELSE {})

setup_outgoing_connection(r) ==
    LET s == [r EXCEPT !.timer = FALSE]
    IN  IF r.current # 0 THEN {s} ELSE do_outgoing_connection(s)

\* graph(): the peer becomes reachable or unreachable.
graph(r) ==
    LET now == r.elsewhere \/ (r.current # 0 /\ r.peeredge)
    IN  IF now = r.reachable THEN r
        ELSE [r EXCEPT
                !.reachable = now,
                !.udp = FALSE,
                !.cache = IF now /\ r.current # 0 /\ Conn(r, r.current).out
                          THEN AddRecent(@, Conn(r, r.current).addr) ELSE @]

terminate_connection_Gives(r, id, report) ==
    LET c == Conn(r, id)
        cut == IF c.id = r.current THEN graph([r EXCEPT !.current = 0]) ELSE r
        clean == IF c.id = r.current /\ report /\ ~ cut.reachable
                 THEN [cut EXCEPT !.peeredge = FALSE] ELSE cut
    IN  {[clean EXCEPT !.conns = connection_del(@, Place(r, id))]}

terminate_connection(r, id, report) ==
    LET c == Conn(r, id)
        cut == IF c.id = r.current THEN graph([r EXCEPT !.current = 0]) ELSE r
        clean == IF c.id = r.current /\ report /\ ~ cut.reachable
                 THEN [cut EXCEPT !.peeredge = FALSE] ELSE cut
        gone == [clean EXCEPT !.conns = connection_del(@, Place(r, id))]
    IN  IF c.out THEN do_outgoing_connection(gone) ELSE {gone}

ack_h_BothOwn(r, id) ==
    LET c == Conn(r, id)
        old == Conn(r, r.current)
        kept == IF r.current = 0 THEN {r}
                ELSE terminate_connection(
                        Change(r, [c EXCEPT !.out = c.out \/ old.out]), old.id, FALSE)
    IN  {graph(Change([s EXCEPT !.current = id], [Conn(s, id) EXCEPT !.phase = "active"]))
            : s \in kept}

\* ack_h: a second connection replaces the first and takes over its outgoing_t.
ack_h(r, id) ==
    LET c == Conn(r, id)
        old == Conn(r, r.current)
        kept == IF r.current = 0 THEN {r}
                ELSE terminate_connection(
                        Change(Change(r, [c EXCEPT !.out = c.out \/ old.out]),
                               [old EXCEPT !.out = FALSE]),
                        old.id, FALSE)
    IN  {graph(Change([s EXCEPT !.current = id], [Conn(s, id) EXCEPT !.phase = "active"]))
            : s \in kept}

\* Close every connection of the list, as reload_configuration does when the
\* host file has changed and timeout_handler after a long sleep.  A loop over
\* the list also meets what is appended to it, unless it is at the end by then.
Closed(S, id) == UNION {terminate_connection(s, id, id = s.current) : s \in S}
CloseAll(r) ==
    LET ids == [i \in DOMAIN r.conns |-> r.conns[i].id]
        closed[i \in 0 .. Len(ids)] == IF i = 0 THEN {r} ELSE Closed(closed[i - 1], ids[i])
        late == ids # <<>> /\ ~ r.conns[Len(ids)].out
    IN  UNION {IF late /\ s.conns # <<>> THEN terminate_connection(s, s.conns[1].id, FALSE)
                                         ELSE {s} : s \in closed[Len(ids)]}

-----------------------------------------------------------------------------
Listed(r) == [r EXCEPT !.listed = TRUE, !.timeout = 0]

\* list_delete with free_outgoing.
Unlist(r) == [r EXCEPT !.listed = FALSE, !.timeout = 0, !.timer = FALSE]

Disowned(r) == [r EXCEPT !.conns = [i \in DOMAIN @ |-> [@[i] EXCEPT !.out = FALSE]]]

\* try_outgoing_connections, with or without a ConnectTo for the peer.
try_outgoing_connections(r, connectto) ==
    IF connectto
    THEN IF r.listed THEN {[r EXCEPT !.timeout = 0]} ELSE setup_outgoing_connection(Listed(r))
    ELSE IF ~ r.listed THEN {r}
    ELSE {Unlist(s) : s \in
            IF Owners(r) = {} THEN {r}
            ELSE LET c == CHOOSE x \in Owners(r) : TRUE
                 IN  terminate_connection(Disowned(r), c.id, c.id = r.current)}

\* make_new_connection and connect_to_unreachable, when they pick the peer.
AutoList(r) ==
    IF r.current = 0 /\ ~ r.listed THEN setup_outgoing_connection(Listed(r)) ELSE {r}

\* drop_superfluous_outgoing_connection, when it picks the peer.
DropConnection(r) ==
    LET c == Conn(r, r.current)
    IN  IF r.current # 0 /\ c.out /\ r.elsewhere
        THEN terminate_connection(Unlist(Disowned(r)), c.id, TRUE)
        ELSE {r}

\* drop_superfluous_pending_connections
DropPending(r) == IF r.listed /\ Owners(r) = {} THEN Unlist(r) ELSE r

\* do_autoconnect: the node is random and may be another one.
do_autoconnect(r) ==
    LET few == {r} \cup (IF Config # <<>> \/ r.reachable THEN AutoList(r) ELSE {})
        pruned == {DropPending(s) : s \in {r} \cup DropConnection(r)}
        sought == UNION {IF Config # <<>> /\ ~ s.reachable THEN AutoList(s) ELSE {} : s \in pruned}
    IN  few \cup pruned \cup sought
-----------------------------------------------------------------------------
\* A handler has run: what it told about the addresses is put on record.
Commit(S) ==
    \E r \in S :
        /\ Len(r.conns) <= MaxConns
        /\ d' = [r EXCEPT !.told = {}, !.dry = FALSE]
        /\ offered' = IF r.dry THEN {} ELSE offered \cup r.told
        /\ missed' = IF r.dry
                     THEN (Range(Config) \cup Range(r.cache.recent)) \ (offered \cup r.told)
                     ELSE missed

Fault == env.faults > 0 /\ env' = [env EXCEPT !.faults = @ - 1]
Changed == env.changes > 0 /\ env' = [env EXCEPT !.changes = @ - 1]
Ordinary == UNCHANGED env

\* At start-up there is a ConnectTo for the peer.
OutInit ==
    /\ \E r \in try_outgoing_connections(Blank, TRUE) :
          /\ d = [r EXCEPT !.told = {}, !.dry = FALSE]
          /\ offered = IF r.dry THEN {} ELSE r.told
          /\ missed = {}
    /\ env \in Settings

\* retry_outgoing_handler
Fire == d.timer /\ Commit(setup_outgoing_connection(d)) /\ Ordinary

\* finish_connecting, and the ID request of a peer that answers.
Finish(c) ==
    /\ c.phase = "connecting" /\ c.addr \in Alive
    /\ Commit({Change(d, [c EXCEPT !.phase = "auth"])})
    /\ Ordinary

Activate(c) == c.phase = "auth" /\ Commit(ack_h(d, c.id)) /\ Ordinary

\* A connection to an address where nobody answers times out.
GiveUp(c) ==
    /\ c.phase = "connecting" /\ c.addr \notin Alive
    /\ Commit(terminate_connection(d, c.id, FALSE))
    /\ Ordinary

\* An I/O error, a ping timeout, a disconnect command, the end of the stream.
Close(c) == Commit(terminate_connection(d, c.id, c.phase = "active")) /\ Fault

\* handle_new_meta_connection, and an ID request with the name of the peer.
Accept ==
    /\ env.incoming /\ Len(d.conns) < MaxConns
    /\ Commit({[d EXCEPT !.conns = Append(@,
            [id |-> NewId(d), phase |-> "auth", out |-> FALSE, addr |-> Source])]})
    /\ Ordinary

\* pong_h
Pong(c) ==
    /\ c.phase = "active"
    /\ c.out /\ d.timeout > 0
    /\ Commit({[d EXCEPT !.timeout = 0, !.cache = AddRecent(Reset(@), c.addr)]})
    /\ Ordinary

\* udp_probe_h, a reply while UDP was not confirmed.
ProbeReply ==
    /\ d.reachable /\ ~ d.udp
    /\ Commit({[d EXCEPT !.udp = TRUE, !.cache =
            IF d.current = 0 THEN @ ELSE AddRecent(Reset(@), EdgeAddress(Conn(d, d.current)))]})
    /\ Ordinary

\* udp_probe_timeout_handler
ProbeTimeout == d.udp /\ Commit({[d EXCEPT !.udp = FALSE]}) /\ Ordinary

\* The peer announces its edge with us.
PeerAdds ==
    /\ ~ d.peeredge /\ d.current # 0
    /\ Commit({graph([d EXCEPT !.peeredge = TRUE])})
    /\ Ordinary

\* Others tell us that the peer has withdrawn it.
PeerDeletes ==
    /\ d.peeredge /\ d.elsewhere
    /\ Commit({graph([d EXCEPT !.peeredge = FALSE])})
    /\ Changed

\* Other nodes gain or lose the peer.
Elsewhere == Commit({graph([d EXCEPT !.elsewhere = ~ @])}) /\ Changed

\* reload_configuration, from a tinc.conf with or without the ConnectTo; the
\* host file may have changed too.
Reload(connectto, hostchanged) ==
    /\ Commit(UNION {IF hostchanged THEN CloseAll(r) ELSE {r}
                        : r \in try_outgoing_connections(d, connectto)})
    /\ Changed

\* timeout_handler after a long sleep.
Awake == d.conns # <<>> /\ Commit(CloseAll(d)) /\ Fault

\* retry: the timer fires at once, and an attempt under way times out.
Retry == d.timeout > 0 /\ Commit({[d EXCEPT !.timeout = 0]}) /\ Changed

\* periodic_handler
Periodic == env.autoconnect /\ Commit(do_autoconnect(d)) /\ Ordinary

OutNext ==
    \/ Fire \/ Accept \/ ProbeReply \/ ProbeTimeout \/ PeerAdds \/ PeerDeletes
    \/ Elsewhere \/ Awake \/ Retry \/ Periodic
    \/ \E b, h \in BOOLEAN : Reload(b, h)
    \/ \E c \in Range(d.conns) : Finish(c) \/ Activate(c) \/ GiveUp(c) \/ Close(c) \/ Pong(c)

\* The event loop fires timers and reads sockets; attempts finish or time out.
OutSpec ==
    /\ OutInit /\ [][OutNext]_outVars
    /\ WF_outVars(Fire)
    /\ WF_outVars(\E c \in Range(d.conns) : Finish(c) \/ Activate(c) \/ GiveUp(c))

-----------------------------------------------------------------------------
Connections ==
    [id : Nat \ {0}, phase : {"connecting", "auth", "active"}, out : BOOLEAN,
     addr : Addresses \cup {Source}]

\* Every variable has its type, and no address is cached twice.
OutTypeOK ==
    /\ d.listed \in BOOLEAN /\ d.timer \in BOOLEAN /\ d.timeout \in 0 .. MaxTimeout
    /\ Len(d.conns) <= MaxConns /\ Range(d.conns) \subseteq Connections
    /\ Cardinality(Ids(d)) = Len(d.conns)
    /\ d.current \in Ids(d) \cup {0}
    /\ Len(d.cache.recent) = Cardinality(Range(d.cache.recent))
    /\ Len(d.cache.recent) <= MaxCached
    /\ Range(d.cache.recent) \subseteq Addresses \cup {Source}
    /\ d.cache.tried \in 0 .. MaxCached + 1
    /\ d.udp => d.reachable

\* An outgoing_t is in one place at a time: with one connection or with its
\* timer, and with neither once it has been deleted.  However connections
\* cross, fail and replace each other there is never a second attempt, nor a
\* c->outgoing that points to freed memory.
OneAttempt ==
    /\ Cardinality({c.id : c \in Owners(d)}) + (IF d.timer THEN 1 ELSE 0) <= 1
    /\ ~ d.listed => ~ d.timer /\ Owners(d) = {}

\* n->connection is the one active connection with the peer, if there is any.
OneActive == {c.id : c \in {x \in Range(d.conns) : x.phase = "active"}} = {d.current} \ {0}

\* Whenever get_recent_address is out of addresses, it has gone through all
\* Address statements since it was last out of them.
RoundOffersConfig == missed \cap Range(Config) = {}

\* "This is the maximum delay before trying to reconnect": when there is no
\* connection, an outgoing_t in the list is being tried or about to be.
NeverAbandoned == d.listed /\ d.current = 0 => d.timer \/ Owners(d) # {}

\* As long as one of its Address statements is right, we are meant to be connected
\* and the peer does not connect to us, our connection always comes back.
Reconnects == ~ env.incoming => []<>(d.current # 0 \/ ~ d.listed)

\* However connections cross, fail and replace each other, one attempt is made at a time, at most
\* one connection is active, and every round offers every configured address.
OutgoingSound ==
    /\ OutTypeOK /\ OneAttempt /\ OneActive
    /\ RoundOffersConfig
=============================================================================
