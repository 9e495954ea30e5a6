------------------------------ MODULE Subnets ------------------------------
(***************************************************************************)
(* The subnet table of one daemon and the hash tables that remember its    *)
(* answers.  A lookup walks subnet_tree in the order of subnet_compare and *)
(* caches a pointer to what it found; everything that changes the table or *)
(* the reachability of a node has to take the right pointers out of the    *)
(* caches again.  In switch mode the daemon also learns the addresses that *)
(* it sees on its own interface and forgets them when they grow old.       *)
(*                                                                         *)
(* An address is a sequence of two digits of Bits bits, a subnet [type,    *)
(* addr, plen, weight, owner]; the owner of a broadcast subnet is Nobody.  *)
(***************************************************************************)
EXTENDS Integers, FiniteSets, SequencesExt

CONSTANTS
    Me, Peers,   \* this daemon and the other nodes, as integers
    Bits,        \* bits in a digit of an address
    Claims,      \* what peers may announce: <<net, peer>>, a net being [type, addr, plen, weight]
    Configs,     \* the sets of nets our own host file may list
    Seen,        \* the hardware addresses seen on our interface
    BroadcastNets,  \* DEFAULT_BROADCAST_SUBNETS and BroadcastSubnet
    Asked,       \* the <<type, address>> that packets are sent to
    Home,        \* the index a key hashes to, for every address
    Iterations,  \* HASH_SEARCH_ITERATIONS
    Size         \* number of slots in a hash table

Nobody == -1
Holders == Peers \union {Me}
Types == {"mac", "ipv4", "ipv6"}
Digits == 0 .. 2^Bits - 1
Addrs == Digits \X Digits
Full == 2 * Bits
Null == [type |-> "none"]
Zero == <<0, 0>>
Default == 10

Learned(a) == [type |-> "mac", addr |-> a, plen |-> Full, weight |-> Default]
Nets == {c[1] : c \in Claims} \union UNION Configs \union {Learned(a) : a \in Seen} \union BroadcastNets

ASSUME SubnetAssumption ==
    /\ Bits \in Nat \ {0} /\ Size \in Nat /\ Iterations \in 1 .. Size
    /\ Home \in [Addrs -> 0 .. Size - 1] /\ Nobody \notin Holders
    /\ \A s \in Nets : s.type \in Types /\ s.addr \in Addrs /\ s.plen \in 0 .. Full
    /\ \A s \in Nets : s.type = "mac" => s.plen = Full
    /\ \A t \in {"ipv4", "ipv6"} : \E s \in BroadcastNets : s.type = t /\ s.plen < Full

Owned(net, o) == [type |-> net.type, addr |-> net.addr, plen |-> net.plen, weight |-> net.weight, owner |-> o]
Broadcasts == {Owned(n, Nobody) : n \in BroadcastNets}
Mine == {Owned(n, Me) : n \in UNION Configs \union {Learned(a) : a \in Seen}}

-----------------------------------------------------------------------------
(* Masks, and the order of the tree. *)

\* The m high bits of a digit, m < Bits: a[i] & (0x100 - (1 << (8 - m)))
High(d, m) == (d \div 2^(Bits - m)) * 2^(Bits - m)

\* Whether maskcmp finds no difference: whole digits, then what is left of the mask.
maskcmp(a, b, m) ==
    /\ \A i \in 1 .. (m \div Bits) : a[i] = b[i]
    /\ LET i == m \div Bits + 1
       IN  m % Bits = 0 \/ High(a[i], m % Bits) = High(b[i], m % Bits)

\* mask, and maskcpy onto another array
mask(a, m) ==
    [i \in 1 .. 2 |-> IF i <= m \div Bits THEN a[i]
                      ELSE IF i = m \div Bits + 1 /\ m % Bits # 0 THEN High(a[i], m % Bits)
                      ELSE 0]

\* a[i] & (0xff >> masklen), then the digits behind it
maskcheck(a, m) ==
    LET i == m \div Bits + 1
        rest == IF m % Bits = 0 THEN i ELSE i + 1
    IN  /\ m % Bits = 0 \/ a[i] % 2^(Bits - (m % Bits)) = 0
        /\ \A j \in rest .. 2 : a[j] = 0

AddrLess(a, b) == a[1] < b[1] \/ (a[1] = b[1] /\ a[2] < b[2])

\* subnet_compare finds no difference: an absent owner is not compared.
Same(a, b) ==
    /\ a.type = b.type /\ a.plen = b.plen /\ a.addr = b.addr /\ a.weight = b.weight
    /\ a.owner = b.owner \/ Nobody \in {a.owner, b.owner}

\* subnet_compare < 0 within one type: longer prefix, address, weight, owner.
Precedes(a, b) ==
    IF a.plen # b.plen THEN a.plen > b.plen
    ELSE IF a.addr # b.addr THEN AddrLess(a.addr, b.addr)
    ELSE IF a.weight # b.weight THEN a.weight < b.weight
    ELSE Nobody \notin {a.owner, b.owner} /\ a.owner < b.owner

\* net2str leaves out a full prefix length and the default weight
Absent == -1
net2str(s) ==
    [type |-> s.type, addr |-> s.addr,
     plen |-> IF s.type = "mac" \/ s.plen = Full THEN Absent ELSE s.plen,
     weight |-> IF s.weight = Default THEN Absent ELSE s.weight]

\* str2net puts them back, and refuses a prefix length that does not fit
str2net(t) ==
    [ok  |-> t.plen <= Full /\ (t.type = "mac" => t.plen = Absent),
     net |-> [type |-> t.type, addr |-> t.addr,
              plen |-> IF t.plen = Absent THEN Full ELSE t.plen,
              weight |-> IF t.weight = Absent THEN Default ELSE t.weight]]

-----------------------------------------------------------------------------
(* The hash tables of hash.h: a key is looked for in Iterations slots. *)

Probed(k) == [f \in 1 .. Iterations |-> (Home[k] + f - 1) % Size]
Cleared == [i \in 0 .. Size - 1 |-> [key |-> Zero, val |-> Null]]

\* The first slot of the window, among the first n, that satisfies P; 0 if none.
FirstIn(n, P(_)) == SelectInSeq([f \in 1 .. n |-> f], P)

hash_search(t, k) ==
    LET w == Probed(k)
        hit == FirstIn(Iterations, LAMBDA f : t[w[f]].key = k)
    IN  IF hit = 0 THEN Null ELSE t[w[hit]].val

\* "We always pick the last slot. It's unfair. But thats life"
hash_insert(t, k, v) ==
    LET w == Probed(k)
        free == FirstIn(Iterations - 1, LAMBDA f : t[w[f]].val = Null \/ t[w[f]].key = k)
    IN  [t EXCEPT ![w[IF free = 0 THEN Iterations ELSE free]] = [key |-> k, val |-> v]]

hash_delete_HomeOnly(t, k) ==
    IF t[Home[k]].key = k THEN [t EXCEPT ![Home[k]].val = Null] ELSE t

\* The key stays behind in the slot.
hash_delete(t, k) ==
    LET w == Probed(k)
        hit == FirstIn(Iterations, LAMBDA f : t[w[f]].key = k)
    IN  IF hit = 0 THEN t ELSE [t EXCEPT ![w[hit]].val = Null]

-----------------------------------------------------------------------------
VARIABLES
    tree,       \* subnet_tree
    owned,      \* the subnets in the subnet_tree of their owner
    reachable,  \* nodes with status.reachable
    cache,      \* type |-> hash table
    expires,    \* own subnet |-> "none" if there is none, "never" (0), "later", "past", "one"
    armed       \* age_subnets_timeout is in the timeout tree

subnetVars == <<tree, owned, reachable, cache, expires, armed>>

subnet_cache_flush_tables == [t \in Types |-> Cleared]

\* subnet_cache_flush_table: mac goes with either
FlushTable(c, type) ==
    [t \in Types |-> IF (t = "ipv4" /\ type = "ipv6") \/ (t = "ipv6" /\ type = "ipv4")
                         THEN c[t] ELSE Cleared]

\* `type` is what the switch reads, `s` the subnet.
subnet_cache_flush(c, s, type) ==
    IF type \in Types /\ s.plen = Full
        THEN [c EXCEPT ![type] = hash_delete(@, s.addr)]
        ELSE FlushTable(c, type)

\* splay_insert refuses what compares equal to something in the tree.
Insert(set, s) == IF \E t \in set : Same(t, s) THEN set ELSE set \union {s}
Delete(set, s) == {t \in set : ~Same(t, s)}

\* subnet_del looks at the subnet after splay_delete has freed it; the allocator
\* may by then have written over its type, which then is no type at all.
TypeRead(s) == IF s \in tree THEN {s.type, "freed"} ELSE {s.type}

SubnetAdd(s) ==
    /\ tree' = Insert(tree, s)
    /\ owned' = IF s.owner = Nobody THEN owned ELSE Insert(owned, s)
    /\ cache' = subnet_cache_flush(cache, s, s.type)

SubnetDel(s) ==
    /\ tree' = Delete(tree, s)
    /\ owned' = owned \ {s}
    /\ \E type \in TypeRead(s) : cache' = subnet_cache_flush(cache, s, type)

Covers(s, a) == maskcmp(a, s.addr, s.plen)
Usable(s) == s.owner = Nobody \/ s.owner \in reachable

\* The walk: the first match with a reachable owner, or else the last match.
Found(set) ==
    LET usable == {s \in set : Usable(s)}
    IN  IF set = {} THEN Null
        ELSE IF usable = {} THEN CHOOSE s \in set : \A t \in set \ {s} : Precedes(t, s)
        ELSE CHOOSE s \in usable : \A t \in usable \ {s} : Precedes(s, t)

Matches(type, a) == {s \in tree : s.type = type /\ Covers(s, a)}

\* What a lookup returns and the cache it leaves, `set` being the matches it would walk.
Lookup(type, a, set) ==
    LET hit == hash_search(cache[type], a)
        r == Found(set)
    IN  IF hit # Null THEN [val |-> hit, cache |-> cache]
        ELSE [val |-> r, cache |-> IF r = Null THEN cache
                                   ELSE [cache EXCEPT ![type] = hash_insert(@, a, r)]]

-----------------------------------------------------------------------------
\* init_subnets, setup_myself_reloadable and the subnets of our own host file
SubnetInit ==
    /\ tree = Broadcasts /\ owned = {}
    /\ reachable = {Me}
    /\ cache = [t \in Types |-> Cleared]
    /\ expires = [s \in Mine |-> "none"] /\ armed = FALSE

\* A packet for an address: lookup_subnet_ipv4, lookup_subnet_ipv6, lookup_subnet_mac(NULL, ..)
lookup_subnet(type, a) ==
    /\ \E r \in {Lookup(type, a, Matches(type, a))} : cache' = r.cache
    /\ UNCHANGED <<tree, owned, reachable, expires, armed>>

\* ADD_SUBNET for a node, up to the flood; a MAC address that we had learned is handed over.
add_subnet(net, o) ==
    LET old == Owned(net, Me)
    IN  /\ Owned(net, o) \notin owned
        /\ SubnetAdd(Owned(net, o))
        /\ expires' = IF net.type = "mac" /\ old \in Mine /\ expires[old] \in {"later", "past"}
                          THEN [expires EXCEPT ![old] = "one"] ELSE expires
        /\ UNCHANGED <<reachable, armed>>

del_subnet(s) ==
    /\ s \in owned /\ s.owner # Me
    /\ SubnetDel(s)
    /\ UNCHANGED <<reachable, expires, armed>>

\* graph(): the tables are emptied, then reachability changes.
graph(r) == reachable' = r /\ cache' = subnet_cache_flush_tables

Regraph(r) ==
    /\ Me \in r /\ r # reachable
    /\ graph(r)
    /\ UNCHANGED <<tree, owned, expires, armed>>

\* learn_mac: the answer may come from the cache, and belong to somebody else.
learn_mac(a) ==
    \E r \in {Lookup("mac", a, {s \in owned : s.owner = Me /\ s.type = "mac" /\ s.addr = a})} :
       IF r.val = Null
       THEN LET s == Owned(Learned(a), Me)
            IN  /\ SubnetAdd(s)
                /\ expires' = [expires EXCEPT ![s] = "later"] /\ armed' = TRUE
                /\ UNCHANGED reachable
       ELSE /\ cache' = r.cache
            /\ expires' = IF r.val \in Mine /\ expires[r.val] # "never"
                              THEN [expires EXCEPT ![r.val] = "later"] ELSE expires
            /\ UNCHANGED <<tree, owned, reachable, armed>>

TimePasses(s) ==
    /\ expires[s] = "later"
    /\ expires' = [expires EXCEPT ![s] = "past"]
    /\ UNCHANGED <<tree, owned, reachable, cache, armed>>

\* subnet_del on a set of own subnets; each may read a type that is gone.
DelOwn(set, t, c) ==
    /\ tree' = {x \in t : \A s \in set : ~Same(x, s)}
    /\ \E freed \in SUBSET set :
          cache' = FoldSet(LAMBDA s, x : subnet_cache_flush(x, s, IF s \in freed THEN "freed" ELSE s.type), c, set)

\* The timer is set again if a subnet is left that grows old.
Timer == \E s \in Mine : expires[s] = "later"

age_subnets ==
    LET old == {s \in Mine : expires[s] \in {"past", "one"}}
    IN  /\ armed /\ armed' = Timer
        /\ DelOwn(old, tree, cache) /\ owned' = owned \ old
        /\ expires' = [s \in Mine |-> IF s \in old THEN "none" ELSE expires[s]]
        /\ UNCHANGED reachable

\* setup_myself_reloadable: the broadcast subnets are freed, and added again.
Rebuilt(t) ==
    LET rest == {s \in t : s.owner # Nobody}
    IN  [tree |-> rest \union {b \in Broadcasts : \A s \in rest : ~Same(s, b)},
         cache |-> FoldSet(LAMBDA b, c : subnet_cache_flush(c, b, b.type), cache, Broadcasts)]

\* reload_configuration without StrictSubnets: what was static and is not listed goes.
reload_configuration(config) ==
    LET listed == {Owned(n, Me) : n \in config}
        kept == {s \in Mine : expires[s] \in {"later", "past"}}
        dropped == {s \in Mine : expires[s] # "none"} \ (listed \union kept)
        new == {s \in listed : expires[s] = "none"}
    IN  \E b \in {Rebuilt(tree)} :
           /\ DelOwn(dropped, b.tree \union {s \in new : \A t \in b.tree : ~Same(s, t)},
                     FoldSet(LAMBDA s, c : subnet_cache_flush(c, s, s.type), b.cache, new))
           /\ owned' = (owned \ dropped) \union new
           /\ expires' = [s \in Mine |-> IF s \in kept THEN expires[s]
                                         ELSE IF s \in listed THEN "never" ELSE "none"]
           /\ UNCHANGED <<reachable, armed>>

SubnetNext ==
    \/ \E q \in Asked : lookup_subnet(q[1], q[2])
    \/ \E c \in Claims : add_subnet(c[1], c[2])
    \/ \E s \in owned : del_subnet(s)
    \/ \E p \in SUBSET Peers : Regraph(p \union {Me})
    \/ \E a \in Seen : learn_mac(a)
    \/ \E s \in Mine : TimePasses(s)
    \/ age_subnets
    \/ \E config \in Configs : reload_configuration(config)

-----------------------------------------------------------------------------
Subnet == {Owned(c[1], c[2]) : c \in Claims} \union Mine \union Broadcasts

\* The tables hold subnets, and a hash table remembers subnets of its own type only.
SubnetTypeOK ==
    /\ tree \subseteq Subnet /\ owned \subseteq Subnet \ Broadcasts
    /\ reachable \subseteq Holders /\ armed \in BOOLEAN
    /\ expires \in [Mine -> {"none", "never", "later", "past", "one"}]
    /\ \A s \in Mine : expires[s] # "none" <=> s \in owned
    /\ \A t \in Types, i \in 0 .. Size - 1 :
          /\ cache[t][i].key \in Addrs
          /\ cache[t][i].val = Null \/ (cache[t][i].val \in Subnet /\ cache[t][i].val.type = t)

\* No slot of a hash table holds a pointer to a subnet that has been freed, whichever
\* slots the same key went through before: subnet_del, age_subnets, the reload that frees
\* the broadcast subnets, and a hash_delete that stops at the first slot with the key.
NoDanglingCache ==
    \A t \in Types, i \in 0 .. Size - 1 : cache[t][i].val \in tree \union owned \union {Null}

\* A cached route is the one the walk over the tree would find now, through additions,
\* deletions and changes of reachability (lookup_subnet_ipv4 and _ipv6 never look again).
CachedRouteCurrent ==
    \A q \in Asked : q[1] # "mac" =>
        hash_search(cache[q[1]], q[2]) \in {Null, Found(Matches(q[1], q[2]))}

Number(a) == a[1] * 2^Bits + a[2]
Inside(a, s) == Number(a) \div 2^(Full - s.plen) = Number(s.addr) \div 2^(Full - s.plen)

\* A route that can be used is chosen before one that cannot, then the longest prefix, then
\* the lowest weight: what the order of the tree and the digitwise masks are for.
LongestPrefixWins ==
    \A q \in Asked :
        LET all == {s \in tree : s.type = q[1] /\ Inside(q[2], s)}
            r == Found(Matches(q[1], q[2]))
        IN  /\ r = Null <=> all = {}
            /\ \A s \in all : Usable(s) =>
                  /\ Usable(r) /\ r.plen >= s.plen
                  /\ (r.plen = s.plen /\ r.addr = s.addr) => r.weight <= s.weight

\* Masking an address gives the base of a subnet that a node announced: mask, maskcheck and maskcmp agree.
MasksAgree ==
    \A s \in owned, q \in Asked :
        /\ maskcheck(mask(q[2], s.plen), s.plen)
        /\ (mask(q[2], s.plen) = mask(s.addr, s.plen)) <=> maskcmp(q[2], s.addr, s.plen)

\* What is written with net2str in an ADD_SUBNET is read back by str2net as the same subnet.
AnnouncedAsRead ==
    \A s \in owned : LET t == str2net(net2str(s)) IN t.ok /\ Owned(t.net, s.owner) = s

\* As long as an address that was learned can grow old, the timer that will delete it runs.
AgeingArmed ==
    (\E s \in Mine : expires[s] \in {"later", "past", "one"}) => armed

\* A lookup gives what the table and the reachability of nodes say now, whatever the caches
\* remember, and what the table holds is announced, masked and aged as it should be.
SubnetsSound ==
    /\ SubnetTypeOK
    /\ NoDanglingCache /\ CachedRouteCurrent /\ LongestPrefixWins
    /\ MasksAgree /\ AnnouncedAsRead /\ AgeingArmed
============================================================================
