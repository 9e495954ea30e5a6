---------------------------- MODULE AddressCache ----------------------------
(***************************************************************************)
(* The addresses at which a node may answer, and the order in which they   *)
(* are tried: first those of earlier successful connections, newest first  *)
(* (kept in a file), then those that other nodes report in their edges,    *)
(* then the Address statements of its host configuration file.             *)
(*                                                                         *)
(* A cache is a cursor over the three lists.  The pointers ai/aip and      *)
(* config_tree/cfg, which may be NULL, are sets: {} is NULL and {s} is the *)
(* list s of what is left.  A host name resolves to one address.           *)
(***************************************************************************)
EXTENDS Integers, FiniteSets, Sequences, Functions

CONSTANTS
    MaxCached,  \* MAX_CACHED_ADDRESSES
    Config      \* the Address statements

ASSUME CacheAssumption == MaxCached \in Nat \ {0} /\ Config \in Seq(Range(Config))

\* open_address_cache, with what is in the file.
Opened(file) == [recent |-> file, tried |-> 0, ai |-> {}, cfg |-> {}]

Reset(k) == [k EXCEPT !.tried = 0, !.ai = {}, !.cfg = {}]

\* add_recent_address: shift what is before a, or everything if a is new, and put a first.
AddRecent(k, a) ==
    LET used == Len(k.recent)
        pos == IF a \in Range(k.recent) THEN CHOOSE i \in 1 .. used : k.recent[i] = a
               ELSE IF used < MaxCached THEN used + 1 ELSE used
    IN  [k EXCEPT !.recent = [i \in 1 .. (IF pos > used THEN pos ELSE used) |->
            IF i = 1 THEN a ELSE IF i <= pos THEN k.recent[i - 1] ELSE k.recent[i]]]

\* What is left of a list, or all of it if it was not begun.
Left(pointer, list) == IF pointer = {} THEN list ELSE CHOOSE s \in pointer : TRUE

CachedPart(k) == SubSeq(k.recent, k.tried + 1, Len(k.recent))

\* Where in a list the addresses are that are not in S, and these addresses.
Spots(list, S) ==
    LET P == {i \in DOMAIN list : list[i] \notin S}
    IN  CHOOSE p \in [1 .. Cardinality(P) -> P] : \A i, j \in DOMAIN p : i < j => p[i] < p[j]
Without(list, S) == [i \in DOMAIN Spots(list, S) |-> list[Spots(list, S)[i]]]

KnownPart(k, known) ==
    IF k.tried > Len(k.recent) THEN <<>> ELSE Without(Left(k.ai, known), Range(k.recent))

ConfigPart(k) == Left(k.cfg, Config)

\* What get_recent_address returns, call by call, before it returns NULL.
Offers(k, known) == CachedPart(k) \o KnownPart(k, known) \o ConfigPart(k)

\* What follows the j-th address of a list that is not in the cache.
Behind(k, list, j) == SubSeq(list, Spots(list, Range(k.recent))[j] + 1, Len(list))

\* The cursor has left the cached and the reported addresses behind.
Beyond(k) == IF k.tried > Len(k.recent) THEN k.tried ELSE Len(k.recent) + 1

\* The cursor after get_recent_address has returned the j-th of these.
After(k, known, j) ==
    LET c == Len(CachedPart(k))
        n == Len(KnownPart(k, known))
    IN  CASE j <= c -> [k EXCEPT !.tried = @ + j]
          [] j > c /\ j <= c + n ->
                [k EXCEPT !.tried = Len(k.recent),
                          !.ai = {Behind(k, Left(k.ai, known), j - c)}]
          [] OTHER ->
                [k EXCEPT !.tried = Beyond(k), !.ai = {<<>>},
                          !.cfg = {SubSeq(ConfigPart(k), j - c - n + 1, Len(ConfigPart(k)))}]

\* "We're all out of addresses."
Exhausted(k) == [k EXCEPT !.tried = Beyond(k), !.ai = {}, !.cfg = {}]
=============================================================================
