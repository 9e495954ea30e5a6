---------------------------- MODULE LegacyTunnel ----------------------------
(***************************************************************************)
(* UDP packets from one node to another with the legacy protocol: the      *)
(* receiver makes up a key and sends it (ANS_KEY) over the meta            *)
(* connections, asked for (REQ_KEY) or not, or tells everyone that keys    *)
(* are no longer good (KEY_CHANGED); the sender numbers the packets of a   *)
(* key, and the receiver keeps a window of the numbers it missed.          *)
(* Packets get lost, reordered and duplicated; a request or an answer is   *)
(* lost when a node on its way does not reach the next.                    *)
(***************************************************************************)
EXTENDS Integers, Sequences, FiniteSets

CONSTANTS
    Window,     \* replaywin * 8
    FarAllowed, \* replaywin >> 2
    MaxSeqno,   \* MAX_SEQNO
    MaxKeys,    \* bound: keys made up
    MaxPackets, \* bound: packets sent with one key
    MaxFlying,  \* bound: packets under way
    MaxQueued,  \* bound: meta messages waiting when another one is added
    MaxLost,    \* bound: meta messages lost
    Ways        \* the cases: [direct |-> the nodes are peers, fits |-> the sender takes the keys]

ASSUME LegacyAssumption ==
    /\ Window \in Nat \ {0} /\ FarAllowed \in Nat /\ MaxSeqno \in Nat
    /\ MaxKeys \in Nat /\ MaxPackets \in Nat
    /\ Ways \subseteq [direct : BOOLEAN, fits : BOOLEAN]

VARIABLES
    way,    \* one of Ways
    sender, \* key, validkey, sent_seqno, recent (it asked for a key in the last 10 seconds)
    taker,  \* the receiver: key (0: no validkey_in), received_seqno, late (missed, mod Window), farfuture
    aloft,  \* packets under way, <<key, number>>
    up,     \* meta messages to the receiver
    down,   \* meta messages to the sender
    keys,   \* keys made up so far
    lost,   \* meta messages lost so far
    taken   \* packets that the receiver took, once and again

legacyVars == <<way, sender, taker, aloft, up, down, keys, lost, taken>>

LegacyInit ==
    /\ way \in Ways
    /\ sender = [key |-> 0, validkey |-> FALSE, sent_seqno |-> 0, recent |-> FALSE]
    /\ taker = [key |-> 0, received_seqno |-> 0, late |-> {}, farfuture |-> 0]
    /\ aloft = {} /\ up = <<>> /\ down = <<>> /\ keys = 0 /\ lost = 0 /\ taken = [once |-> {}, again |-> {}]

Ans == [type |-> "ans", key |-> keys + 1]
Changed == [type |-> "changed"]

\* The receiver with a new key
Renewed(t) == [t EXCEPT !.key = keys + 1, !.received_seqno = 0, !.late = {}]

send_ans_key ==
    /\ keys < MaxKeys /\ keys' = keys + 1
    /\ taker' = Renewed(taker)

-----------------------------------------------------------------------------
\* The sender has a packet: over UDP with a valid key, over TCP and asking for a key otherwise.
try_tx_legacy_Once ==
    /\ ~sender.recent /\ sender.key = 0
    /\ up' = Append(up, "req") /\ sender' = [sender EXCEPT !.recent = TRUE]

try_tx_legacy ==
    /\ ~sender.recent
    /\ up' = Append(up, "req") /\ sender' = [sender EXCEPT !.recent = TRUE]

send_udppacket ==
    /\ sender.validkey /\ sender.sent_seqno < MaxPackets /\ Cardinality(aloft) < MaxFlying
    /\ sender' = [sender EXCEPT !.sent_seqno = @ + 1]
    /\ aloft' = aloft \union {<<sender.key, sender.sent_seqno + 1>>}
    /\ UNCHANGED <<way, taker, up, down, keys, lost, taken>>

Ask ==
    /\ ~sender.validkey /\ Len(up) < MaxQueued
    /\ try_tx_legacy
    /\ UNCHANGED <<way, taker, aloft, down, keys, lost, taken>>

TenSeconds ==
    /\ sender.recent /\ sender' = [sender EXCEPT !.recent = FALSE]
    /\ UNCHANGED <<way, taker, aloft, up, down, keys, lost, taken>>

\* req_key_h, with the answer; or the receiver sends a key unasked (try_tx_legacy: no validkey_in)
req_key_h ==
    /\ up # <<>> /\ up' = Tail(up)
    /\ send_ans_key /\ down' = Append(down, Ans)
    /\ UNCHANGED <<way, sender, aloft, lost, taken>>

OfferKey ==
    /\ taker.key = 0
    /\ send_ans_key /\ down' = Append(down, Ans)
    /\ UNCHANGED <<way, sender, aloft, up, lost, taken>>

\* regenerate_key of a receiver t: send_key_changed sends a peer its new key at once; then no key
\* that was handed out counts any longer, that one included.
regenerate_key(t) ==
    /\ Len(down) < MaxQueued
    /\ IF way.direct
           THEN /\ keys < MaxKeys /\ keys' = keys + 1 /\ down' = down \o <<Changed, Ans>>
                /\ taker' = [Renewed(t) EXCEPT !.key = 0]
           ELSE /\ UNCHANGED keys /\ down' = Append(down, Changed)
                /\ taker' = [t EXCEPT !.key = 0]

KeyExpires ==
    /\ regenerate_key(taker)
    /\ UNCHANGED <<way, sender, aloft, up, lost, taken>>

ans_key_h(key) ==
    sender' = IF way.fits THEN [sender EXCEPT !.key = key, !.validkey = TRUE, !.sent_seqno = 0]
              ELSE [sender EXCEPT !.key = 0, !.validkey = FALSE]

key_changed_h == sender' = [sender EXCEPT !.validkey = FALSE, !.recent = FALSE]

ReceiveDown ==
    /\ down # <<>> /\ down' = Tail(down)
    /\ \/ Head(down).type = "ans" /\ ans_key_h(Head(down).key)
       \/ Head(down).type = "changed" /\ key_changed_h
    /\ UNCHANGED <<way, taker, aloft, up, keys, lost, taken>>

\* Requests and answers are dropped where their destination is unreachable.
LoseMeta ==
    /\ ~way.direct /\ lost < MaxLost /\ lost' = lost + 1
    /\ \/ up # <<>> /\ up' = Tail(up) /\ UNCHANGED down
       \/ down # <<>> /\ Head(down).type = "ans" /\ down' = Tail(down) /\ UNCHANGED up
    /\ UNCHANGED <<way, sender, taker, aloft, keys, taken>>

-----------------------------------------------------------------------------
\* The replay window, for packet number s of the current key
TooFar(t, s) == s # t.received_seqno + 1 /\ s >= t.received_seqno + Window
TooLate(t, s) ==
    /\ s <= t.received_seqno
    /\ \/ t.received_seqno >= Window /\ s <= t.received_seqno - Window
       \/ (s % Window) \notin t.late

Marked_Keep(t, s) ==
    [t EXCEPT !.farfuture = 0,
              !.late = IF TooFar(t, s) THEN {} ELSE t.late \union {i % Window : i \in t.received_seqno + 1 .. s - 1},
              !.received_seqno = IF s > @ THEN s ELSE @]

Marked(t, s) ==
    [t EXCEPT !.farfuture = 0,
              !.late = (IF TooFar(t, s) THEN {} ELSE t.late \union {i % Window : i \in t.received_seqno + 1 .. s - 1})
                           \ {s % Window},
              !.received_seqno = IF s > @ THEN s ELSE @]

\* receive_udppacket; the packet may come again unless it was lost.
receive_udppacket(p) ==
    /\ p \in aloft
    /\ \/ p[1] # taker.key /\ UNCHANGED <<taker, keys, down, taken>>
       \/ /\ p[1] = taker.key /\ TooFar(taker, p[2]) /\ taker.farfuture < FarAllowed
          /\ taker' = [taker EXCEPT !.farfuture = @ + 1] /\ UNCHANGED <<keys, down, taken>>
       \/ p[1] = taker.key /\ TooLate(taker, p[2]) /\ UNCHANGED <<taker, keys, down, taken>>
       \/ /\ p[1] = taker.key /\ ~TooLate(taker, p[2])
          /\ TooFar(taker, p[2]) => taker.farfuture >= FarAllowed
          /\ taken' = [once |-> taken.once \union {p}, again |-> taken.again \union ({p} \intersect taken.once)]
          /\ LET now == Marked(taker, p[2])
             IN  IF now.received_seqno > MaxSeqno THEN regenerate_key(now) ELSE taker' = now /\ UNCHANGED <<keys, down>>
    /\ aloft' \in {aloft, aloft \ {p}}
    /\ UNCHANGED <<way, sender, up, lost>>

LosePacket(p) ==
    /\ p \in aloft /\ aloft' = aloft \ {p}
    /\ UNCHANGED <<way, sender, taker, up, down, keys, lost, taken>>

LegacyNext ==
    \/ send_udppacket \/ Ask \/ TenSeconds \/ req_key_h \/ OfferKey \/ KeyExpires \/ ReceiveDown \/ LoseMeta
    \/ \E p \in aloft : receive_udppacket(p) \/ LosePacket(p)

LegacySpec == LegacyInit /\ [][LegacyNext]_legacyVars

-----------------------------------------------------------------------------
LegacyTypeOK ==
    /\ sender.sent_seqno \in 0 .. MaxPackets /\ (sender.validkey => sender.key \in 1 .. MaxKeys)
    /\ taker.key \in 0 .. keys /\ taker.late \subseteq 0 .. Window - 1 /\ taker.farfuture \in 0 .. FarAllowed

\* No packet is taken twice, however packets are reordered and duplicated: the window holds exactly the
\* numbers below received_seqno that have not come, and forgets them when it jumps.
LegacyNoReplay == taken.again = {}

\* When no key is on its way and none got lost, a sender with a valid key has the last one that the
\* receiver made up: that is the key the receiver expects, or the receiver expects none, since
\* regenerate_key does not count the key that it has just sent to a peer.
KeysMeet ==
    sender.validkey /\ lost = 0 /\ (\A i \in 1 .. Len(down) : down[i].type # "ans")
        => sender.key = keys /\ taker.key \in {0, keys}

\* The sender gets a key, if it can use what the receiver has; it asks again for what got lost.
KeyArrives == way.fits /\ ~sender.validkey ~> sender.validkey \/ keys = MaxKeys

\* Through any change of keys no packet is taken twice, and the sender holds the last key made up
\* when none is under way.
LegacySound ==
    /\ LegacyTypeOK
    /\ LegacyNoReplay /\ KeysMeet
=============================================================================
