---------------------------- MODULE KeyExchange ----------------------------
(***************************************************************************)
(* How two nodes obtain and renew the keys for the packets between them:   *)
(* SPTPS sessions over datagrams whose handshake records travel in REQ_KEY *)
(* and ANS_KEY requests over the meta connections, while packets travel    *)
(* over UDP.  Either node may start a session, restart it when ten seconds *)
(* have brought no key or when something did not decrypt, and renegotiate  *)
(* it when its key expires.                                                *)
(*                                                                         *)
(* Requests of one direction keep their order but a request may be lost    *)
(* with the connection that carried it.  Datagrams stand for probes and    *)
(* packets alike: they are known by the key they were encrypted with, and  *)
(* of those in the air in one direction all but the newest get lost.       *)
(* KEX identities are taken from a small pool and used again when nothing  *)
(* in the system remembers them, and once a session is up its sequence     *)
(* numbers are left to the replay window (ReplayWindow) and stay at 2, so  *)
(* behaviours of any length have finitely many states.                     *)
(***************************************************************************)
EXTENDS SptpsSession, FiniteSets

CONSTANTS
    MaxKex,      \* bound: size of the pool of KEX identities of a node
    Conditions   \* what a behaviour may be up against

Nodes == {"a", "b"}

\* Who has packets to send of its own accord, how many requests may be under
\* way when the ten seconds run out, and the bounds on how many requests or
\* sessions are lost and on how many renegotiations are started.
ASSUME KeyExchangeAssumption ==
    /\ MaxKex \in Nat \ {0}
    /\ Conditions \subseteq
          [talkers : SUBSET Nodes, requests : Nat, faults : Nat, rekeys : Nat]

VARIABLES
    sess,       \* sess[p]: p's session with the other node
    validkey,   \* validkey[p]: status.validkey of the other node at p
    waiting,    \* waiting[p]: status.waitingforkey of the other node at p
    recent,     \* recent[p]: last_req_key is at most ten seconds ago
    meta,       \* meta[p]: requests on their way to p
    udp,        \* udp[p]: the datagram in the air towards p, if any
    env         \* the conditions, with the faults and renegotiations left

vars == <<sess, validkey, waiting, recent, meta, udp, env>>

Other(p) == CHOOSE q \in Nodes : q # p

Init ==
    /\ sess = [p \in Nodes |-> Stopped]
    /\ validkey = [p \in Nodes |-> FALSE]
    /\ waiting = [p \in Nodes |-> FALSE]
    /\ recent = [p \in Nodes |-> FALSE]
    /\ meta = [p \in Nodes |-> <<>>]
    /\ udp = [p \in Nodes |-> {}]
    /\ env \in Conditions

-----------------------------------------------------------------------------
KexesOfCipher(c) == IF c = NoKey THEN {} ELSE {c[2][1], c[2][2]}

KexesOfMaterial(m) == IF m = NoKey THEN {} ELSE {m[1], m[2]}

KexesOfSession(s) ==
    {s.mykex, s.hiskex} \cup KexesOfCipher(s.incipher)
        \cup KexesOfCipher(s.outcipher) \cup KexesOfMaterial(s.key)

KexesOfRecord(rec) ==
    KexesOfCipher(rec.key) \cup
        (CASE rec.body.kind = "kex" -> {rec.body.kex}
           [] rec.body.kind = "sig" -> {rec.body.kex0, rec.body.kex1}
           [] OTHER -> {})

Remembered ==
    UNION {KexesOfSession(sess[p]) : p \in Nodes}
        \cup UNION {UNION {KexesOfRecord(meta[p][i].rec) : i \in DOMAIN meta[p]}
                        : p \in Nodes}
        \cup UNION {UNION {KexesOfCipher(d.key) : d \in udp[p]} : p \in Nodes}

\* The k-th KEX record that p makes in one step.
Fresh(p, k) ==
    LET used == {kex[2] : kex \in {x \in Remembered : x[1] = p}}
        Least(S) == CHOOSE n \in S : \A m \in S : n <= m
        first == Least((1 .. MaxKex) \ used)
    IN  Kex(p, IF k = 1 THEN first ELSE Least((1 .. MaxKex) \ (used \cup {first})))

Settled(s) == IF s.outstate THEN [s EXCEPT !.outseqno = 2, !.inseqno = 2] ELSE s

SettledRecord(rec) == IF rec.key = NoKey THEN rec ELSE [rec EXCEPT !.seqno = 2]

Requests(type, out) ==
    [i \in DOMAIN out |-> [type |-> type, rec |-> SettledRecord(out[i])]]

-----------------------------------------------------------------------------
(* send_req_key: throw the session away and start one as initiator; its    *)
(* first KEX goes out in a REQ_KEY.  sent is what the handler that calls   *)
(* it has put on its way already, queue what is left to be received.       *)
SendReqKey(p, k, sent, queue) ==
    \E r \in {Start(TRUE, Fresh(p, k))} :
        /\ sess' = [sess EXCEPT ![p] = r.s]
        /\ validkey' = [validkey EXCEPT ![p] = FALSE]
        /\ waiting' = [waiting EXCEPT ![p] = TRUE]
        /\ recent' = [recent EXCEPT ![p] = TRUE]
        /\ meta' = [meta EXCEPT
                ![p] = queue,
                ![Other(p)] = @ \o sent \o Requests("REQ_KEY", r.out)]

\* A handler that got r from the library and ran to its end.  A finished
\* handshake reaches receive_sptps_record, which marks the key as valid.
Done(p, r, queue) ==
    /\ sess' = [sess EXCEPT ![p] = Settled(r.s)]
    /\ validkey' = [validkey EXCEPT ![p] = @ \/ r.up]
    /\ waiting' = [waiting EXCEPT ![p] = @ /\ ~ r.up]
    /\ meta' = [meta EXCEPT ![p] = queue,
                            ![Other(p)] = @ \o Requests("ANS_KEY", r.out)]
    /\ UNCHANGED recent

Receive_NoBackoff(p, rec, queue) ==
    IF sess[p].state = "none"
    THEN SendReqKey(p, 1, <<>>, queue)
    ELSE \E r \in {ReceiveDatagram(sess[p], rec, Fresh(p, 1))} :
             IF r.ok
             THEN Done(p, r, queue)
             ELSE SendReqKey(p, 2, Requests("ANS_KEY", r.out), queue)

Receive_NoRestart(p, rec, queue) ==
    IF sess[p].state = "none"
    THEN Done(p, Result(sess[p]), queue)
    ELSE \E r \in {ReceiveDatagram(sess[p], rec, Fresh(p, 1))} : Done(p, r, queue)

\* A record that came in a request or a datagram, by ans_key_h and
\* receive_udppacket: a failure restarts the session, but not too often.
Receive(p, rec, queue) ==
    IF sess[p].state = "none"
    THEN IF recent[p]
         THEN Done(p, Result(sess[p]), queue)
         ELSE SendReqKey(p, 1, <<>>, queue)
    ELSE \E r \in {ReceiveDatagram(sess[p], rec, Fresh(p, 1))} :
             IF r.ok \/ recent[p]
             THEN Done(p, r, queue)
             ELSE SendReqKey(p, 2, Requests("ANS_KEY", r.out), queue)

\* req_key_ext_h, REQ_KEY: whatever session there was, become responder.
ReqKey(p) ==
    /\ meta[p] # <<>>
    /\ Head(meta[p]).type = "REQ_KEY"
    /\ \E started \in {Start(FALSE, Fresh(p, 1))} :
       \E r \in {ReceiveDatagram(started.s, Head(meta[p]).rec, Fresh(p, 2))} :
           /\ sess' = [sess EXCEPT ![p] = r.s]
           /\ meta' = [meta EXCEPT
                ![p] = Tail(@),
                ![Other(p)] = @ \o Requests("ANS_KEY", started.out \o r.out)]
    /\ validkey' = [validkey EXCEPT ![p] = FALSE]
    /\ waiting' = [waiting EXCEPT ![p] = TRUE]
    /\ recent' = [recent EXCEPT ![p] = TRUE]
    /\ UNCHANGED <<udp, env>>

AnsKey(p) ==
    /\ meta[p] # <<>>
    /\ Head(meta[p]).type = "ANS_KEY"
    /\ Receive(p, Head(meta[p]).rec, Tail(meta[p]))
    /\ UNCHANGED <<udp, env>>

Packet(p, reply) == [key |-> sess[p].outcipher, reply |-> reply]

\* A datagram arrives.  With no session at all receive_udppacket asks for a
\* key unless it has done so already, without looking at the clock.  A probe
\* request that decrypts is answered (udp_probe_h).
Datagram(p, d) ==
    /\ udp' = [udp EXCEPT
            ![p] = {},
            ![Other(p)] = IF sess[p].instate /\ d.key = sess[p].incipher /\ ~ d.reply
                          THEN {Packet(p, TRUE)} ELSE @]
    /\ IF sess[p].state = "none"
       THEN IF waiting[p]
            THEN UNCHANGED <<sess, validkey, waiting, recent, meta>>
            ELSE SendReqKey(p, 1, <<>>, meta[p])
       ELSE Receive(p, [seqno |-> 2, key |-> d.key, body |-> AppBody(0)], meta[p])
    /\ UNCHANGED env

\* A packet for the other node: try_sptps sees to a key, and with a valid
\* key a probe goes out.
Talk(p) ==
    /\ p \in env.talkers
    /\ IF validkey[p]
       THEN /\ udp' = [udp EXCEPT ![Other(p)] = {Packet(p, FALSE)}]
            /\ UNCHANGED <<sess, validkey, waiting, recent, meta>>
       ELSE /\ ~ waiting[p] \/ ~ recent[p]
            /\ SendReqKey(p, 1, <<>>, meta[p])
            /\ UNCHANGED udp
    /\ UNCHANGED env

\* The key expires: send_key_changed forces a new key exchange.  A session
\* that is in a handshake refuses.
Rekey(p) ==
    /\ validkey[p]
    /\ CanForceKex(sess[p])
    /\ env.rekeys > 0
    /\ env' = [env EXCEPT !.rekeys = @ - 1]
    /\ \E r \in {ForceKex(sess[p], Fresh(p, 1))} : Done(p, r, meta[p])
    /\ UNCHANGED udp

\* Ten seconds have passed since p last asked for a key.
Patience(p) ==
    /\ recent[p]
    /\ Len(meta["a"]) + Len(meta["b"]) <= env.requests
    /\ recent' = [recent EXCEPT ![p] = FALSE]
    /\ UNCHANGED <<sess, validkey, waiting, meta, udp, env>>

\* A meta connection closes with a request in it.
LoseRequest(p) ==
    /\ meta[p] # <<>>
    /\ env.faults > 0
    /\ env' = [env EXCEPT !.faults = @ - 1]
    /\ meta' = [meta EXCEPT ![p] = Tail(@)]
    /\ UNCHANGED <<sess, validkey, waiting, recent, udp>>

Bounce_KeepsKey(p) ==
    /\ sess[p].state # "none"
    /\ env.faults > 0
    /\ env' = [env EXCEPT !.faults = @ - 1]
    /\ sess' = [sess EXCEPT ![p] = Stopped]
    /\ waiting' = [waiting EXCEPT ![p] = FALSE]
    /\ recent' = [recent EXCEPT ![p] = FALSE]
    /\ UNCHANGED <<validkey, meta, udp>>

\* check_reachability at p: the other node was unreachable for a while.
Bounce(p) ==
    /\ sess[p].state # "none"
    /\ env.faults > 0
    /\ env' = [env EXCEPT !.faults = @ - 1]
    /\ sess' = [sess EXCEPT ![p] = Stopped]
    /\ validkey' = [validkey EXCEPT ![p] = FALSE]
    /\ waiting' = [waiting EXCEPT ![p] = FALSE]
    /\ recent' = [recent EXCEPT ![p] = FALSE]
    /\ UNCHANGED <<meta, udp>>

Next ==
    \/ \E p \in Nodes :
        \/ ReqKey(p)
        \/ AnsKey(p)
        \/ Rekey(p)
        \/ Patience(p)
        \/ LoseRequest(p)
        \/ Bounce(p)
        \/ \E d \in udp[p] : Datagram(p, d)
        \/ Talk(p)

\* The event loop handles what has arrived, time passes, and whoever has
\* packets keeps sending them.
Fairness ==
    /\ \A p \in Nodes :
        /\ WF_vars(ReqKey(p) \/ AnsKey(p))
        /\ WF_vars(\E d \in udp[p] : Datagram(p, d))
        /\ WF_vars(Patience(p))
        /\ WF_vars(Talk(p))

Spec == Init /\ [][Next]_vars /\ Fairness

-----------------------------------------------------------------------------
KexIds == {Kex(p, n) : p \in Nodes, n \in 1 .. MaxKex}

\* The sessions are well formed, and a session that sptps_stop has left
\* behind holds no key.
TypeOK ==
    /\ sess \in [Nodes -> Sessions(KexIds, 0 .. 3)]
    /\ validkey \in [Nodes -> BOOLEAN]
    /\ waiting \in [Nodes -> BOOLEAN]
    /\ recent \in [Nodes -> BOOLEAN]
    /\ \A p \in Nodes : Cardinality(udp[p]) <= 1
    /\ env.talkers \subseteq Nodes
    /\ env.faults \in Nat /\ env.rekeys \in Nat
    /\ \A p \in Nodes : sess[p].state = "none" =>
          ~ sess[p].instate /\ ~ sess[p].outstate

\* What p encrypts the other node can decrypt, in both directions.
Agreed == \A p \in Nodes : sess[p].outcipher = sess[Other(p)].incipher

\* Two nodes that both consider their handshake finished use the same keys,
\* however their sessions were restarted, crossed, renegotiated or dropped.
FinishedMeansAgreed ==
    (\A p \in Nodes : sess[p].state = "secondary_kex") => Agreed

\* The status bits that send_packet and try_sptps go by match the session:
\* the key is marked valid exactly when the session can carry packets, and
\* then nobody is waiting for it.
StatusMatchesSession ==
    \A p \in Nodes :
        /\ validkey[p] <=> sess[p].instate /\ sess[p].outstate
        /\ validkey[p] => ~ waiting[p]

\* "Don't do that too often to prevent storms": within ten seconds of asking
\* for a key a node does not throw away its session to ask again.
NoStorm ==
    [][\A p \in Nodes :
          /\ recent[p]
          /\ sess[p].state # "none"
          /\ sess'[p].state = "kex" /\ sess'[p].initiator /\ ~ sess'[p].outstate
          => sess'[p] = sess[p]]_vars

Established == Agreed /\ \A p \in Nodes : validkey[p]

\* With one node that has packets to send and a network that answers within
\* the ten seconds: after every fault, even a lost acknowledgement in the
\* middle of a renegotiation, the restarts of ans_key_h, receive_udppacket and
\* try_sptps bring back a pair of sessions that agree.  (Two nodes that keep
\* sending in step, or answers that are always late, can prevent it for ever.)
KeyAlwaysReturns ==
    env.requests = 0 /\ Cardinality(env.talkers) = 1 => []<>Established

\* KeyExpire: "the period the encryption keys used to encrypt the data are
\* valid".  A renegotiation that was started gets somewhere.
RenegotiationProceeds ==
    \A p \in Nodes :
        validkey[p] /\ sess[p].state = "kex" ~> sess[p].state # "kex"

\* The status bits and the sessions of both nodes fit together at every moment, however the
\* sessions were restarted, crossed, renegotiated or dropped.
SessionsSound ==
    /\ TypeOK
    /\ FinishedMeansAgreed
    /\ StatusMatchesSession
=============================================================================
