------------------------------ MODULE MetaAuth ------------------------------
(***************************************************************************)
(* How two daemons authenticate a meta connection: ID from both, then the  *)
(* SPTPS handshake if both know each other's Ed25519 key, or METAKEY,      *)
(* CHALLENGE and CHAL_REPLY of the legacy protocol, then ACK.  Daemons     *)
(* that could use SPTPS but miss a key exchange keys over the legacy       *)
(* protocol instead of activating the connection, and connect again.       *)
(***************************************************************************)
EXTENDS Integers, Sequences, FiniteSets

CONSTANTS
    Cases,    \* what the two daemons are, see below
    MaxTries  \* bound: connections set up

Ends == {"i", "r"}   \* the initiator and the responder
Across(x) == IF x = "i" THEN "r" ELSE "i"

VARIABLES
    case,   \* one of Cases
    end,    \* end[x]: what x has in its connection_t
    key,    \* key[x]: the Ed25519 key of the other in x's host configuration: right, wrong, none
    queue,  \* queue[x]: what is under way to x
    tries,  \* connections set up so far
    misread \* something was read in another way than it was sent

authVars == <<case, end, key, queue, tries, misread>>

\* Of a case: experimental[x] (Ed25519 keys in use), legacy[x] (RSA keys in use, the other's is known),
\* genuine (the responder has the private keys of the node it says it is), named (the responder is
\* whom the initiator wants), listed (the responder has a host configuration for the initiator),
\* major (same protocol version), bypass (--bypass-security), proxy (none, granted or refused),
\* key (the initial key), timeouts (connections may time out).

ASSUME AuthAssumption ==
    /\ MaxTries \in Nat
    /\ Cases \subseteq
          [experimental : [Ends -> BOOLEAN], legacy : [Ends -> BOOLEAN], genuine : BOOLEAN, named : BOOLEAN,
           listed : BOOLEAN, major : BOOLEAN, bypass : BOOLEAN, proxy : {"none", "granted", "refused"},
           key : [Ends -> {"none", "right", "wrong"}], timeouts : BOOLEAN]

NewEnd == [state |-> "idle", allow |-> "ID", minor |-> 0, knows |-> "none", encryptout |-> FALSE,
          decryptin |-> FALSE, sptps |-> "off", active |-> "no"]

AuthInit ==
    /\ case \in Cases
    /\ end = [x \in Ends |-> NewEnd] /\ queue = [x \in Ends |-> <<>>]
    /\ key = case.key /\ tries = 0 /\ misread = FALSE

-----------------------------------------------------------------------------
\* A handler turns x's connection e into another, sends messages, and may save the key it got.
Outcome(e, out) == [e |-> e, out |-> out, save |-> FALSE]
Failed(e, out) == Outcome([e EXCEPT !.state = "closed"], out)

Put(e, req, arg) ==
    [req |-> req, arg |-> arg,
     how |-> IF req = "ID" THEN "plain" ELSE IF e.minor = 2 THEN "sptps" ELSE IF e.encryptout THEN "legacy" ELSE "plain"]

ReadAs(e) == IF e.minor = 2 THEN "sptps" ELSE IF e.decryptin THEN "legacy" ELSE "plain"

\* send_id: the minor version is 1 when the initiator has no key for the other.
Minor(x) == IF ~case.experimental[x] THEN 0 ELSE IF x = "i" /\ key["i"] = "none" THEN 1 ELSE 2

send_id(x) == [req |-> "ID", arg |-> Minor(x), how |-> "plain"]

\* The responder answers an ID with its own.
Greeting(x) == IF x = "r" THEN <<send_id(x)>> ELSE <<>>

\* send_ack: an SPTPS record needs a finished handshake.
send_ack(e, before) ==
    IF e.minor = 2 /\ e.sptps # "done" THEN Failed(e, before)
    ELSE Outcome(e, Append(before, Put(e, "ACK", IF e.minor = 1 THEN "key" ELSE "info")))

send_metakey(x, e, before) ==
    IF ~case.legacy[x] THEN Failed(e, before)
    ELSE Outcome([e EXCEPT !.encryptout = TRUE], Append(before, Put(e, "METAKEY", "")))

\* id_h
Negotiated(x, e, minor) ==
    LET knows == IF case.experimental[x] THEN key[x] ELSE "none"
        m == IF ~case.experimental[x] THEN 0 ELSE minor
    IN  [e EXCEPT !.knows = knows, !.minor = IF m > 0 /\ knows = "none" THEN 1 ELSE m]

Rollback(e) == e.knows # "none" /\ e.minor < 1

id_h(x, e, minor) ==
    LET n == Negotiated(x, e, minor)
    IN  IF (x = "i" /\ ~case.named) \/ ~case.major THEN Failed(e, <<>>)
        ELSE IF case.bypass THEN send_ack([e EXCEPT !.allow = "ACK", !.minor = minor], Greeting(x))
        ELSE IF x = "r" /\ ~case.listed THEN Failed(e, <<>>)
        ELSE IF Rollback(n) THEN Failed(e, <<>>)
        ELSE IF n.minor = 2
            THEN Outcome([n EXCEPT !.allow = "ACK", !.sptps = "kex"], Append(Greeting(x), [req |-> "kex", arg |-> "", how |-> "sptps"]))
            ELSE send_metakey(x, [n EXCEPT !.allow = "METAKEY"], Greeting(x))

\* The SPTPS handshake (see SptpsSession): x has the key right and the other is who it says it is.  The
\* responder signs when it has verified the initiator's signature.
Sig == [req |-> "sig", arg |-> "", how |-> "sptps"]
Verified(x, e) == e.knows = "right" /\ (x = "i" => case.genuine)

sptps_receive_handshake(x, e, m) ==
    IF e.sptps = "kex" /\ m.req = "kex"
        THEN Outcome([e EXCEPT !.sptps = "sig"], IF x = "i" THEN <<Sig>> ELSE <<>>)
    ELSE IF e.sptps = "sig" /\ m.req = "sig" /\ Verified(x, e)
        THEN send_ack([e EXCEPT !.sptps = "done"], IF x = "r" THEN <<Sig>> ELSE <<>>)
    ELSE Failed(e, <<>>)

metakey_h_Late(x, e) ==
    IF ~case.legacy[x] \/ ~e.encryptout THEN Failed(e, <<>>)
    ELSE Outcome([e EXCEPT !.allow = "CHALLENGE"], <<Put(e, "CHALLENGE", "")>>)

metakey_h(x, e) ==
    IF ~case.legacy[x] \/ ~e.encryptout THEN Failed(e, <<>>)
    ELSE Outcome([e EXCEPT !.decryptin = TRUE, !.allow = "CHALLENGE"], <<Put(e, "CHALLENGE", "")>>)

challenge_h(x, e) ==
    Outcome([e EXCEPT !.allow = "CHAL_REPLY"], IF x = "i" THEN <<Put(e, "CHAL_REPLY", "")>> ELSE <<>>)

chal_reply_h(x, e) ==
    IF x = "i" /\ ~case.genuine THEN Failed(e, <<>>)
    ELSE send_ack([e EXCEPT !.allow = "ACK"], IF x = "r" THEN <<Put(e, "CHAL_REPLY", "")>> ELSE <<>>)

upgrade_h_Forgets(x, e) == Outcome([e EXCEPT !.allow = "TERMREQ"], <<Put(e, "TERMREQ", "")>>)

\* upgrade_h
upgrade_h(x, e) ==
    IF e.knows = "wrong" THEN Failed(e, <<>>)
    ELSE [e |-> [e EXCEPT !.allow = "TERMREQ", !.knows = "right"], out |-> <<Put(e, "TERMREQ", "")>>, save |-> e.knows = "none"]

ack_h(x, e, arg) ==
    IF e.minor = 1 THEN upgrade_h(x, e)
    ELSE IF arg # "info" THEN Failed(e, <<>>)
    ELSE Outcome([e EXCEPT !.allow = "ALL", !.active = IF e.minor = 2 THEN "sptps" ELSE IF case.bypass THEN "open" ELSE "legacy"], <<>>)

\* receive_meta, receive_request
receive_request(x, e, m) ==
    IF m.req = "proxy" THEN IF m.arg = "granted" THEN Outcome(e, <<>>) ELSE Failed(e, <<>>)
    ELSE IF m.how # ReadAs(e) THEN Failed(e, <<>>)
    ELSE IF m.req \in {"kex", "sig"} THEN sptps_receive_handshake(x, e, m)
    ELSE IF e.allow \notin {"ALL", m.req} THEN Failed(e, <<>>)
    ELSE CASE m.req = "ID" -> id_h(x, e, m.arg)
           [] m.req = "METAKEY" -> metakey_h(x, e)
           [] m.req = "CHALLENGE" -> challenge_h(x, e)
           [] m.req = "CHAL_REPLY" -> chal_reply_h(x, e)
           [] m.req = "ACK" -> ack_h(x, e, m.arg)
           [] m.req = "TERMREQ" -> Failed(e, <<>>)

-----------------------------------------------------------------------------
\* The initiator connects, through the proxy if there is one, and sends its ID; the responder accepts.
Dial ==
    /\ \A x \in Ends : end[x].state # "open"
    /\ tries < MaxTries /\ tries' = tries + 1
    /\ end' = [x \in Ends |-> [NewEnd EXCEPT !.state = "open"]]
    /\ queue' = [x \in Ends |-> IF x = "r" THEN IF case.proxy = "refused" THEN <<>> ELSE <<send_id("i")>>
                                ELSE IF case.proxy = "none" THEN <<>> ELSE <<[req |-> "proxy", arg |-> case.proxy, how |-> "plain"]>>]
    /\ UNCHANGED <<case, key, misread>>

TakeMessage(x) ==
    /\ end[x].state = "open" /\ queue[x] # <<>>
    /\ \E m \in {Head(queue[x])} : \E res \in {receive_request(x, end[x], m)} :
        /\ end' = [end EXCEPT ![x] = res.e]
        /\ queue' = [queue EXCEPT ![x] = Tail(@), ![Across(x)] = @ \o res.out]
        /\ key' = IF res.save THEN [key EXCEPT ![x] = "right"] ELSE key
        /\ misread' = (misread \/ (m.req # "proxy" /\ m.how # ReadAs(end[x])))
    /\ UNCHANGED <<case, tries>>

\* The other end has closed the connection, and what it sent before has been read.
Hangup(x) ==
    /\ end[x].state = "open" /\ queue[x] = <<>> /\ end[Across(x)].state = "closed"
    /\ end' = [end EXCEPT ![x].state = "closed"]
    /\ UNCHANGED <<case, key, queue, tries, misread>>

\* timeout_handler: "Timeout from ... during authentication"
Timeout(x) ==
    /\ end[x].state = "open" /\ end[x].active = "no"
    /\ case.timeouts \/ (queue["i"] = <<>> /\ queue["r"] = <<>>)
    /\ end' = [end EXCEPT ![x].state = "closed"]
    /\ UNCHANGED <<case, key, queue, tries, misread>>

AuthNext == Dial \/ \E x \in Ends : TakeMessage(x) \/ Hangup(x) \/ Timeout(x)


-----------------------------------------------------------------------------
AuthTypeOK ==
    \A x \in Ends :
        /\ end[x].minor \in 0 .. 2 /\ end[x].active \in {"no", "open", "legacy", "sptps"}
        /\ (end[x].sptps # "off") => end[x].minor = 2 /\ end[x].knows # "none"
        /\ end[x].encryptout => end[x].minor < 2

\* A connection becomes active only with a peer that has shown to be the one it claims to be.
OnlyVerified ==
    \A x \in Ends : end[x].active # "no" /\ ~case.bypass =>
        /\ x = "i" => case.genuine /\ case.named
        /\ x = "r" => case.listed
        /\ end[x].active = "sptps" => end[x].knows = "right"

\* "Forbid version rollback for nodes whose Ed25519 key we know": who knows the key of the other never
\* activates a connection over the legacy protocol.
NoRollback == \A x \in Ends : end[x].active = "legacy" => end[x].knows = "none"

\* Each end switches to reading encrypted data at the very message at which the other switches to
\* sending it, if they are equally far in knowing each other.
NothingMisread == (key["i"] = "none") = (key["r"] = "none") => ~misread

\* An exchange of keys reaches both: when it has run to its end, either both have a key or none has.
UpgradedTogether ==
    ~case.bypass /\ ~case.timeouts /\ (\A x \in Ends : end[x].state # "open") => (key["i"] = "none") = (key["r"] = "none")
        \/ case.key["i"] # case.key["r"]

\* Daemons that both speak SPTPS and can authenticate each other over the legacy protocol end up with an
\* SPTPS connection, by connecting again after the exchange of keys.
Able ==
    /\ \A x \in Ends : case.experimental[x] /\ case.legacy[x]
    /\ case.genuine /\ case.named /\ case.listed /\ case.major /\ ~case.bypass /\ ~case.timeouts
    /\ case.proxy # "refused" /\ \A x \in Ends : case.key[x] = "none"
UpgradeWorks == Able ~> \A x \in Ends : end[x].active = "sptps"

\* No one is activated without having been verified, nor over the legacy protocol once a better key
\* is known; the ends change to ciphers at the same message and to new keys together.
AuthSound ==
    /\ AuthTypeOK
    /\ OnlyVerified /\ NoRollback
    /\ NothingMisread /\ UpgradedTogether
=============================================================================
