---------------------------- MODULE SptpsStream ----------------------------
(***************************************************************************)
(* Two SPTPS sessions joined by a byte stream (a meta connection): the     *)
(* first handshake, application records, and key renegotiation that either *)
(* end, or both at once, may start with sptps_force_kex.  TCP keeps the    *)
(* records of a direction in order and loses none.                         *)
(***************************************************************************)
EXTENDS SptpsSession

CONSTANTS
    MaxKex,     \* bound: KEX records made by one end
    MaxApp      \* bound: application records sent by one end

ASSUME StreamAssumption == MaxKex \in Nat \ {0} /\ MaxApp \in Nat

VARIABLES
    sess,       \* sess[p]: the session of p
    wire,       \* wire[p]: records on their way to p
    kexes,      \* kexes[p]: KEX records p has made
    sent,       \* sent[p]: application records p has sent, numbered from 1
    given,     \* given[p]: the one that p's receive_record was given last
    broken      \* broken[p]: sptps_receive_data returned an error at p

vars == <<sess, wire, kexes, sent, given, broken>>

Peers == {"initiator", "responder"}

Other(p) == CHOOSE q \in Peers : q # p

\* Both ends have called sptps_start and sent their first KEX.
Init ==
    LET started(p) == Start(p = "initiator", Kex(p, 1))
    IN  /\ sess = [p \in Peers |-> started(p).s]
        /\ wire = [p \in Peers |-> started(Other(p)).out]
        /\ kexes = [p \in Peers |-> 1]
        /\ sent = [p \in Peers |-> 0] /\ given = [p \in Peers |-> 0]
        /\ broken = [p \in Peers |-> FALSE]

Fresh(p) == Kex(p, kexes[p] + 1)

\* What a call of the library at p leaves behind.
Apply(p, r) ==
    /\ sess' = [sess EXCEPT ![p] = r.s]
    /\ wire' = [wire EXCEPT ![Other(p)] = @ \o r.out]
    /\ kexes' = [kexes EXCEPT ![p] = @ + (IF r.s.mykex = Fresh(p) THEN 1 ELSE 0)]

\* receive_meta hands the next whole record to sptps_receive_data; an error
\* makes the caller close the connection.
Receive(p) ==
    /\ wire[p] # <<>>
    /\ ~ broken[p]
    /\ LET r == ReceiveStream(sess[p], Head(wire[p]), Fresh(p))
       IN  /\ sess' = [sess EXCEPT ![p] = r.s]
           /\ wire' = [wire EXCEPT ![p] = Tail(@), ![Other(p)] = @ \o r.out]
           /\ kexes' = [kexes EXCEPT
                ![p] = @ + (IF r.s.mykex = Fresh(p) THEN 1 ELSE 0)]
           /\ given' = [given EXCEPT
                ![p] = IF r.ok /\ Head(wire[p]).body.kind = "app" THEN Head(wire[p]).body.data ELSE @]
           /\ broken' = [broken EXCEPT ![p] = ~ r.ok]
    /\ UNCHANGED sent

\* The bound leaves the other end room to answer.
Rekey(p) ==
    /\ CanForceKex(sess[p])
    /\ kexes[p] < MaxKex
    /\ Apply(p, ForceKex(sess[p], Fresh(p)))
    /\ UNCHANGED <<sent, given, broken>>

SendData(p) ==
    /\ sess[p].outstate
    /\ sent[p] < MaxApp
    /\ Apply(p, SendApp(sess[p], sent[p] + 1))
    /\ sent' = [sent EXCEPT ![p] = @ + 1]
    /\ UNCHANGED <<given, broken>>

Next == \E p \in Peers : Receive(p) \/ Rekey(p) \/ SendData(p)

\* The event loop calls handle_meta_io while there is something to read.
Fairness == \A p \in Peers : WF_vars(Receive(p))

Spec == Init /\ [][Next]_vars /\ Fairness

-----------------------------------------------------------------------------
KexIds == {Kex(p, n) : p \in Peers, n \in 1 .. 2 * MaxKex}

\* The sessions are well formed, and a session that is not in the middle of
\* a handshake keeps no KEX record and no pending key of the last one.
TypeOK ==
    /\ sess \in [Peers -> Sessions(KexIds, Nat)]
    /\ kexes \in [Peers -> 1 .. 2 * MaxKex]
    /\ sent \in [Peers -> 0 .. MaxApp] /\ given \in [Peers -> 0 .. MaxApp]
    /\ broken \in [Peers -> BOOLEAN]
    /\ \A p \in Peers : sess[p].state = "secondary_kex" =>
          sess[p].mykex = NoKex /\ sess[p].hiskex = NoKex /\ sess[p].key = NoKey

\* Over a stream no call of sptps_receive_data fails: not when both ends
\* start a renegotiation at the same time, not when data is under way while
\* the keys change, not when one end renegotiates again at once.
NeverBroken == \A p \in Peers : ~ broken[p]

\* With nothing under way in one direction the ends agree on its key and on
\* the next sequence number.
KeysAgree ==
    \A p \in Peers :
        wire[p] = <<>> /\ sess[p].instate /\ sess[Other(p)].outstate =>
            /\ sess[Other(p)].outcipher = sess[p].incipher
            /\ sess[Other(p)].outseqno = sess[p].inseqno

\* Each direction has its own key: what one end encrypts can never be taken
\* for something the other end encrypted.
DirectionsDiffer ==
    \A p \in Peers :
        sess[p].outstate => sess[p].outcipher # sess[Other(p)].outcipher

\* Every handshake finishes: whoever starts a renegotiation gets back to the
\* state in which another one is possible.
HandshakeFinishes ==
    \A p \in Peers :
        sess[p].state # "secondary_kex" ~> sess[p].state = "secondary_kex"

\* The application records that were sent to p and that its receive_record was not given yet.
Awaited(p) == [i \in 1 .. sent[Other(p)] - given[p] |-> given[p] + i]

queued == [p \in Peers |-> Awaited(p)]

Channel == INSTANCE RecordChannel WITH Records <- 1 .. MaxApp, queue <- queued

\* Between what is given to sptps_send_record at one end and what receive_record is given at the
\* other, the sessions, handshakes and all, implement a reliable record channel.
IsRecordChannel == Channel!Spec

\* Renegotiations and data may cross as they like: no call fails, and with nothing under way the
\* ends agree on keys, which differ by direction, and on numbers.
StreamSessionsSound ==
    /\ TypeOK /\ NeverBroken
    /\ KeysAgree /\ DirectionsDiffer
=============================================================================
