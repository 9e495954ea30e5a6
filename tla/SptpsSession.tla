---------------------------- MODULE SptpsSession ----------------------------
(***************************************************************************)
(* One end of an SPTPS session (struct sptps) and what the functions of    *)
(* sptps.c do to it.                                                       *)
(*                                                                         *)
(* A KEX record is known by its identity: two KEX records with the same    *)
(* nonce and public key are the same record.  Key material is known by the *)
(* two KEX records it was computed from, initiator's first.  The sort of a *)
(* handshake record is not on the wire: a record is recognised by the      *)
(* state it arrives in and its length, for which "kind" stands.            *)
(*                                                                         *)
(* The functions work on a result r: the return value r.ok, the session    *)
(* r.s, the records r.out handed to send_data, and r.up, whether           *)
(* receive_record was told that a handshake has finished.                  *)
(***************************************************************************)
EXTENDS Integers, Sequences

NoKex == <<"nobody", 0>>   \* NULL in mykex and hiskex
NoKey == <<>>              \* NULL in key, and a cipher without a key

Kex(peer, n) == <<peer, n>>

\* Cipher key number b (key0 or key1) of some key material.
CipherKey(b, material) == <<b, material>>

KexBody(kex) == [kind |-> "kex", kex |-> kex]
SigBody(initiator, kex0, kex1) ==
    [kind |-> "sig", initiator |-> initiator, kex0 |-> kex0, kex1 |-> kex1]
AckBody == [kind |-> "ack"]
AppBody(n) == [kind |-> "app", data |-> n]

Result(s) == [ok |-> TRUE, s |-> s, out |-> <<>>, up |-> FALSE]

Fail(r) == [r EXCEPT !.ok = FALSE]

SendRecord_SameNumber(r, body) ==
    [r EXCEPT
        !.out = Append(@, [seqno |-> r.s.outseqno,
                           key   |-> IF r.s.outstate THEN r.s.outcipher ELSE NoKey,
                           body  |-> body])]

\* send_record_priv: number the record, encrypt it once outstate is set.
SendRecord(r, body) ==
    [r EXCEPT
        !.s.outseqno = @ + 1,
        !.out = Append(@, [seqno |-> r.s.outseqno,
                           key   |-> IF r.s.outstate THEN r.s.outcipher ELSE NoKey,
                           body  |-> body])]

SendKex(r, kex) ==
    IF r.s.mykex # NoKex
    THEN Fail(r)
    ELSE SendRecord([r EXCEPT !.s.mykex = kex], KexBody(kex))

SendSig(r) ==
    SendRecord(r, SigBody(r.s.initiator, r.s.mykex, r.s.hiskex))

\* sptps_stop: the session is zeroed.
Stopped ==
    [initiator |-> FALSE, state |-> "none", instate |-> FALSE, outstate |-> FALSE,
     incipher |-> NoKey, outcipher |-> NoKey, inseqno |-> 0, outseqno |-> 0,
     mykex |-> NoKex, hiskex |-> NoKex, key |-> NoKey]

\* sptps_start: a zeroed session that sends its first KEX at once.
Start(initiator, kex) ==
    SendKex(Result([Stopped EXCEPT !.initiator = initiator, !.state = "kex"]), kex)

-----------------------------------------------------------------------------
ReceiveAck(r, body) ==
    IF body.kind # "ack"
    THEN Fail(r)
    ELSE [r EXCEPT
            !.s.incipher = CipherKey(IF r.s.initiator THEN 0 ELSE 1, r.s.key),
            !.s.key = NoKey,
            !.s.instate = TRUE]

ReceiveKex_NoSig(r, body) ==
    IF body.kind # "kex" \/ r.s.hiskex # NoKex
    THEN Fail(r)
    ELSE LET kept == [r EXCEPT !.s.hiskex = body.kex]
         IN  IF r.s.initiator /\ ~ r.s.outstate THEN SendSig(kept) ELSE kept

ReceiveKex(r, body) ==
    IF body.kind # "kex" \/ r.s.hiskex # NoKex
    THEN Fail(r)
    ELSE LET kept == [r EXCEPT !.s.hiskex = body.kex]
         IN  IF r.s.initiator THEN SendSig(kept) ELSE kept

\* generate_key_material: the seed puts the initiator's nonce first.
Material(s) ==
    IF s.initiator THEN <<s.mykex, s.hiskex>> ELSE <<s.hiskex, s.mykex>>

SwitchOut_AckLast(r) ==
    LET cleared == [r EXCEPT !.s.mykex = NoKex, !.s.hiskex = NoKex]
        switched == [cleared EXCEPT !.s.outcipher =
                        CipherKey(IF r.s.initiator THEN 1 ELSE 0, r.s.key)]
    IN  IF r.s.outstate THEN SendRecord(switched, AckBody) ELSE switched

\* The last part of receive_sig: forget the KEX records, acknowledge under
\* the old key when this is not the first handshake, then change the key.
SwitchOut(r) ==
    LET cleared == [r EXCEPT !.s.mykex = NoKex, !.s.hiskex = NoKex]
        acked == IF r.s.outstate THEN SendRecord(cleared, AckBody) ELSE cleared
    IN  [acked EXCEPT !.s.outcipher =
            CipherKey(IF r.s.initiator THEN 1 ELSE 0, r.s.key)]

ReceiveSig(r, body) ==
    IF body # SigBody(~ r.s.initiator, r.s.hiskex, r.s.mykex)
    THEN Fail(r)
    ELSE LET keyed == [r EXCEPT !.s.key = Material(r.s)]
         IN  SwitchOut(IF r.s.initiator THEN keyed ELSE SendSig(keyed))

Goto(r, state) == IF r.ok THEN [r EXCEPT !.s.state = state] ELSE r

\* The end of a handshake: the new key to receive with, and the news for
\* the application.
Finish(r, body) ==
    LET acked == ReceiveAck(r, body)
    IN  IF acked.ok THEN Goto([acked EXCEPT !.up = TRUE], "secondary_kex") ELSE acked

\* receive_handshake; fresh is the KEX record made if one has to be sent.
ReceiveHandshake(r, body, fresh) ==
    CASE r.s.state = "secondary_kex" ->
            LET sent == SendKex(r, fresh)
            IN  IF sent.ok THEN Goto(ReceiveKex(sent, body), "sig") ELSE sent
      [] r.s.state = "kex" -> Goto(ReceiveKex(r, body), "sig")
      [] r.s.state = "sig" ->
            LET signed == ReceiveSig(r, body)
            IN  IF ~ signed.ok THEN signed
                ELSE IF signed.s.outstate THEN Goto(signed, "ack")
                ELSE Finish([signed EXCEPT !.s.outstate = TRUE], AckBody)
      [] r.s.state = "ack" -> Finish(r, body)

\* What follows decryption in sptps_receive_data and its datagram version:
\* application records go up as they are.
Dispatch(r, body, fresh) ==
    IF body.kind = "app" THEN r ELSE ReceiveHandshake(r, body, fresh)

\* sptps_receive_data on a whole record of a stream session.
ReceiveStream(s, rec, fresh) ==
    LET r == Result([s EXCEPT !.inseqno = @ + 1])
    IN  IF \/ s.instate /\ (rec.key # s.incipher \/ rec.seqno # s.inseqno)
           \/ ~ s.instate /\ (rec.key # NoKey \/ rec.body.kind = "app")
        THEN Fail(r)
        ELSE Dispatch(r, rec.body, fresh)

\* sptps_receive_data on a datagram.  During the first handshake the number
\* must be the expected one, which is consumed before the record is looked
\* at; afterwards the replay window decides (see ReplayWindow), which here
\* lets every authentic record through.
ReceiveDatagram(s, rec, fresh) ==
    LET counted == Result([s EXCEPT !.inseqno = @ + 1])
    IN  CASE s.instate /\ rec.key # s.incipher -> Fail(Result(s))
          [] s.instate /\ rec.key = s.incipher ->
                Dispatch(Result(s), rec.body, fresh)
          [] ~ s.instate /\ rec.seqno # s.inseqno -> Fail(Result(s))
          [] ~ s.instate /\ rec.seqno = s.inseqno ->
                IF rec.key # NoKey \/ rec.body.kind = "app"
                THEN Fail(counted)
                ELSE ReceiveHandshake(counted, rec.body, fresh)

CanForceKex(s) == s.outstate /\ s.state = "secondary_kex"

\* sptps_force_kex, when it is allowed.
ForceKex(s, fresh) == SendKex(Result([s EXCEPT !.state = "kex"]), fresh)

\* sptps_send_record, when it is allowed.
SendApp(s, n) == SendRecord(Result(s), AppBody(n))

Sessions(KexIds, SeqNos) ==
    [initiator : BOOLEAN,
         state : {"none", "kex", "secondary_kex", "sig", "ack"},
         instate : BOOLEAN, outstate : BOOLEAN,
         incipher : {NoKey} \cup ({0, 1} \X (KexIds \X KexIds)),
         outcipher : {NoKey} \cup ({0, 1} \X (KexIds \X KexIds)),
         inseqno : SeqNos, outseqno : SeqNos,
         mykex : {NoKex} \cup KexIds, hiskex : {NoKex} \cup KexIds,
         key : {NoKey} \cup (KexIds \X KexIds)]
=============================================================================
