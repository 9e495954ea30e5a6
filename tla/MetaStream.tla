----------------------------- MODULE MetaStream -----------------------------
(***************************************************************************)
(* The bytes of one direction of a meta connection: the output buffer and  *)
(* its writer (meta.c, buffer.c, handle_meta_write of net_socket.c), the   *)
(* socket, and receive_meta, which has to find the messages again whatever *)
(* pieces the socket hands it.  What a byte belongs to changes on the way: *)
(* the answer of a SOCKS or HTTP proxy comes before the first line; an ID  *)
(* line may switch the rest to SPTPS records, METAKEY switches it to       *)
(* ciphertext, PACKET and SPTPS_PACKET announce a number of raw bytes.     *)
(*                                                                         *)
(* A message is its kind and its length; byte k of message m is [m, k].    *)
(* Binary messages may contain a byte that looks like a newline.           *)
(***************************************************************************)
EXTENDS Naturals, Sequences, SequencesExt, FiniteSets

CONSTANTS Streams,   \* the sequences of messages a peer may send
          ReadSize   \* MAXBUFSIZE

VARIABLES stream,    \* the messages that are sent on this connection
          queued,    \* how many of them send_meta has been given
          outbuf,    \* c->outbuf of the sender
          writes,    \* whether its event loop waits for IO_WRITE
          dropped,   \* bytes in outbuf when the sender closed the connection
          socket,    \* the socket
          taken,     \* bytes taken from the socket so far
          chunk,     \* bufp and inlen of the receive_meta that is running
          inbuf,     \* c->inbuf
          record,    \* the bytes of the SPTPS record that is arriving
          con,       \* [tcplen, sptpslen, sptps, decrypt, at]
          got        \* the messages that were handled, in order

streamVars == <<stream, queued, outbuf, writes, dropped, socket, taken, chunk, inbuf, record, con, got>>

Lined == {"http", "blank", "id", "sptps_id", "metakey", "request", "packet"}
Records == {"record", "sptps_packet"}

\* The bytes of a message.
BytesOf(m) == [k \in 1..stream[m].len |-> [m |-> m, k |-> k]]

Newline(b) ==
  IF stream[b.m].kind \in Lined THEN b.k = stream[b.m].len ELSE b.k \in stream[b.m].newlines

\* Messages after METAKEY are enciphered, as far as SPTPS is not in use.
Enciphered(m) == \E i \in 1..(m - 1) : stream[i].kind = "metakey"

Garbage == 0

\* The message a run of bytes makes up.
Message(bytes) ==
  IF \E m \in 1..Len(stream) : bytes = BytesOf(m) THEN Head(bytes).m ELSE Garbage

StreamInit ==
  /\ stream \in Streams
  /\ queued = 0
  /\ outbuf = <<>> /\ socket = <<>> /\ chunk = <<>> /\ inbuf = <<>> /\ record = <<>> /\ got = <<>>
  /\ writes = FALSE
  /\ taken = 0 /\ dropped = 0
  /\ con = [tcplen |-> IF stream[1].kind = "socks" THEN stream[1].len ELSE 0, sptpslen |-> 0,
            sptps |-> FALSE, decrypt |-> FALSE, at |-> "idle"]

(***************************************************************************)
(* Sending                                                                 *)
(***************************************************************************)

\* buffer.c: what is added goes to the end, what is read is consumed.
buffer_add(buffer, data) == buffer \o data
buffer_consume(buffer, size) == SubSeq(buffer, size + 1, Len(buffer))

\* send_meta, send_meta_raw and send_meta_sptps.
send_meta ==
  /\ queued < Len(stream) /\ dropped = 0
  /\ queued' = queued + 1
  /\ outbuf' = buffer_add(outbuf, BytesOf(queued + 1))
  /\ writes' = TRUE
  /\ UNCHANGED <<stream, dropped, socket, taken, chunk, inbuf, record, con, got>>

\* handle_meta_write: the socket takes some of the buffer, or would block; or
\* it fails, and the connection is terminated.
handle_meta_write(n) ==
  /\ writes /\ outbuf # <<>>
  /\ socket' = socket \o SubSeq(outbuf, 1, n)
  /\ outbuf' = buffer_consume(outbuf, n)
  /\ writes' = (outbuf' # <<>>)
  /\ UNCHANGED <<stream, queued, dropped, taken, chunk, inbuf, record, con, got>>

WriteError ==
  /\ writes /\ outbuf # <<>>
  /\ dropped' = Len(outbuf) /\ outbuf' = <<>> /\ writes' = FALSE
  /\ UNCHANGED <<stream, queued, socket, taken, chunk, inbuf, record, con, got>>

(***************************************************************************)
(* Receiving                                                               *)
(***************************************************************************)

\* receive_meta takes what the socket has, as far as its buffer has room, and
\* ends the connection if there is none, or at the end of the stream.
receive_meta(n) ==
  /\ con.at = "idle" /\ Len(inbuf) < ReadSize
  /\ n \in 1..(ReadSize - Len(inbuf)) /\ n <= Len(socket)
  /\ chunk' = SubSeq(socket, 1, n)
  /\ socket' = SubSeq(socket, n + 1, Len(socket))
  /\ taken' = taken + n
  /\ con' = [con EXCEPT !.at = "outer"]
  /\ UNCHANGED <<stream, queued, outbuf, writes, dropped, inbuf, record, got>>

BufferFull ==
  /\ con.at = "idle" /\ Len(inbuf) >= ReadSize
  /\ con' = [con EXCEPT !.at = "dead"]
  /\ UNCHANGED <<stream, queued, outbuf, writes, dropped, socket, taken, chunk, inbuf, record, got>>

EndOfStream ==
  /\ con.at = "idle" /\ socket = <<>> /\ dropped > 0
  /\ con' = [con EXCEPT !.at = "closed"]
  /\ UNCHANGED <<stream, queued, outbuf, writes, dropped, socket, taken, chunk, inbuf, record, got>>

\* What a handled message changes in the connection.
Effect(c, m) ==
  CASE m = Garbage -> [c EXCEPT !.at = "dead"]
    [] stream[m].kind = "sptps_id" -> [c EXCEPT !.sptps = TRUE]
    [] stream[m].kind = "metakey" -> [c EXCEPT !.decrypt = TRUE]
    [] stream[m].kind = "packet" -> [c EXCEPT !.tcplen = stream[m + 1].len]
    [] stream[m].kind = "sptps_packet" -> [c EXCEPT !.sptpslen = stream[m + 1].len]
    [] OTHER -> c

\* The raw bytes of a packet relayed over TCP go past SPTPS.
RawPacket ==
  /\ con.at = "outer" /\ chunk # <<>> /\ con.sptpslen > 0
  /\ LET need == con.sptpslen - Len(inbuf)
         n == IF Len(chunk) < need THEN Len(chunk) ELSE need
         all == inbuf \o SubSeq(chunk, 1, n)
     IN  /\ chunk' = SubSeq(chunk, n + 1, Len(chunk))
         /\ IF Len(all) < con.sptpslen
            THEN /\ inbuf' = all
                 /\ con' = con
                 /\ got' = got
            ELSE /\ inbuf' = <<>>
                 /\ got' = Append(got, Message(all))
                 /\ con' = Effect([con EXCEPT !.sptpslen = 0], Message(all))
  /\ UNCHANGED <<stream, queued, outbuf, writes, dropped, socket, taken, record>>

\* sptps_receive_data takes bytes up to the end of one record.
SptpsData ==
  /\ con.at = "outer" /\ chunk # <<>> /\ con.sptpslen = 0 /\ con.sptps
  /\ LET first == (record \o chunk)[1]
         need == stream[first.m].len - Len(record)
         n == IF Len(chunk) < need THEN Len(chunk) ELSE need
         all == record \o SubSeq(chunk, 1, n)
         m == IF stream[first.m].kind \in Records THEN Message(all) ELSE Garbage
     IN  /\ chunk' = SubSeq(chunk, n + 1, Len(chunk))
         /\ IF n < need
            THEN record' = all /\ con' = con /\ got' = got
            ELSE record' = <<>> /\ con' = Effect(con, m) /\ got' = Append(got, m)
  /\ UNCHANGED <<stream, queued, outbuf, writes, dropped, socket, taken, inbuf>>

\* Plain text is taken up to a newline, ciphertext all at once.
Upto_All(bytes, decrypt) == Len(bytes)

Upto(bytes, decrypt) ==
  LET ends == {i \in DOMAIN bytes : Newline(bytes[i])}
  IN  IF decrypt \/ ends = {} THEN Len(bytes) ELSE CHOOSE i \in ends : \A j \in ends : i <= j

Fill ==
  /\ con.at = "outer" /\ chunk # <<>> /\ con.sptpslen = 0 /\ ~ con.sptps
  /\ LET n == Upto(chunk, con.decrypt)
         part == SubSeq(chunk, 1, n)
     IN  /\ inbuf' = buffer_add(inbuf, part)
         /\ chunk' = SubSeq(chunk, n + 1, Len(chunk))
         /\ con' = [con EXCEPT !.at = IF \A i \in DOMAIN part : Enciphered(part[i].m) = con.decrypt
                                      THEN "inner" ELSE "dead"]
  /\ UNCHANGED <<stream, queued, outbuf, writes, dropped, socket, taken, record, got>>

\* The inner loop: first the bytes that were announced, then a line.  A proxy's
\* answer is only expected where the connection starts.
Announced ==
  /\ con.at = "inner" /\ con.tcplen > 0 /\ Len(inbuf) >= con.tcplen
  /\ \E m \in {Message(SubSeq(inbuf, 1, con.tcplen))} :
       /\ got' = Append(got, m)
       /\ con' = Effect([con EXCEPT !.tcplen = 0], m)
  /\ inbuf' = buffer_consume(inbuf, con.tcplen)
  /\ UNCHANGED <<stream, queued, outbuf, writes, dropped, socket, taken, chunk, record>>

LineEnd == {i \in DOMAIN inbuf : Newline(inbuf[i])}

Line ==
  /\ con.at = "inner" /\ con.tcplen = 0 /\ LineEnd # {}
  /\ \E n \in LineEnd :
       /\ \A i \in LineEnd : n <= i
       /\ \E m \in {Message(SubSeq(inbuf, 1, n))} :
            /\ got' = Append(got, m)
            /\ con' = Effect(con, m)
       /\ inbuf' = buffer_consume(inbuf, n)
  /\ UNCHANGED <<stream, queued, outbuf, writes, dropped, socket, taken, chunk, record>>

\* Neither is complete: on with the rest of the chunk, or back to the loop.
NoMore ==
  /\ con.at = "inner"
  /\ IF con.tcplen > 0 THEN Len(inbuf) < con.tcplen ELSE LineEnd = {}
  /\ con' = [con EXCEPT !.at = "outer"]
  /\ UNCHANGED <<stream, queued, outbuf, writes, dropped, socket, taken, chunk, inbuf, record, got>>

Return ==
  /\ con.at = "outer" /\ chunk = <<>>
  /\ con' = [con EXCEPT !.at = "idle"]
  /\ UNCHANGED <<stream, queued, outbuf, writes, dropped, socket, taken, chunk, inbuf, record, got>>

StreamNext ==
  \/ send_meta
  \/ \E n \in 1..Len(outbuf) : handle_meta_write(n)
  \/ WriteError
  \/ \E n \in 1..ReadSize : receive_meta(n)
  \/ BufferFull \/ EndOfStream
  \/ RawPacket \/ SptpsData \/ Fill \/ Announced \/ Line \/ NoMore \/ Return

(***************************************************************************)
(* SOCKS: the lengths send_proxyrequest relies on (proxy.c)                *)
(***************************************************************************)

NoName == 1000   \* proxyuser or proxypass is not set
AddrLen(family) == IF family = 4 THEN 6 ELSE 18

socks_req_len(type, family, user, pass) ==
  IF type = 4 THEN (IF family # 4 THEN 0 ELSE 8 + 1 + (IF user = NoName THEN 0 ELSE user))
  ELSE 3 + 4 + AddrLen(family) + (IF user # NoName /\ pass # NoName THEN 3 + user + pass ELSE 0)

\* The request as the fields create_socks_req writes, [what, bytes, value].
create_socks_req(type, family, user, pass) ==
  IF type = 4
  THEN IF family # 4 THEN <<>>
       ELSE <<[f |-> "command", n |-> 8, v |-> 0],
              [f |-> "id", n |-> (IF user = NoName THEN 0 ELSE user) + 1, v |-> 0]>>
  ELSE <<[f |-> "greet", n |-> 3, v |-> IF user # NoName /\ pass # NoName THEN 2 ELSE 0]>>
       \o (IF user # NoName /\ pass # NoName
           THEN <<[f |-> "version", n |-> 1, v |-> 1],
                  [f |-> "userlen", n |-> 1, v |-> user % 256], [f |-> "user", n |-> user, v |-> 0],
                  [f |-> "passlen", n |-> 1, v |-> pass % 256], [f |-> "pass", n |-> pass, v |-> 0]>>
           ELSE <<>>)
       \o <<[f |-> "connect", n |-> 4 + AddrLen(family), v |-> family]>>

\* The length of the answer it says to wait for, which becomes c->tcplen.
ReplyLen(type, family, user, pass) ==
  IF type = 4 THEN (IF family # 4 THEN 0 ELSE 8)
  ELSE 2 + (IF user # NoName /\ pass # NoName THEN 2 ELSE 0) + 4 + AddrLen(family)

\* check_socks_resp: a reply is its version, method, the status of the login and
\* of the request, the type of the address in it, and its length.
check_socks_resp(type, r, len) ==
  IF type = 4 THEN len >= 8 /\ r.version = 0 /\ r.granted
  ELSE /\ len >= 2 /\ r.version = 5
       /\ \/ r.method = 0 /\ len - 2 >= 4 /\ len - 6 >= AddrLen(r.family)
          \/ r.method = 2 /\ len - 2 >= 6 /\ r.login /\ len - 8 >= AddrLen(r.family)
       /\ r.granted

(***************************************************************************)
(* Properties                                                              *)
(***************************************************************************)

Total(k) == FoldFunctionOnSet(LAMBDA a, b : a + b, 0, [m \in DOMAIN stream |-> stream[m].len], 1..k)

\* The state of the connection.  Raw bytes are never awaited in both places, no
\* byte is in a buffer under two rules, and none is duplicated or dropped on
\* the way from the sender's messages to what was handled.
StreamTypeOK ==
  /\ con.at \in {"idle", "outer", "inner", "dead", "closed"}
  /\ con.tcplen = 0 \/ con.sptpslen = 0
  /\ inbuf = <<>> \/ record = <<>>
  /\ con.at \in {"outer", "inner"} \/ chunk = <<>> \/ con.at = "dead"
  /\ Len(outbuf) + Len(socket) + taken + dropped = Total(queued)

\* Whatever pieces the socket delivers, when receive_meta returns the messages
\* handled are exactly those of which the last byte has been read, in order:
\* none is cut, joined with another, read under the wrong cipher or left in a
\* buffer until more bytes happen to come.  The connection is only given up for
\* a message that does not fit into the buffer.
Prompt ==
  /\ con.at = "dead" => Len(inbuf) = ReadSize /\ stream[Len(got) + 1].len > ReadSize
  /\ con.at \in {"idle", "closed", "dead"} =>
       got = [i \in 1..Cardinality({k \in 1..Len(stream) : Total(k) <= taken}) |-> i]

\* Bytes never wait in the output buffer without the event loop waiting for
\* the socket to take them.
WriteArmed == outbuf # <<>> => writes

NameLengths == {NoName, 0, 1, 255}

\* A SOCKS request is as long as the space send_proxyrequest reserves and sends
\* for it, the lengths written in it are those of the names, and the answer it
\* waits for is the one a proxy gives that grants the request: not a byte more,
\* which would be taken from the peer's ID, and not fewer.
SocksAgrees ==
  stream[1].kind = "socks" => \A type \in {4, 5}, family \in {4, 6}, user \in NameLengths, pass \in NameLengths :
    LET req == create_socks_req(type, family, user, pass)
        len == ReplyLen(type, family, user, pass)
        login == user # NoName /\ pass # NoName
        reply == [version |-> IF type = 4 THEN 0 ELSE 5, method |-> IF login THEN 2 ELSE 0,
                  login |-> TRUE, granted |-> TRUE, family |-> family]
    IN  /\ FoldSeq(LAMBDA x, y : x.n + y, 0, req) = socks_req_len(type, family, user, pass)
        /\ \A i \in 1..(Len(req) - 1) : req[i].f \in {"userlen", "passlen"} => req[i].v = req[i + 1].n
        /\ len > 0 <=> check_socks_resp(type, reply, len)
        /\ len > 0 => ~ check_socks_resp(type, reply, len - 1)

\* No byte waits in a buffer for something that need not come, and messages, proxy answers included,
\* are cut from the stream where they end.
StreamSound ==
    /\ StreamTypeOK
    /\ Prompt /\ WriteArmed
    /\ SocksAgrees
=============================================================================
