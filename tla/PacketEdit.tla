---------------------------- MODULE PacketEdit -----------------------------
(***************************************************************************)
(* What route.c does to the bytes of a packet that it does not pass on as  *)
(* it is: the Internet checksum, the time to live, the maximum segment     *)
(* size, fragments, and the error messages it sends back.                  *)
(*                                                                         *)
(* The module has one step: an input is taken, and what the functions make *)
(* of it is compared with what the RFCs say of the result.                 *)
(***************************************************************************)
EXTENDS Integers, Sequences, FiniteSets, SequencesExt, FiniteSetsExt

CONSTANTS
    Bytes,     \* values of the bytes in the inputs
    Words,     \* values of their 16-bit words
    Lengths,   \* lengths of IPv4 payloads
    Mtus       \* what dest->mtu may be

VARIABLE input  \* what the functions are given: [kind, ...], or [kind |-> "none"]

ether_size == 14
ip_size == 20
icmp_size == 8
IP_MSS == 576
W == 65536

-----------------------------------------------------------------------------
(* inet_checksum *)

\* The carries go back in at the low end.
RECURSIVE Carried(_)
Carried(sum) == IF sum < W THEN sum ELSE Carried((sum % W) + (sum \div W))

\* Words of a little-endian machine; a last odd byte is a word of its own.
WordSum(data) ==
    LET pair(i) == data[i] + (IF i < Len(data) THEN 256 * data[i + 1] ELSE 0)
        at == {i \in 1 .. Len(data) : i % 2 = 1}
    IN  FoldSet(LAMBDA i, sum : sum + pair(i), 0, at)

inet_checksum(data, prevsum) == 65535 - Carried((65535 - prevsum) + WordSum(data))

-----------------------------------------------------------------------------
(* do_decrement_ttl *)

\* Words of the IPv4 header, in network order: the fifth has the TTL and the protocol, the
\* sixth the checksum.
HeaderSum(h) == Carried(FoldSet(LAMBDA i, sum : sum + h[i], 0, 1 .. Len(h)))
Valid(h) == HeaderSum(h) = 65535

Ttl(h) == h[5] \div 256

Decremented_NoCarry(h) ==
    LET old == h[5]
        new == old - 256
    IN  [h EXCEPT ![5] = new, ![6] = (h[6] + old + (65535 - new)) % W]

Decremented(h) ==
    LET old == h[5]
        new == old - 256
    IN  [h EXCEPT ![5] = new, ![6] = Carried(h[6] + old + (65535 - new))]

\* What becomes of an IPv4 packet: an error goes back unless the packet seems to be one itself.
\* The bytes looked at for that are the second of the checksum, and the thirteenth that follows
\* the header.
do_decrement_ttl(h, later) ==
    IF Ttl(h) <= 1
        THEN [pass |-> FALSE, error |-> (h[6] % 256) # 1 \/ later # 11, header |-> h]
        ELSE [pass |-> TRUE, error |-> FALSE, header |-> Decremented(h)]

-----------------------------------------------------------------------------
(* clamp_mss *)

\* Where the search through the first len bytes of opt ends up: the index of an MSS option, or -1.
RECURSIVE FindMss(_, _, _)
FindMss(opt, len, i) ==
    LET byte(k) == opt[k + 1]
    IN  IF i >= len THEN -1
        ELSE IF byte(i) = 0 THEN -1
        ELSE IF byte(i) = 1 THEN FindMss(opt, len, i + 1)
        ELSE IF i > len - 2 THEN -1
        ELSE IF i > len - byte(i + 1) THEN -1
        ELSE IF byte(i) # 2 THEN (IF byte(i + 1) < 2 THEN -1 ELSE FindMss(opt, len, i + byte(i + 1)))
        ELSE IF byte(1) # 4 THEN -1
        ELSE i

Mss(opt, i) == opt[i + 3] * 256 + opt[i + 4]

WithMss(opt, i, mss) == [opt EXCEPT ![i + 3] = mss \div 256, ![i + 4] = mss % 256]

\* csum: of the TCP header, in network order
MssChecksum(csum, oldmss, newmss) ==
    LET a == (65535 - csum) + (65535 - oldmss) + newmss
        b == (a % W) + (a \div W)
    IN  65535 - ((b + (b \div W)) % W)

\* The data that follows the options is part of the packet.
Following == <<9, 9>>
Options(opt) == Len(opt) - Len(Following)

\* start: where the TCP header begins
clamp_mss(opt, csum, mtu, start) ==
    LET i == FindMss(opt, Options(opt), 0)
        newmss == mtu - start - 20
    IN  IF i < 0 THEN [opt |-> opt, csum |-> csum]
        ELSE IF Mss(opt, i) <= newmss THEN [opt |-> opt, csum |-> csum]
        ELSE [opt |-> WithMss(opt, i, newmss), csum |-> MssChecksum(csum, Mss(opt, i), newmss)]

-----------------------------------------------------------------------------
(* fragment_ipv4_packet and the error messages *)

\* Payload that a fragment for a node may carry
Room(mtu) == LET room == Max({mtu, 590}) - ether_size - ip_size IN room - (room % 8)

\* The fragments of todo bytes at offset off (in units of eight), of a packet that has more
\* fragments behind it or not
RECURSIVE Fragments(_, _, _, _)
Fragments(todo, room, off, more) ==
    IF todo = 0 THEN <<>>
    ELSE LET len == Min({todo, room})
         IN  <<[off |-> off, len |-> len, more |-> more \/ len < todo]>>
                 \o Fragments(todo - len, room, off + (len \div 8), more)

\* A packet of len bytes with the header ip: nothing is made of one with IP options, or whose
\* header speaks of another length.
fragment_ipv4_packet(ip, len, mtu) ==
    IF ip.hl # ip_size \div 4 \/ ether_size + ip.len # len THEN <<>>
    ELSE Fragments(ip.len - ip_size, Room(mtu), ip.off, ip.more)

\* How much of the packet comes back with the error
Quoted(len, ether) == Min({len - ether, IP_MSS - ip_size - icmp_size})

\* Length of the frame with the error, and the MTU it tells of
route_ipv4_unreachable(len, ether) ==
    [len |-> ether + ip_size + icmp_size + Quoted(len, ether), nextmtu |-> len - ether]

-----------------------------------------------------------------------------
\* TCP options: no-operation, others of two, three and four bytes, MSS, end of the list.  The
\* list is filled up to whole words.
Mss1460 == <<2, 4, 5, 180>>
AnyOption == {<<1>>, <<4, 2>>, <<3, 3, 7>>, <<254, 4, 0, 0>>, Mss1460, <<2, 4, 0, 0>>, <<0>>, <<9, 0>>}
Filled(opt) == opt \o [k \in 1 .. (12 - Len(opt)) % 4 |-> 0] \o Following
OptionLists == {Filled(a \o b \o c) : a, b, c \in AnyOption}

Inputs ==
    [kind : {"sum"}, data : SeqOf(Bytes, 4), prev : {0, 1, 65535}]
        \union [kind : {"ttl"}, ttl : {0, 1, 2, 64, 255}, proto : {1, 17}, first : Words, second : Words, later : {0, 11}]
        \union [kind : {"mss"}, opt : OptionLists, mtu : {600, 1400, 1518}, start : {34, 54}, rest : Words]
        \union [kind : {"frag"}, todo : Lengths, mtu : Mtus, hl : {5, 6}, padding : {0, 6}, off : {0, 3}, more : BOOLEAN]

PacketEditInit == input = [kind |-> "none"]
PacketEditNext == input.kind = "none" /\ input' \in Inputs

\* A header with the first two words, TTL and protocol given, and the checksum that fits
HeaderOf(i) ==
    LET bare == <<i.first, 0, i.second, 0, 256 * i.ttl + i.proto, 0>>
    IN  [bare EXCEPT ![6] = 65535 - HeaderSum(bare)]

\* The TCP checksum over the rest of the segment and the options, in network order
TcpSum(rest, opt) ==
    LET swap(w) == 256 * (w % 256) + (w \div 256)
    IN  swap(65535 - Carried(swap(rest) + WordSum(opt)))

EvenMss(opt) == LET i == FindMss(opt, Options(opt), 0) IN i % 2 = 0
-----------------------------------------------------------------------------
\* The inputs are what the functions expect, and results fit in their fields.
PacketEditTypeOK ==
    /\ input.kind = "sum" => inet_checksum(input.data, input.prev) \in 0 .. 65535
    /\ input.kind = "ttl" => \A k \in 1 .. 6 : do_decrement_ttl(HeaderOf(input), input.later).header[k] \in 0 .. 65535

\* RFC 1071: with its checksum appended, data of even length sums up to zero, and the checksum of
\* data in two parts (route_ipv6_unreachable: pseudo header, header, contents) is that of the whole.
ChecksumSound ==
    input.kind = "sum" =>
        LET d == input.data
            c == inet_checksum(d, 65535)
        IN  /\ Len(d) % 2 = 0 => inet_checksum(d \o <<c % 256, c \div 256>>, 65535) = 0
            /\ \A k \in 0 .. Len(d) : k % 2 = 0 =>
                  inet_checksum(d, input.prev)
                      = inet_checksum(SubSeq(d, k + 1, Len(d)), inet_checksum(SubSeq(d, 1, k), input.prev))

\* RFC 1624: a packet that goes on has one hop less to go and still has a valid header.
TtlKeepsChecksum ==
    input.kind = "ttl" =>
        LET r == do_decrement_ttl(HeaderOf(input), input.later)
        IN  r.pass => Ttl(r.header) = input.ttl - 1 /\ Valid(r.header)

\* clamp_mss leaves the option it finds no larger than it was or than the path carries, changes
\* nothing else, and leaves a valid checksum when the option is at an even place.
MssSound ==
    input.kind = "mss" =>
        LET o == input.opt
            r == clamp_mss(o, TcpSum(input.rest, o), input.mtu, input.start)
            i == FindMss(o, Options(o), 0)
        IN  /\ i >= 0 => Mss(r.opt, i) <= Mss(o, i) /\ Mss(r.opt, i) <= input.mtu - input.start - 20
            /\ \A k \in 1 .. Len(o) : r.opt[k] # o[k] => i >= 0 /\ k \in {i + 3, i + 4}
            /\ EvenMss(o) => Carried(r.csum + (65535 - TcpSum(input.rest, r.opt))) = 65535

\* RFC 791: the fragments follow each other without gap or overlap, fill whole units of eight bytes
\* but for the last, all fit the MTU, and only the last of a whole packet has none behind it.  A
\* packet with options, or that is not as long as it says, is not sent in part either.
FragmentsExact ==
    input.kind = "frag" =>
        LET ip == [hl |-> input.hl, len |-> ip_size + input.todo, off |-> input.off, more |-> input.more]
            f == fragment_ipv4_packet(ip, ether_size + ip.len + input.padding, input.mtu)
        IN  IF input.hl # 5 \/ input.padding # 0 THEN f = <<>>
            ELSE /\ FoldSeq(LAMBDA g, sum : sum + g.len, 0, f) = input.todo
                 /\ f[1].off = input.off
                 /\ \A k \in 1 .. Len(f) :
                       /\ f[k].len + ether_size + ip_size <= Max({input.mtu, 590})
                       /\ f[k].more = (k < Len(f) \/ input.more)
                       /\ k < Len(f) => f[k].len = 8 * (f[k + 1].off - f[k].off)

\* Packets that route.c changed are as valid as they were: checksums, hop counts, segment sizes and
\* fragments are what the RFCs say.
PacketEditSound ==
    /\ PacketEditTypeOK
    /\ ChecksumSound /\ TtlKeepsChecksum
    /\ MssSound /\ FragmentsExact
============================================================================
