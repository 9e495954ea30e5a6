---------------------------- MODULE ReplayWindow ----------------------------
(***************************************************************************)
(* The datagram side of SPTPS after the first handshake: the sender's      *)
(* 32-bit sequence counter, a network that loses, repeats and reorders     *)
(* datagrams, and the receiver's sliding window (sptps_check_seqno).       *)
(*                                                                         *)
(* A datagram is named by its index n, the number of records its sender    *)
(* had sent before it; on the wire it carries n % SeqModulus.  Every datagram  *)
(* here is authentic: the check runs after decryption has succeeded.       *)
(***************************************************************************)
EXTENDS Integers

CONSTANTS
    WindowBits,   \* replaywin * 8, the number of bits in late[]
    FarLimit,     \* replaywin >> 2, far-future datagrams dropped in a row
    SeqModulus,       \* 2^32, the modulus of uint32_t
    MaxSent       \* bound: datagrams sent in one behaviour

\* A replaywin of 0 switches the check off altogether and is not modelled.
ASSUME WindowAssumption ==
    /\ WindowBits \in Nat \ {0}
    /\ FarLimit \in Nat
    /\ SeqModulus \in Nat
    /\ SeqModulus > WindowBits
    /\ MaxSent \in Nat
    /\ MaxSent >= 2

VARIABLES
    outseqno,    \* sender: index of the next datagram
    inseqno,     \* receiver: expected sequence number
    late,        \* receiver: circular bitmap, TRUE = not received yet
    farfuture,   \* receiver: far-future datagrams seen in a row
    confirmed,   \* receiver: the sender's UDP address is confirmed
    delivered    \* history: how often datagram n reached receive_record

vars == <<outseqno, inseqno, late, farfuture, confirmed, delivered>>

\* The first handshake used number 0 for KEX and 1 for SIG on both sides.
FirstSeq == 2

Datagrams == 0 .. MaxSent - 1

Wire(n) == n % SeqModulus

Slot(q) == q % WindowBits

Init ==
    /\ outseqno = FirstSeq
    /\ inseqno = FirstSeq
    /\ late = [i \in 0 .. WindowBits - 1 |-> FALSE]
    /\ farfuture = 0
    /\ confirmed = FALSE
    /\ delivered = [n \in Datagrams |-> 0]

-----------------------------------------------------------------------------
(* sptps_check_seqno: the four cases of a received number q, and the       *)
(* verdict, which is the same whether or not update_state is set.          *)

\* The sum is a uint32_t and wraps.
FarThreshold == (inseqno + WindowBits) % SeqModulus

IsFar(q) == q # inseqno /\ q >= FarThreshold

IsOld(q) == q < FarThreshold /\ q < inseqno

IsAhead(q) == q < FarThreshold /\ q > inseqno

OldAccepted_NoBitmap(q) ==
    ~ (inseqno >= WindowBits /\ q < inseqno - WindowBits)

OldAccepted(q) ==
    /\ ~ (inseqno >= WindowBits /\ q < inseqno - WindowBits)
    /\ late[Slot(q)]

Accepts(q) ==
    \/ q = inseqno
    \/ IsFar(q) /\ farfuture >= FarLimit
    \/ IsOld(q) /\ OldAccepted(q)
    \/ IsAhead(q)

Skipped_Short(q) == {Slot(i) : i \in inseqno .. q - 2}

\* The slots of the numbers that q jumps over.
Skipped(q) == {Slot(i) : i \in inseqno .. q - 1}

\* A far jump marks the whole bitmap as late, a short one what it skipped.
MarkLate(q) ==
    [i \in 0 .. WindowBits - 1 |->
        late[i] \/ IsFar(q) \/ (IsAhead(q) /\ i \in Skipped(q))]

\* update_state: mark q as received and move the expected number past it.
Update(q) ==
    /\ late' = [MarkLate(q) EXCEPT ![Slot(q)] = FALSE]
    /\ farfuture' = 0
    /\ inseqno' = IF q >= inseqno THEN (q + 1) % SeqModulus ELSE inseqno

-----------------------------------------------------------------------------
\* sptps_send_record on a datagram session takes the next number.
Send ==
    /\ outseqno < MaxSent
    /\ outseqno' = outseqno + 1
    /\ UNCHANGED <<inseqno, late, farfuture, confirmed, delivered>>

\* A probe reply confirms the sender's address, a probe timeout or a new
\* address takes the confirmation away.
ChangeConfirmed ==
    /\ confirmed' = ~ confirmed
    /\ UNCHANGED <<outseqno, inseqno, late, farfuture, delivered>>

\* Any datagram sent so far may arrive, again or out of turn.
InFlight == {n \in Datagrams : FirstSeq <= n /\ n < outseqno}

\* Accepted: the record reaches receive_record.  From an unconfirmed address
\* sptps_verify_datagram has asked the same question first.
Deliver(n) ==
    /\ Accepts(Wire(n))
    /\ Update(Wire(n))
    /\ delivered' = [delivered EXCEPT ![n] = @ + 1]
    /\ UNCHANGED <<outseqno, confirmed>>

\* Far ahead of the window: dropped, but counted.
DropFar(n) ==
    /\ confirmed
    /\ IsFar(Wire(n))
    /\ farfuture < FarLimit
    /\ farfuture' = farfuture + 1
    /\ UNCHANGED <<outseqno, inseqno, late, confirmed, delivered>>

\* Late or replayed, or refused by sptps_verify_datagram, which counts
\* nothing: dropped without a trace in the window.
DropQuietly(n) ==
    /\ ~ Accepts(Wire(n))
    /\ confirmed => IsOld(Wire(n))
    /\ UNCHANGED vars

Next ==
    \/ Send
    \/ ChangeConfirmed
    \/ \E n \in InFlight : Deliver(n) \/ DropFar(n) \/ DropQuietly(n)

Spec == Init /\ [][Next]_vars

-----------------------------------------------------------------------------
\* Every variable stays in its range; in particular the far-future counter
\* never passes the limit at which sptps_check_seqno gives in.
TypeOK ==
    /\ outseqno \in Nat
    /\ inseqno \in 0 .. SeqModulus - 1
    /\ late \in [0 .. WindowBits - 1 -> BOOLEAN]
    /\ farfuture \in 0 .. FarLimit
    /\ confirmed \in BOOLEAN
    /\ delivered \in [Datagrams -> Nat]

\* Replay protection: sptps_check_seqno lets no datagram reach
\* receive_record twice, whatever the network repeats or reorders.
NoDoubleDelivery == \A n \in Datagrams : delivered[n] <= 1

\* No needless loss: a datagram that has not been delivered and is less than
\* a window behind or ahead of the expected number is accepted, even after
\* far jumps have rewritten the bitmap.
FreshAccepted ==
    \A n \in InFlight :
        /\ delivered[n] = 0
        /\ inseqno - WindowBits <= n
        /\ n < inseqno + WindowBits
        => Accepts(Wire(n))

=============================================================================
