------------------------- MODULE ReplayWindowProofs -------------------------
(***************************************************************************)
(* Type correctness, replay protection and no-needless-loss of the SPTPS   *)
(* replay window, for every window size, far-future limit and modulus, as  *)
(* long as the sequence number does not come within a window of its wrap.  *)
(*                                                                         *)
(* The argument: below the expected number, within one window, the bitmap  *)
(* says exactly which datagrams are still missing (WindowExact).  It stays *)
(* exact because two numbers less than a window apart never share a slot.  *)
(***************************************************************************)
EXTENDS ReplayWindow, TLAPS

\* The hypothesis of the theorems: no wrap of inseqno + replaywin * 8.
NoWrap == MaxSent + WindowBits < SeqModulus

\* Sequence numbers only ever trail the sender's counter.
Bounds ==
    /\ FirstSeq <= inseqno
    /\ inseqno <= outseqno
    /\ outseqno <= MaxSent

\* At or past the expected number nothing has been delivered.
NothingAhead == \A n \in Datagrams : n >= inseqno => delivered[n] = 0

\* Within the window a slot is late exactly when its datagram is missing.
WindowExact ==
    \A n \in FirstSeq .. inseqno - 1 :
        n >= inseqno - WindowBits => (late[Slot(n)] <=> delivered[n] = 0)

IInv ==
    /\ TypeOK
    /\ Bounds
    /\ NoDoubleDelivery
    /\ NothingAhead
    /\ WindowExact

-----------------------------------------------------------------------------
\* Division with remainder, for a positive divisor.
LEMMA DivMod ==
    ASSUME NEW w \in Nat \ {0}, NEW a \in Nat
    PROVE  /\ a % w \in 0 .. w - 1
           /\ a \div w \in Nat
           /\ a = w * (a \div w) + (a % w)
  OBVIOUS

\* A number below the modulus is its own remainder.
LEMMA SmallMod ==
    ASSUME NEW w \in Nat \ {0}, NEW a \in Nat, a < w
    PROVE  a % w = a
  OBVIOUS

\* A multiple of w, other than zero, is at least w.
LEMMA AtLeastOnce ==
    ASSUME NEW w \in Nat \ {0}, NEW d \in Nat \ {0}
    PROVE  w * d >= w
  OBVIOUS

\* Two numbers less than w apart have different remainders: within one
\* window no two datagrams share a slot of the bitmap.
LEMMA DistinctRemainders ==
    ASSUME NEW w \in Nat \ {0}, NEW a \in Nat, NEW b \in Nat,
           a < b, b - a < w
    PROVE  a % w # b % w
<1> SUFFICES ASSUME a % w = b % w PROVE FALSE
  OBVIOUS
<1>1. PICK p \in Nat, q \in Nat : a = w * p + (a % w) /\ b = w * q + (a % w)
  BY DivMod
<1>2. a % w \in Nat
  BY DivMod
<1>3. b - a = w * (q - p)
  <2>1. b - a = w * q - w * p
    BY <1>1, <1>2
  <2>2. w * q - w * p = w * (q - p)
    OBVIOUS
  <2> QED
    BY <2>1, <2>2
<1>4. CASE q <= p
  <2>1. w * (q - p) <= 0
    BY <1>4
  <2> QED
    BY <1>3, <2>1
<1>5. CASE q > p
  <2>1. w * (q - p) >= w
    BY <1>5, AtLeastOnce
  <2> QED
    BY <1>3, <2>1
<1> QED
  BY <1>4, <1>5

\* The bit that sptps_check_seqno addresses for a number lies in the bitmap.
LEMMA SlotType == ASSUME NEW n \in Nat PROVE Slot(n) \in 0 .. WindowBits - 1
  BY WindowAssumption, DivMod DEF Slot

\* Numbers less than a window apart have different bits in the bitmap.
LEMMA SlotInjective ==
    ASSUME NEW a \in Nat, NEW b \in Nat, a # b,
           a - b < WindowBits, b - a < WindowBits
    PROVE  Slot(a) # Slot(b)
<1>1. CASE a < b
  BY <1>1, WindowAssumption, DistinctRemainders DEF Slot
<1>2. CASE b < a
  BY <1>2, WindowAssumption, DistinctRemainders DEF Slot
<1> QED
  BY <1>1, <1>2

-----------------------------------------------------------------------------
\* Without a wrap the wire number is the index and the threshold is the sum.
LEMMA NoWrapFacts ==
    ASSUME NoWrap, TypeOK, Bounds
    PROVE  /\ FarThreshold = inseqno + WindowBits
           /\ \A n \in InFlight : /\ n \in Nat
                                  /\ FirstSeq <= n
                                  /\ n < outseqno
                                  /\ Wire(n) = n
                                  /\ (n + 1) % SeqModulus = n + 1
<1>1. SeqModulus \in Nat \ {0}
  BY WindowAssumption
<1>2. inseqno + WindowBits \in Nat /\ inseqno + WindowBits < SeqModulus
  BY WindowAssumption DEF NoWrap, TypeOK, Bounds
<1>3. FarThreshold = inseqno + WindowBits
  BY <1>1, <1>2, SmallMod DEF FarThreshold
<1>4. ASSUME NEW n \in InFlight
      PROVE  /\ n \in Nat
             /\ FirstSeq <= n
             /\ n < outseqno
             /\ Wire(n) = n
             /\ (n + 1) % SeqModulus = n + 1
  <2>1. n \in Nat /\ FirstSeq <= n /\ n < outseqno
    BY WindowAssumption DEF InFlight, Datagrams
  <2>2. n + 1 \in Nat /\ n < SeqModulus /\ n + 1 < SeqModulus
    BY <2>1, WindowAssumption DEF NoWrap, TypeOK, Bounds
  <2>3. n % SeqModulus = n
    BY <1>1, <2>1, <2>2, SmallMod
  <2>4. (n + 1) % SeqModulus = n + 1
    BY <1>1, <2>2, SmallMod
  <2> QED
    BY <2>1, <2>3, <2>4 DEF Wire
<1> QED
  BY <1>3, <1>4

\* The invariant holds when sptps_start has cleared the window.
LEMMA InitIInv == ASSUME NoWrap, Init PROVE IInv
<1> USE WindowAssumption DEF NoWrap, Init, FirstSeq
<1>1. TypeOK
  <2>1. late \in [0 .. WindowBits - 1 -> BOOLEAN] /\ confirmed \in BOOLEAN
    BY Zenon
  <2>2. /\ outseqno \in Nat /\ inseqno \in 0 .. SeqModulus - 1
        /\ farfuture \in 0 .. FarLimit
    OBVIOUS
  <2>3. delivered \in [Datagrams -> Nat]
    OBVIOUS
  <2> QED
    BY <2>1, <2>2, <2>3, Zenon DEF TypeOK
<1>2. Bounds
  BY DEF Bounds
<1>3. NoDoubleDelivery /\ NothingAhead
  BY DEF NoDoubleDelivery, NothingAhead
<1>4. WindowExact
  BY DEF WindowExact
<1> QED
  BY <1>1, <1>2, <1>3, <1>4 DEF IInv

\* The case of the inductive step that matters: a datagram is accepted.
LEMMA DeliverIInv ==
    ASSUME NoWrap, IInv, NEW n \in InFlight, Deliver(n)
    PROVE  IInv'
<1> USE WindowAssumption
<1>1. /\ FarThreshold = inseqno + WindowBits
      /\ n \in Nat /\ FirstSeq <= n /\ n < outseqno
      /\ Wire(n) = n /\ (n + 1) % SeqModulus = n + 1
  BY NoWrapFacts DEF IInv
<1>2. /\ Accepts(n)
      /\ late' = [MarkLate(n) EXCEPT ![Slot(n)] = FALSE]
      /\ farfuture' = 0
      /\ inseqno' = IF n >= inseqno THEN n + 1 ELSE inseqno
      /\ delivered' = [delivered EXCEPT ![n] = @ + 1]
      /\ outseqno' = outseqno /\ confirmed' = confirmed
  BY <1>1 DEF Deliver, Update
<1>3. /\ outseqno \in Nat /\ inseqno \in Nat
      /\ late \in [0 .. WindowBits - 1 -> BOOLEAN]
      /\ delivered \in [Datagrams -> Nat]
      /\ n \in Datagrams
      /\ FirstSeq \in Nat
  BY DEF IInv, TypeOK, InFlight, FirstSeq
<1>4. MarkLate(n) \in [0 .. WindowBits - 1 -> BOOLEAN]
  BY <1>3, Zenon DEF MarkLate, IsFar, IsAhead
<1>5. Slot(n) \in 0 .. WindowBits - 1
  BY <1>1, SlotType
<1>6. TypeOK'
  <2>1. late' \in [0 .. WindowBits - 1 -> BOOLEAN]
    BY <1>2, <1>4, <1>5
  <2>2. delivered' \in [Datagrams -> Nat]
    BY <1>2, <1>3
  <2>3. inseqno' \in 0 .. SeqModulus - 1
    BY <1>1, <1>2, <1>3 DEF IInv, TypeOK, Bounds, NoWrap
  <2> QED
    BY <1>2, <2>1, <2>2, <2>3 DEF IInv, TypeOK
<1>7. Bounds'
  BY <1>1, <1>2, <1>3 DEF IInv, Bounds
\* An accepted datagram has not been delivered before.
<1>8. delivered[n] = 0
  <2>1. CASE n >= inseqno
    BY <1>3, <2>1 DEF IInv, NothingAhead
  <2>2. CASE n < inseqno
    <3>1. OldAccepted(n)
      BY <1>1, <1>2, <1>3, <2>2 DEF Accepts, IsFar, IsAhead
    <3>2. n >= inseqno - WindowBits /\ late[Slot(n)]
      BY <1>1, <1>3, <2>2, <3>1 DEF OldAccepted
    <3> QED
      BY <1>1, <1>3, <2>2, <3>2 DEF IInv, WindowExact
  <2> QED
    BY <1>1, <1>3, <2>1, <2>2
<1>9. NoDoubleDelivery'
  BY <1>2, <1>3, <1>8 DEF IInv, NoDoubleDelivery
<1>10. NothingAhead'
  BY <1>1, <1>2, <1>3 DEF IInv, NothingAhead, Datagrams
<1>11. WindowExact'
  <2> SUFFICES ASSUME NEW m \in FirstSeq .. inseqno' - 1,
                      m >= inseqno' - WindowBits
               PROVE  late'[Slot(m)] <=> delivered'[m] = 0
    BY DEF WindowExact, Slot
  <2>1. m \in Nat /\ m \in Datagrams
    BY <1>1, <1>2, <1>3 DEF IInv, Bounds, Datagrams, FirstSeq
  <2>2. Slot(m) \in 0 .. WindowBits - 1
    BY <2>1, SlotType
  <2>3. CASE m = n
    <3>1. ~ late'[Slot(m)]
      BY <1>2, <1>4, <1>5, <2>3
    <3>2. delivered'[m] = 1
      BY <1>2, <1>3, <1>8, <2>3
    <3> QED
      BY <3>1, <3>2
  <2>4. CASE m # n
    <3>1. delivered'[m] = delivered[m]
      BY <1>2, <1>3, <2>1, <2>4
    <3>2. inseqno - WindowBits <= n
      BY <1>1, <1>2, <1>3 DEF Accepts, IsFar, IsAhead, OldAccepted
    <3>3. Slot(m) # Slot(n)
      BY <1>1, <1>2, <1>3, <2>1, <2>4, <3>2, SlotInjective
    <3>4. late'[Slot(m)] = MarkLate(n)[Slot(m)]
      BY <1>2, <1>4, <1>5, <2>2, <3>3
    <3>5. MarkLate(n)[Slot(m)]
            = (late[Slot(m)] \/ IsFar(n) \/ (IsAhead(n) /\ Slot(m) \in Skipped(n)))
      BY <2>2 DEF MarkLate
    <3>6. CASE m < inseqno
      <4>1. late[Slot(m)] <=> delivered[m] = 0
        BY <1>1, <1>2, <1>3, <2>1, <3>6 DEF IInv, WindowExact
      <4>2. ~ IsFar(n)
        BY <1>1, <1>2, <1>3, <2>1, <3>6 DEF IsFar
      <4>3. IsAhead(n) => Slot(m) \notin Skipped(n)
        <5> SUFFICES ASSUME IsAhead(n), NEW i \in inseqno .. n - 1
                     PROVE  Slot(m) # Slot(i)
          BY DEF Skipped
        <5> QED
          BY <1>1, <1>2, <1>3, <2>1, <3>6, SlotInjective DEF IsAhead
      <4> QED
        BY <3>1, <3>4, <3>5, <4>1, <4>2, <4>3
    <3>7. CASE m >= inseqno
      <4>1. delivered[m] = 0
        BY <2>1, <3>7 DEF IInv, NothingAhead
      <4>2. m < n /\ n > inseqno
        BY <1>1, <1>2, <1>3, <2>1, <2>4, <3>7
      <4>3. IsFar(n) \/ IsAhead(n)
        BY <1>1, <1>3, <4>2 DEF IsFar, IsAhead
      <4>4. Slot(m) \in Skipped(n)
        <5>1. m \in inseqno .. n - 1
          BY <1>1, <1>3, <2>1, <3>7, <4>2
        <5> QED
          BY <5>1 DEF Skipped
      <4> QED
        BY <3>1, <3>4, <3>5, <4>1, <4>3, <4>4
    <3> QED
      BY <1>3, <2>1, <3>6, <3>7
  <2> QED
    BY <2>3, <2>4
<1> QED
  BY <1>6, <1>7, <1>9, <1>10, <1>11 DEF IInv

\* The other steps leave the window alone.
LEMMA NextIInv == ASSUME NoWrap, IInv, [Next]_vars PROVE IInv'
<1> USE WindowAssumption
    DEF IInv, TypeOK, Bounds, NoDoubleDelivery, NothingAhead, WindowExact
<1>1. CASE Send
  BY <1>1 DEF Send
<1>2. CASE ChangeConfirmed
  BY <1>2 DEF ChangeConfirmed
<1>3. ASSUME NEW n \in InFlight, Deliver(n) PROVE IInv'
  BY <1>3, DeliverIInv
<1>4. ASSUME NEW n \in InFlight, DropFar(n) PROVE IInv'
  BY <1>4 DEF DropFar
<1>5. ASSUME NEW n \in InFlight, DropQuietly(n) PROVE IInv'
  BY <1>5 DEF DropQuietly, vars
<1>6. CASE UNCHANGED vars
  BY <1>6 DEF vars
<1> QED
  BY <1>1, <1>2, <1>3, <1>4, <1>5, <1>6 DEF Next

\* The strengthening is inductive.
THEOREM WindowInvariant == ASSUME NoWrap PROVE Spec => []IInv
<1>1. Init => IInv
  BY InitIInv
<1>2. IInv /\ [Next]_vars => IInv'
  BY NextIInv
<1> QED
  BY <1>1, <1>2, PTL DEF Spec

\* Every variable keeps its range, whatever arrives.
THEOREM TypeCorrect == ASSUME NoWrap PROVE Spec => []TypeOK
<1>1. IInv => TypeOK
  BY DEF IInv
<1> QED
  BY <1>1, WindowInvariant, PTL

\* sptps_check_seqno never lets one datagram through twice.
THEOREM ReplayProtection == ASSUME NoWrap PROVE Spec => []NoDoubleDelivery
<1>1. IInv => NoDoubleDelivery
  BY DEF IInv
<1> QED
  BY <1>1, WindowInvariant, PTL

\* sptps_check_seqno accepts every missing datagram within a window of the
\* expected number.
THEOREM NoNeedlessLoss == ASSUME NoWrap PROVE Spec => []FreshAccepted
<1>1. IInv => FreshAccepted
  <2> SUFFICES ASSUME IInv, NEW n \in InFlight, delivered[n] = 0,
                      inseqno - WindowBits <= n, n < inseqno + WindowBits
               PROVE  Accepts(Wire(n))
    BY DEF FreshAccepted
  <2>1. /\ FarThreshold = inseqno + WindowBits
        /\ n \in Nat /\ FirstSeq <= n /\ Wire(n) = n
        /\ inseqno \in Nat /\ WindowBits \in Nat
    BY NoWrapFacts, WindowAssumption DEF IInv, TypeOK
  <2>2. CASE n < inseqno
    <3>1. late[Slot(n)]
      BY <2>1, <2>2 DEF IInv, WindowExact, FirstSeq
    <3> QED
      BY <2>1, <2>2, <3>1 DEF Accepts, IsOld, OldAccepted
  <2>3. CASE n >= inseqno
    BY <2>1, <2>3 DEF Accepts, IsAhead
  <2> QED
    BY <2>1, <2>2, <2>3
<1> QED
  BY <1>1, WindowInvariant, PTL
=============================================================================
