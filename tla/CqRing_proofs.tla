---------------------------- MODULE CqRing_proofs ----------------------------
(***************************************************************************)
(* The ring for every size and every batch: no slot is used again before   *)
(* its descriptor is retired, the firmware executes the descriptors in      *)
(* order, and the ring implements CqContract.                              *)
(*                                                                         *)
(* The argument.  Each side computes with residues; the invariant relates   *)
(* them to counts that never wrap: seen <= hd <= pub <= put < seen + Size.  *)
(* Two of these counts differ by less than Size, so that the residue of     *)
(* their difference is their difference (ModDiff) and two of them that lie  *)
(* in the same slot are equal (SameSlot).                                  *)
(***************************************************************************)
EXTENDS CqRing, TLAPS

USE RingAssumption DEF RingAssumption

-----------------------------------------------------------------------------
(* Residues. *)

\* A count is its quotient times the size plus its residue.
LEMMA Residue ==
    ASSUME NEW x \in Int
    PROVE  /\ x % Size \in 0 .. Size - 1
           /\ x \div Size \in Int
           /\ x = Size * (x \div Size) + (x % Size)
OBVIOUS

LEMMA ResidueIn ==
    ASSUME NEW x \in Int
    PROVE  x % Size \in 0 .. Size - 1 /\ x % Size \in Int
OBVIOUS

\* Multiples of Size that are less than Size apart are equal.
LEMMA Apart ==
    ASSUME NEW a \in Int, NEW b \in Int,
           Size * a - Size * b < Size, Size * b - Size * a < Size
    PROVE  a = b
<1>1. CASE a >= b + 1
  <2>1. Size * a >= Size * (b + 1)
    BY <1>1
  <2> QED BY <2>1
<1>2. CASE b >= a + 1
  <2>1. Size * b >= Size * (a + 1)
    BY <1>2
  <2> QED BY <2>1
<1> QED BY <1>1, <1>2

\* A residue is determined by any decomposition.
LEMMA ResidueOf ==
    ASSUME NEW x \in Int, NEW q \in Int, NEW r \in 0 .. Size - 1, x = Size * q + r
    PROVE  x % Size = r
<1> DEFINE p == x \div Size
           s == x % Size
<1>1. p \in Int /\ s \in 0 .. Size - 1 /\ x = Size * p + s
  BY Residue
<1>2. Size * p - Size * q = r - s /\ Size * q - Size * p = s - r
  <2> HIDE DEF p, s
  <2>1. Size * p \in Int /\ Size * q \in Int
    BY <1>1
  <2> QED BY <1>1, <2>1
<1>3. Size * p - Size * q < Size /\ Size * q - Size * p < Size
  <2> HIDE DEF p, s
  <2> QED BY <1>1, <1>2
<1>4. p = q
  <2> HIDE DEF p, s
  <2> QED BY <1>1, <1>3, Apart
<1> QED
  <2> HIDE DEF p, s
  <2>1. s = r
    BY <1>1, <1>4
  <2> QED BY <2>1 DEF s

\* The residue of the difference of a residue and a count at most a lap behind
\* it is the difference of the counts.
LEMMA ModDiff ==
    ASSUME NEW a \in Int, NEW b \in Int, b <= a, a - b < Size
    PROVE  /\ ((a % Size) - b) % Size = a - b
           /\ ((a % Size) - (b % Size)) % Size = a - b
<1> DEFINE p == a \div Size
           q == b \div Size
<1>1. p \in Int /\ q \in Int /\ a = Size * p + (a % Size) /\ b = Size * q + (b % Size)
      /\ a % Size \in Int /\ b % Size \in Int
  BY Residue
<1> HIDE DEF p, q
<1>2. (a % Size) - b = Size * (-p) + (a - b)
  BY <1>1
<1>3. (a % Size) - (b % Size) = Size * (q - p) + (a - b)
  BY <1>1
<1>4. a - b \in 0 .. Size - 1
  OBVIOUS
<1>5. ((a % Size) - b) % Size = a - b
  BY <1>1, <1>2, <1>4, ResidueOf
<1>6. ((a % Size) - (b % Size)) % Size = a - b
  <2>1. (a % Size) - (b % Size) \in Int /\ q - p \in Int
    BY <1>1
  <2> QED BY <2>1, <1>3, <1>4, ResidueOf
<1> QED BY <1>5, <1>6

\* Two counts less than a lap apart that lie in the same slot are equal.
LEMMA SameSlot ==
    ASSUME NEW a \in Int, NEW b \in Int, b <= a, a - b < Size, a % Size = b % Size
    PROVE  a = b
<1>1. ((a % Size) - (b % Size)) % Size = a - b
  BY ModDiff
<1>2. (a % Size) - (b % Size) = 0
  BY Residue
<1>3. 0 % Size = 0
  BY ResidueOf
<1> QED BY <1>1, <1>2, <1>3

\* The slot of a count a few places on, short of the end of the ring.
LEMMA SlotAfter ==
    ASSUME NEW a \in Int, NEW i \in Nat, (a % Size) + i < Size
    PROVE  (a + i) % Size = (a % Size) + i
<1> DEFINE p == a \div Size
           r == a % Size
<1>1. p \in Int /\ a = Size * p + r /\ r \in 0 .. Size - 1 /\ r + i < Size
  BY Residue
<1> HIDE DEF p, r
<1>2. a + i \in Int /\ r + i \in 0 .. Size - 1 /\ a + i = Size * p + (r + i)
  BY <1>1
<1>3. (a + i) % Size = r + i
  BY <1>1, <1>2, ResidueOf
<1> QED BY <1>3 DEF r

\* The slot of the next count is the next slot, around the ring.
LEMMA NextSlot ==
    ASSUME NEW a \in Int
    PROVE  ((a % Size) + 1) % Size = (a + 1) % Size
<1> DEFINE p == a \div Size
           r == a % Size
           q == (r + 1) \div Size
           t == (r + 1) % Size
<1>1. p \in Int /\ a = Size * p + r /\ r \in Int
  BY Residue
<1>2. q \in Int /\ t \in 0 .. Size - 1 /\ r + 1 = Size * q + t
  <2>1. r + 1 \in Int
    BY <1>1
  <2> HIDE DEF r
  <2> QED BY <2>1, Residue
<1> HIDE DEF p, q, r, t
<1>3. a + 1 \in Int /\ p + q \in Int /\ a + 1 = Size * (p + q) + t
  BY <1>1, <1>2
<1>4. (a + 1) % Size = t
  BY <1>2, <1>3, ResidueOf
<1> QED BY <1>4 DEF t, r

-----------------------------------------------------------------------------
(* The inductive invariant. *)

RingType ==
    /\ slots \in [0 .. Size - 1 -> Int] /\ scratch \in [0 .. BatchN - 1 -> Int]
    /\ tail \in Int /\ head \in Int
    /\ put \in Nat /\ pub \in Nat /\ seen \in Nat /\ hd \in Nat
    /\ n \in 0 .. BatchN /\ got \in 0 .. n /\ bi \in 0 .. n /\ exd \in BOOLEAN
    /\ ran \in Nat /\ last \in Int

\* The residues the two sides work with, and the counts behind them.
Counts ==
    /\ head = hd % Size /\ tail = pub % Size
    /\ seen <= hd /\ hd <= pub /\ pub <= put /\ put < seen + Size

\* The batch is the next published descriptors; it is copied before any of it
\* is executed and does not cross the end of the ring while it is copied.
Batch ==
    /\ got < n => bi = 0 /\ head + n <= Size
    /\ hd + (n - bi) <= pub
    /\ \A i \in bi .. got - 1 : scratch[i] = hd + (i - bi)
    /\ exd => bi < n /\ got = n

Progress ==
    /\ hd <= ran /\ ran <= hd + 1 /\ ran <= pub /\ last = ran - 1
    /\ exd => ran = hd + 1

IInv == RingType /\ Counts /\ Intact /\ Batch /\ Progress

LEMMA NoBatchType == NoBatch \in [0 .. BatchN - 1 -> Int]
BY DEF NoBatch

LEMMA RingInitInv == RingInit => IInv
<1> SUFFICES ASSUME RingInit PROVE IInv
  OBVIOUS
<1>1. 0 % Size = 0
  BY ResidueOf
<1>2. RingType
  <2>1. slots \in [0 .. Size - 1 -> Int] /\ scratch \in [0 .. BatchN - 1 -> Int]
    BY NoBatchType DEF RingInit
  <2>2. n = 0 /\ got = 0 /\ bi = 0 /\ 0 \in 0 .. BatchN /\ 0 \in 0 .. 0
    BY DEF RingInit
  <2>3. exd \in BOOLEAN
    BY DEF RingInit
  <2> QED BY <2>1, <2>2, <2>3 DEF RingInit, RingType
<1>3. Counts
  BY <1>1 DEF RingInit, Counts
<1>4. Intact /\ Batch /\ Progress
  BY DEF RingInit, Intact, Batch, Progress
<1> QED BY <1>2, <1>3, <1>4 DEF IInv

-----------------------------------------------------------------------------
(* What each side guarantees to the other in a step of its own: what it     *)
(* writes, in terms of the variables of the other before the step.          *)

HostGuarantee ==
    /\ slots' \in [0 .. Size - 1 -> Int] /\ tail' \in Int
    /\ put' \in Nat /\ pub' \in Nat /\ seen' \in Nat
    /\ tail' = pub' % Size
    /\ seen' <= hd /\ pub <= pub' /\ pub' <= put' /\ put' < seen' + Size
    /\ \A k \in hd .. put' - 1 : slots'[k % Size] = k

FwType ==
    /\ scratch' \in [0 .. BatchN - 1 -> Int] /\ head' \in Int /\ hd' \in Nat
    /\ n' \in 0 .. BatchN /\ got' \in 0 .. n' /\ bi' \in 0 .. n' /\ exd' \in BOOLEAN
    /\ ran' \in Nat /\ last' \in Int

FwPlace == head' = hd' % Size /\ hd <= hd'

FwBatch ==
    /\ got' < n' => bi' = 0 /\ head' + n' <= Size
    /\ hd' + (n' - bi') <= pub
    /\ \A i \in bi' .. got' - 1 : scratch'[i] = hd' + (i - bi')
    /\ exd' => bi' < n' /\ got' = n'

FwProgress ==
    /\ hd' <= ran' /\ ran' <= hd' + 1 /\ ran' <= pub /\ last' = ran' - 1
    /\ exd' => ran' = hd' + 1

FwGuarantee == FwType /\ FwPlace /\ FwBatch /\ FwProgress

LEMMA HostMove ==
    ASSUME IInv, HostStep \/ UNCHANGED hostVars
    PROVE  HostGuarantee
<1>1. /\ slots \in [0 .. Size - 1 -> Int] /\ tail \in Int
      /\ put \in Nat /\ pub \in Nat /\ seen \in Nat /\ hd \in Nat
  BY DEF IInv, RingType
<1>2. /\ head = hd % Size /\ tail = pub % Size
      /\ seen <= hd /\ hd <= pub /\ pub <= put /\ put < seen + Size
  BY DEF IInv, Counts
<1>3. \A k \in hd .. put - 1 : slots[k % Size] = k
  BY DEF IInv, Intact
<1>4. CASE Put
  <2>1. put % Size \in 0 .. Size - 1
    <3>1. put \in Int
      BY <1>1
    <3> QED BY <3>1, ResidueIn
  <2>2. /\ slots' = [slots EXCEPT ![put % Size] = put] /\ put' = put + 1
        /\ tail' = tail /\ pub' = pub /\ seen' = seen /\ put - seen < Size - 1
    BY <1>4 DEF Put
  <2>3. ASSUME NEW k \in hd .. put
        PROVE  slots'[k % Size] = k
    <3>1. k \in Int /\ k % Size \in 0 .. Size - 1
      <4>1. k \in Int
        BY <1>1
      <4> QED BY <4>1, ResidueIn
    <3>2. CASE k = put
      BY <1>1, <2>1, <2>2, <3>2
    <3>3. CASE k # put
      <4>1. put - k < Size /\ k <= put /\ put \in Int
        BY <1>1, <1>2, <2>2
      <4>2. k % Size # put % Size
        BY <3>1, <3>3, <4>1, SameSlot
      <4>3. slots[k % Size] = k
        BY <1>1, <1>3, <3>3
      <4>4. slots'[k % Size] = slots[k % Size]
        BY <1>1, <2>1, <2>2, <3>1, <4>2
      <4> QED BY <4>3, <4>4
    <3> QED BY <3>2, <3>3
  <2>4. slots' \in [0 .. Size - 1 -> Int]
    BY <1>1, <2>1, <2>2
  <2>5. put' - 1 = put /\ put' \in Nat /\ put' < seen + Size
    BY <1>1, <2>2
  <2> QED BY <1>1, <1>2, <2>2, <2>3, <2>4, <2>5 DEF HostGuarantee
<1>5. CASE Ring
  <2>1. /\ pub' \in pub .. put /\ tail' = pub' % Size
        /\ slots' = slots /\ put' = put /\ seen' = seen
    BY <1>5 DEF Ring
  <2>2. pub' \in Nat
    BY <1>1, <2>1
  <2>3. tail' \in Int
    <3>1. pub' \in Int
      BY <2>2
    <3> QED BY <2>1, <3>1, ResidueIn
  <2> QED BY <1>1, <1>2, <1>3, <2>1, <2>2, <2>3 DEF HostGuarantee
<1>6. CASE Look
  <2>1. (head - seen) % Size = hd - seen
    <3>1. hd \in Int /\ seen \in Int /\ seen <= hd /\ hd - seen < Size
      BY <1>1, <1>2
    <3>2. ((hd % Size) - seen) % Size = hd - seen
      BY <3>1, ModDiff
    <3> QED BY <1>2, <3>2
  <2>2. /\ seen' = hd /\ slots' = slots /\ tail' = tail /\ put' = put /\ pub' = pub
    BY <1>1, <1>6, <2>1 DEF Look
  <2> QED BY <1>1, <1>2, <1>3, <2>2 DEF HostGuarantee
<1>7. CASE UNCHANGED hostVars
  BY <1>1, <1>2, <1>3, <1>7 DEF hostVars, HostGuarantee
<1> QED BY <1>4, <1>5, <1>6, <1>7 DEF HostStep

LEMMA FwMove ==
    ASSUME IInv, FwStep \/ UNCHANGED fwVars
    PROVE  FwGuarantee
<1>1. /\ scratch \in [0 .. BatchN - 1 -> Int] /\ head \in Int /\ tail \in Int
      /\ n \in 0 .. BatchN /\ got \in 0 .. n /\ bi \in 0 .. n /\ exd \in BOOLEAN
      /\ ran \in Nat /\ last \in Int /\ hd \in Nat /\ pub \in Nat
  BY DEF IInv, RingType
<1>2. /\ head = hd % Size /\ tail = pub % Size /\ hd <= pub /\ pub - hd < Size
      /\ pub <= put
  BY DEF IInv, Counts, RingType
<1>3. /\ got < n => bi = 0 /\ head + n <= Size
      /\ hd + (n - bi) <= pub
      /\ \A i \in bi .. got - 1 : scratch[i] = hd + (i - bi)
      /\ exd => bi < n /\ got = n
  BY DEF IInv, Batch
<1>4. /\ hd <= ran /\ ran <= hd + 1 /\ ran <= pub /\ last = ran - 1
      /\ exd => ran = hd + 1
  BY DEF IInv, Progress
<1>5. head \in 0 .. Size - 1
  <2>1. hd \in Int
    BY <1>1
  <2> QED BY <1>2, <2>1, ResidueIn
<1>6. CASE Take
  <2>1. (tail - head) % Size = pub - hd
    <3>1. hd \in Int /\ pub \in Int /\ hd <= pub /\ pub - hd < Size
      BY <1>1, <1>2
    <3>2. ((pub % Size) - (hd % Size)) % Size = pub - hd
      BY <3>1, ModDiff
    <3> QED BY <1>2, <3>2
  <2>2. /\ n' = LesserOf2((tail - head) % Size, LesserOf2(Size - head, BatchN))
        /\ bi = n /\ ~exd /\ got' = 0 /\ bi' = 0 /\ head' = head /\ scratch' = NoBatch
        /\ exd' = exd /\ hd' = hd /\ ran' = ran /\ last' = last
    BY <1>6 DEF Take
  <2>3. n' \in 0 .. BatchN /\ n' <= pub - hd /\ head + n' <= Size
    <3>1. n' = LesserOf2(pub - hd, LesserOf2(Size - head, BatchN))
      BY <2>1, <2>2
    <3>2. pub - hd \in Nat /\ Size - head \in Nat
      BY <1>1, <1>2, <1>5
    <3> QED BY <1>1, <1>5, <3>1, <3>2 DEF LesserOf2
  <2>4. FwType
    BY <1>1, <2>2, <2>3, NoBatchType DEF FwType
  <2>5. FwPlace
    BY <1>1, <1>2, <2>2 DEF FwPlace
  <2>6. FwBatch
    BY <1>1, <2>2, <2>3 DEF FwBatch
  <2>7. FwProgress
    BY <1>4, <2>2 DEF FwProgress
  <2> QED BY <2>4, <2>5, <2>6, <2>7 DEF FwGuarantee
<1>7. CASE Copy
  <2>1. /\ got < n /\ scratch' = [scratch EXCEPT ![got] = Fetched(head + got)]
        /\ got' = got + 1 /\ head' = head /\ n' = n /\ bi' = bi /\ exd' = exd
        /\ hd' = hd /\ ran' = ran /\ last' = last
    BY <1>7 DEF Copy
  <2>2. bi = 0 /\ head + n <= Size /\ hd + n <= pub /\ got \in Nat /\ n \in Nat
    BY <1>1, <1>3, <2>1
  <2>3. Fetched(head + got) = hd + got
    <3>1. head + got < Size
      BY <1>1, <1>5, <2>1, <2>2
    <3>2. (hd + got) % Size = head + got
      <4>1. hd \in Int /\ got \in Nat /\ (hd % Size) + got < Size
        BY <1>1, <1>2, <2>2, <3>1
      <4>2. (hd + got) % Size = (hd % Size) + got
        BY <4>1, SlotAfter
      <4> QED BY <1>2, <4>2
    <3>3. put \in Nat
      BY DEF IInv, RingType
    <3>4. hd + got \in hd .. put - 1
      BY <1>1, <1>2, <2>1, <2>2, <3>3
    <3>5. slots[(hd + got) % Size] = hd + got
      BY <3>4 DEF IInv, Intact
    <3> QED BY <3>1, <3>2, <3>5 DEF Fetched
  <2>4. got \in 0 .. BatchN - 1
    BY <1>1, <2>1, <2>2
  <2>5. scratch' \in [0 .. BatchN - 1 -> Int]
    BY <1>1, <2>1, <2>3, <2>4
  <2>6. ASSUME NEW i \in 0 .. got
        PROVE  scratch'[i] = hd + i
    <3>1. CASE i = got
      BY <1>1, <2>1, <2>3, <2>4, <3>1
    <3>2. CASE i # got
      <4>1. scratch[i] = hd + (i - 0)
        BY <1>1, <1>3, <2>2, <3>2
      <4> QED BY <1>1, <2>1, <2>2, <2>4, <3>2, <4>1
    <3> QED BY <3>1, <3>2
  <2>7. FwType
    BY <1>1, <2>1, <2>5 DEF FwType
  <2>8. FwPlace
    BY <1>1, <1>2, <2>1 DEF FwPlace
  <2>9. FwBatch
    BY <1>1, <1>3, <2>1, <2>2, <2>6 DEF FwBatch
  <2>10. FwProgress
    BY <1>4, <2>1 DEF FwProgress
  <2> QED BY <2>7, <2>8, <2>9, <2>10 DEF FwGuarantee
<1>8. CASE Exec
  <2>1. /\ got = n /\ bi < n /\ ~exd /\ exd' = TRUE /\ last' = scratch[bi]
        /\ ran' = IF scratch[bi] = last THEN ran ELSE ran + 1
        /\ head' = head /\ scratch' = scratch /\ n' = n /\ got' = got /\ bi' = bi
        /\ hd' = hd
    BY <1>8 DEF Exec
  <2>2. scratch[bi] = hd /\ hd + 1 <= pub
    <3>1. bi \in bi .. got - 1
      BY <1>1, <2>1
    <3>2. scratch[bi] = hd + (bi - bi)
      BY <1>3, <3>1
    <3> QED BY <1>1, <1>3, <2>1, <3>2
  <2>3. ran' = hd + 1 /\ last' = hd
    BY <1>1, <1>4, <2>1, <2>2
  <2>4. FwType
    BY <1>1, <2>1, <2>3 DEF FwType
  <2>5. FwPlace
    BY <1>1, <1>2, <2>1 DEF FwPlace
  <2>6. FwBatch
    BY <1>3, <2>1 DEF FwBatch
  <2>7. FwProgress
    BY <1>1, <2>1, <2>2, <2>3 DEF FwProgress
  <2> QED BY <2>4, <2>5, <2>6, <2>7 DEF FwGuarantee
<1>9. CASE Retire
  <2>1. /\ exd /\ head' = (head + 1) % Size /\ hd' = hd + 1 /\ exd' = FALSE
        /\ bi' = bi + 1 /\ scratch' = scratch /\ n' = n /\ got' = got /\ ran' = ran
        /\ last' = last
    BY <1>9 DEF Retire
  <2>2. head' = (hd + 1) % Size
    <3>1. hd \in Int
      BY <1>1
    <3> QED BY <1>2, <2>1, <3>1, NextSlot
  <2>3. head' \in Int
    <3>1. hd + 1 \in Int
      BY <1>1
    <3> QED BY <2>2, <3>1, ResidueIn
  <2>4. bi < n /\ got = n /\ ran = hd + 1
    BY <1>3, <1>4, <2>1
  <2>5. ASSUME NEW i \in bi + 1 .. got - 1
        PROVE  scratch[i] = (hd + 1) + (i - (bi + 1))
    <3>1. scratch[i] = hd + (i - bi)
      BY <1>1, <1>3
    <3> QED BY <1>1, <3>1
  <2>6. FwType
    <3>1. bi' \in 0 .. n' /\ hd' \in Nat
      BY <1>1, <2>1, <2>4
    <3>2. exd' \in BOOLEAN
      BY <2>1
    <3> QED BY <1>1, <2>1, <2>3, <3>1, <3>2 DEF FwType
  <2>7. FwPlace
    BY <1>1, <2>1, <2>2 DEF FwPlace
  <2>8. FwBatch
    <3>1. ~(got' < n') /\ ~exd'
      BY <1>1, <2>1, <2>4
    <3>2. hd' + (n' - bi') <= pub
      BY <1>1, <1>3, <2>1
    <3> QED BY <2>1, <2>5, <3>1, <3>2 DEF FwBatch
  <2>9. FwProgress
    BY <1>1, <1>4, <2>1, <2>4 DEF FwProgress
  <2> QED BY <2>6, <2>7, <2>8, <2>9 DEF FwGuarantee
<1>10. CASE Drop
  <2>1. /\ n' = 0 /\ got' = 0 /\ bi' = 0 /\ exd' = FALSE /\ head' = head
        /\ scratch' = NoBatch /\ hd' = hd /\ ran' = ran /\ last' = last
    BY <1>10 DEF Drop
  <2>2. FwType
    <3>1. n' \in 0 .. BatchN /\ bi' \in 0 .. n' /\ got' \in 0 .. n'
      BY <2>1
    <3>2. exd' \in BOOLEAN
      BY <2>1
    <3> QED BY <1>1, <2>1, <3>1, <3>2, NoBatchType DEF FwType
  <2>3. FwPlace
    BY <1>1, <1>2, <2>1 DEF FwPlace
  <2>4. FwBatch
    BY <1>1, <1>2, <2>1 DEF FwBatch
  <2>5. FwProgress
    BY <1>4, <2>1 DEF FwProgress
  <2> QED BY <2>2, <2>3, <2>4, <2>5 DEF FwGuarantee
<1>11. CASE UNCHANGED fwVars
  BY <1>1, <1>2, <1>3, <1>4, <1>11
     DEF fwVars, FwGuarantee, FwType, FwPlace, FwBatch, FwProgress
<1> QED BY <1>6, <1>7, <1>8, <1>9, <1>10, <1>11 DEF FwStep

\* The rest of a batch is below its end, and stays below a later one.
LEMMA BelowEnd ==
    ASSUME NEW a \in Int, NEW b \in Int, NEW c \in Int, NEW d \in Int, NEW e \in Int,
           b <= c, d <= e, a + (c - b) <= d
    PROVE  a <= d /\ a + (c - b) <= e
OBVIOUS

\* What is left of a range when it starts later.
LEMMA LaterStart ==
    ASSUME NEW a \in Int, NEW b \in Int, NEW c \in Int, a <= b
    PROVE  \A k \in b .. c - 1 : k \in a .. c - 1
OBVIOUS

\* Together they keep the invariant, also when both move in one step.
LEMMA RingNextInv == IInv /\ [RingNext]_ringVars => IInv'
<1> SUFFICES ASSUME IInv, [RingNext]_ringVars PROVE IInv'
  OBVIOUS
<1>1. HostGuarantee
  BY HostMove DEF RingNext, ringVars
<1>2. FwGuarantee
  BY FwMove DEF RingNext, ringVars
<1>3. FwType /\ FwPlace /\ FwBatch /\ FwProgress
  BY <1>2 DEF FwGuarantee
<1>4. RingType'
  BY <1>1, <1>3 DEF HostGuarantee, FwType, RingType
<1>5. /\ pub \in Int /\ hd \in Int /\ hd' \in Int /\ pub' \in Int /\ ran' \in Int
      /\ n' \in Int /\ bi' \in Int /\ bi' <= n' /\ seen' \in Int
  BY <1>4 DEF IInv, RingType
<1>6. Counts'
  <2>1. hd <= hd' /\ head' = hd' % Size
    BY <1>3 DEF FwPlace
  <2>2. /\ tail' = pub' % Size /\ seen' <= hd /\ pub <= pub' /\ pub' <= put'
        /\ put' < seen' + Size
    BY <1>1 DEF HostGuarantee
  <2>3. hd' <= pub
    <3>1. hd' + (n' - bi') <= pub
      BY <1>3 DEF FwBatch
    <3>2. pub <= pub
      BY <1>5
    <3> QED BY <1>5, <3>1, <3>2, BelowEnd
  <2>4. seen' <= hd' /\ hd' <= pub'
    BY <1>5, <2>1, <2>2, <2>3
  <2> QED BY <2>1, <2>2, <2>4 DEF Counts
<1>7. Intact'
  <2>1. \A k \in hd .. put' - 1 : slots'[k % Size] = k
    BY <1>1 DEF HostGuarantee
  <2>2. hd <= hd' /\ put' \in Int
    BY <1>3, <1>4, SMT DEF FwPlace, RingType
  <2>3. \A k \in hd' .. put' - 1 : k \in hd .. put' - 1
    BY <1>5, <2>2, LaterStart
  <2> QED BY <2>1, <2>3 DEF Intact
<1>8. pub <= pub'
  BY <1>1 DEF HostGuarantee
<1>9. Batch'
  <2>1. hd' + (n' - bi') <= pub'
    <3>1. hd' + (n' - bi') <= pub
      BY <1>3 DEF FwBatch
    <3> QED BY <1>5, <1>8, <3>1, BelowEnd
  <2> QED BY <1>3, <2>1 DEF FwBatch, Batch
<1>10. Progress'
  <2>1. ran' <= pub'
    BY <1>3, <1>5, <1>8 DEF FwProgress
  <2> QED BY <1>3, <2>1 DEF FwProgress, Progress
<1> QED BY <1>4, <1>6, <1>7, <1>9, <1>10 DEF IInv

-----------------------------------------------------------------------------
\* The invariant holds in every behaviour of the ring.
THEOREM RingInvariant == RingSpec => []IInv
<1> QED BY RingInitInv, RingNextInv, PTL DEF RingSpec

\* For every size of the ring and of the batch, no slot is used again before
\* its descriptor is retired (host_producer.c, ADR-0052).
THEOREM SlotsIntact == RingSpec => []Intact
<1>1. IInv => Intact
  BY DEF IInv
<1> QED BY <1>1, RingInvariant, PTL

\* The firmware's copy is the oldest descriptors that are not retired, in
\* order, and what it has executed is at most one ahead of CQ_HEAD.
THEOREM RunsInOrder == RingSpec => []InOrder
<1>1. IInv => InOrder
  BY DEF IInv, RingType, Counts, Batch, Progress, InOrder
<1> QED BY <1>1, RingInvariant, PTL

\* The ring implements its contract: every published descriptor in order, none
\* skipped, none before it is published; a repeated execution repeats the last.
THEOREM RingImplements == RingSpec => Implements
<1>1. RingInit => Contract!CqInit
  BY DEF RingInit, Contract!CqInit
<1>2. ASSUME IInv, [RingNext]_ringVars
      PROVE  [Contract!CqNext]_Contract!cqvars
  <2>1. pub' \in Nat /\ pub' >= pub
    <3>1. HostGuarantee
      BY <1>2, HostMove DEF RingNext, ringVars
    <3> QED BY <1>2, <3>1 DEF HostGuarantee, IInv, RingType
  <2>2. Contract!Run \/ UNCHANGED <<ran, last>>
    <3>1. CASE Exec
      <4>1. got = n /\ bi < n /\ scratch[bi] = hd /\ hd + 1 <= pub
        BY <1>2, <3>1 DEF Exec, IInv, RingType, Counts, Batch
      <4>2. CASE ran = hd
        BY <1>2, <3>1, <4>1, <4>2 DEF Exec, IInv, RingType, Progress, Contract!Run
      <4>3. CASE ran = hd + 1
        BY <1>2, <3>1, <4>1, <4>3 DEF Exec, IInv, RingType, Progress
      <4> QED BY <1>2, <4>2, <4>3 DEF IInv, RingType, Progress
    <3>2. CASE Take \/ Copy \/ Retire \/ Drop \/ UNCHANGED fwVars
      BY <3>2 DEF Take, Copy, Retire, Drop, fwVars
    <3> QED BY <1>2, <3>1, <3>2 DEF RingNext, ringVars, FwStep
  <2> QED BY <2>1, <2>2 DEF Contract!CqNext, Contract!Publish, Contract!cqvars
<1> QED BY <1>1, <1>2, RingInvariant, PTL DEF RingSpec, Implements, Contract!CqSpec
=============================================================================
