------------------------------- MODULE CqRing -------------------------------
(***************************************************************************)
(* The descriptor ring between the host and the sequencer firmware         *)
(* (ADR-0035, ADR-0052; main of cq_sequencer.c).  Two cores, one ring, no   *)
(* lock: the host writes slots and CQ_TAIL, the firmware CQ_HEAD, and each  *)
(* knows the other's progress only modulo the size of the ring.            *)
(*                                                                         *)
(* x & ring_mask is x % Size (the size is a power of two by ADR-0035; the   *)
(* algorithm is right for every size).  Descriptors are named by the order  *)
(* in which the host writes them.                                          *)
(***************************************************************************)
EXTENDS CqParams

VARIABLES
    slots,     \* the ring in shared memory: the descriptor in each slot
    tail,      \* CQ_TAIL
    put, pub,  \* the host's own counts: descriptors written, published
    seen,      \* the host's own count of the slots it may use again
    head,      \* CQ_HEAD
    scratch,   \* the firmware's copy of a batch
    n, got,    \* size of the batch, descriptors of it copied so far
    bi, exd,   \* the descriptor at work, and whether it has been executed
    hd,        \* history: descriptors retired
    ran, last  \* history: descriptors executed, the one executed last

hostVars == <<slots, tail, put, pub, seen>>
fwVars   == <<head, scratch, n, got, bi, exd, hd, ran, last>>
ringVars == <<hostVars, fwVars>>

LesserOf2(a, b) == IF a < b THEN a ELSE b

NoBatch == [i \in 0 .. BatchN - 1 |-> -1]     \* nothing that counts

RingInit ==
    /\ slots = [i \in 0 .. Size - 1 |-> -1] /\ tail = 0
    /\ put = 0 /\ pub = 0 /\ seen = 0
    /\ head = 0 /\ scratch = NoBatch
    /\ n = 0 /\ got = 0 /\ bi = 0 /\ exd = FALSE
    /\ hd = 0 /\ ran = 0 /\ last = -1

-----------------------------------------------------------------------------
(* The host writes the next descriptor; one slot stays free. *)
Put ==
    /\ put - seen < Size - 1
    /\ slots' = [slots EXCEPT ![put % Size] = put] /\ put' = put + 1
    /\ UNCHANGED <<tail, pub, seen>>

(* CQ_TAIL publishes what has been written, up to any of it. *)
Ring ==
    /\ pub' \in pub .. put /\ tail' = pub' % Size
    /\ UNCHANGED <<slots, put, seen>>

(* The host reads CQ_HEAD and takes back the slots it has passed. *)
Look ==
    /\ seen' = seen + ((head - seen) % Size)
    /\ UNCHANGED <<slots, tail, put, pub>>

HostStep == Put \/ Ring \/ Look

-----------------------------------------------------------------------------
(* A new batch: what CQ_TAIL says is pending, up to the end of the ring.    *)
Take ==
    /\ bi = n /\ ~exd /\ head # tail
    /\ n' = LesserOf2((tail - head) % Size, LesserOf2(Size - head, BatchN))
    /\ got' = 0 /\ bi' = 0 /\ scratch' = NoBatch
    /\ UNCHANGED <<head, exd, hd, ran, last>>

(* The DMA engine copies the next slot of the batch, in address order: past *)
(* the end of the ring it would read something else.                        *)
Fetched(i) == IF i < Size THEN slots[i] ELSE -1

Copy ==
    /\ got < n
    /\ scratch' = [scratch EXCEPT ![got] = Fetched(head + got)]
    /\ got' = got + 1
    /\ UNCHANGED <<head, n, bi, exd, hd, ran, last>>

(* The firmware executes the descriptor: a new one, or again the last one.  *)
Exec ==
    /\ got = n /\ bi < n /\ ~exd
    /\ exd' = TRUE
    /\ last' = scratch[bi]
    /\ ran' = IF scratch[bi] = last THEN ran ELSE ran + 1
    /\ UNCHANGED <<head, scratch, n, got, bi, hd>>

(* CQ_HEAD passes it.                                                      *)
Retire ==
    /\ exd
    /\ head' = (head + 1) % Size /\ hd' = hd + 1
    /\ exd' = FALSE /\ bi' = bi + 1
    /\ UNCHANGED <<scratch, n, got, ran, last>>

(* The core is reset: the batch is gone, CQ_HEAD stays.                     *)
Drop ==
    /\ n' = 0 /\ got' = 0 /\ bi' = 0 /\ exd' = FALSE /\ scratch' = NoBatch
    /\ UNCHANGED <<head, hd, ran, last>>

FwStep == Take \/ Copy \/ Exec \/ Retire \/ Drop

\* Two cores on one clock: both may move in one step.
RingNext == /\ HostStep \/ UNCHANGED hostVars
            /\ FwStep \/ UNCHANGED fwVars

RingSpec == RingInit /\ [][RingNext]_ringVars

-----------------------------------------------------------------------------
\* What the host has written and the firmware has not retired is in its slot:
\* no slot is used again too early, whatever either side knows of the other.
Intact == \A k \in hd .. put - 1 : slots[k % Size] = k

\* The firmware works on the oldest descriptor that is not retired, and only
\* on published ones.
InOrder ==
    /\ got = n => \A i \in bi .. n - 1 : scratch[i] = hd + (i - bi)
    /\ hd <= ran /\ ran <= hd + 1 /\ ran <= pub
    /\ ~exd /\ ran > hd => last = hd      \* dropped between execution and HEAD

Contract == INSTANCE CqContract WITH sent <- pub
Implements == Contract!CqSpec
=============================================================================
