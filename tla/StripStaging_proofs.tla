------------------------- MODULE StripStaging_proofs -------------------------
(***************************************************************************)
(* Which jobs the staging layout of mat_strip_gemm is right for, whatever   *)
(* their number, their weights and their place in the batch.               *)
(*                                                                         *)
(* The argument.  The weights move down: at counter i everything below i    *)
(* has arrived and everything from i on is still what the host wrote, so    *)
(* the sources of the later phases are untouched as long as the last block  *)
(* ends with the weights.  In the TCM two strips of parameters end where    *)
(* the folds begin and two chunks of activations end before the scratch     *)
(* area, so that each phase keeps what the phases before it have placed.    *)
(***************************************************************************)
EXTENDS StripStaging, TLAPS

Phases == {"check", "header", "weights", "params", "folds", "acts", "go", "halt"}

Typed ==
    /\ phase \in Phases /\ i \in Nat
    /\ tcm \in [0 .. TcmEnd - 1 -> Int]
    /\ shared \in [0 .. SharedEnd - 1 -> Int]

\* The first n granules of the weights have moved, nothing else has changed.
Moved(n) ==
    /\ \A g \in 0 .. n - 1 : shared[g] = Hdr + g
    /\ \A g \in n .. SharedEnd - 1 : shared[g] = g

BatchSafe == \A g \in Scratch .. Scratch + 3 : tcm[g] = -1 - g

Staged ==
    /\ BatchSafe
    /\ phase \in {"check", "header"} => i = 0 /\ Moved(0)
    /\ phase = "weights" => i % Block = 0 /\ i <= Weights(job) /\ Moved(i)
    /\ phase \in {"params", "folds", "acts", "go"} => Moved(Weights(job))
    /\ phase = "params" =>
          i % 2 = 0 /\ i <= Params(job) /\ Placed(tcm, Param, ParamSrc(job), i)
    /\ phase \in {"folds", "acts", "go"} =>
          Placed(tcm, Param, ParamSrc(job), Params(job))
    /\ phase = "folds" =>
          i <= Folds(job) /\ Placed(tcm, Fold, FoldSrc(job), i)
    /\ phase \in {"acts", "go"} => Placed(tcm, Fold, FoldSrc(job), Folds(job))
    /\ phase = "acts" =>
          i % Block = 0 /\ i <= Acts(job) /\ Placed(tcm, OpA, ActSrc(job), i)
    /\ phase = "go" => Placed(tcm, OpA, ActSrc(job), Acts(job))

IInv ==
    /\ WellFormed(job)
    /\ Fits(job) =>
          Typed /\ (phase \notin {"check", "halt"} => Legal(job)) /\ Staged
-----------------------------------------------------------------------------
(* The sizes of the memories and of a job. *)

LEMMA Ends == TcmEnd \in Nat /\ TcmEnd > 208 /\ SharedEnd \in Nat
BY DEF TcmEnd, SharedEnd

USE Ends

LEMMA SizeTypes ==
    ASSUME NEW j, WellFormed(j)
    PROVE  /\ Weights(j) \in Nat /\ Params(j) \in Nat /\ Folds(j) \in Nat
           /\ Acts(j) \in Nat
<1>1. j.n_strips \in Nat /\ j.strip \in Nat /\ j.k_chunks \in Nat
  BY DEF WellFormed
<1>2. ASSUME NEW a \in Nat, NEW b \in Nat PROVE a * b \in Nat
  OBVIOUS
<1>3. j.n_strips * j.strip \in Nat
  BY <1>1, <1>2
<1> QED BY <1>1, <1>3 DEF Weights, Params, Folds, Acts, Block

\* A legal job that fits: where its parts begin and how long they are.
LEMMA Sizes ==
    ASSUME NEW j, WellFormed(j), Fits(j), Legal(j)
    PROVE  /\ Weights(j) \in Nat /\ Weights(j) % 16 = 0
           /\ Params(j) \in {16, 32} /\ Folds(j) \in {8, 16} /\ Acts(j) \in {16, 32}
           /\ ParamSrc(j) = 2 + Weights(j)
           /\ FoldSrc(j) = 2 + Weights(j) + Params(j)
           /\ ActSrc(j) = 2 + Weights(j) + Params(j) + Folds(j)
           /\ 2 + Weights(j) + Params(j) + Folds(j) + Acts(j) <= SharedEnd
<1>1. Weights(j) \in Nat
  BY SizeTypes
<1>2. Weights(j) % 16 = 0
  BY DEF Fits, Block
<1>3. j.n_strips \in {1, 2} /\ j.k_chunks \in {1, 2}
  <2>1. j.n_strips \in Nat /\ j.k_chunks \in Nat
    BY DEF WellFormed
  <2>2. j.n_strips # 0 /\ j.k_chunks # 0
    BY DEF Legal
  <2>3. j.n_strips <= 2 /\ j.k_chunks <= 2
    BY DEF Fits
  <2> QED BY <2>1, <2>2, <2>3
<1>4. Params(j) \in {16, 32} /\ Folds(j) \in {8, 16} /\ Acts(j) \in {16, 32}
  BY <1>3 DEF Params, Folds, Acts, Block
<1>5. /\ ParamSrc(j) = 2 + Weights(j)
      /\ FoldSrc(j) = 2 + Weights(j) + Params(j)
      /\ ActSrc(j) = 2 + Weights(j) + Params(j) + Folds(j)
  BY DEF ParamSrc, FoldSrc, ActSrc, Hdr
<1>6. 2 + Weights(j) + Params(j) + Folds(j) + Acts(j) <= SharedEnd
  <2>1. Total(j) <= SharedEnd
    BY DEF Legal
  <2> QED BY <2>1, <1>5 DEF Total
<1> QED BY <1>1, <1>2, <1>4, <1>5, <1>6

\* What a copy from shared memory leaves in the TCM, and in shared memory itself.
LEMMA CopyTcm ==
    ASSUME tcm \in [0 .. TcmEnd - 1 -> Int], shared \in [0 .. SharedEnd - 1 -> Int],
           NEW s \in Nat, NEW d \in Nat, NEW n \in Nat, s + n <= SharedEnd
    PROVE  /\ Copy(shared, s, tcm, d, n) \in [0 .. TcmEnd - 1 -> Int]
           /\ \A g \in 0 .. TcmEnd - 1 :
                 /\ g < d \/ d + n <= g => Copy(shared, s, tcm, d, n)[g] = tcm[g]
                 /\ d <= g /\ g < d + n =>
                       Copy(shared, s, tcm, d, n)[g] = shared[s + g - d]
<1>1. \A g \in 0 .. TcmEnd - 1 : g \in d .. d + n - 1 => shared[s + g - d] \in Int
  OBVIOUS
<1> QED BY <1>1 DEF Copy

LEMMA CopyShared ==
    ASSUME shared \in [0 .. SharedEnd - 1 -> Int],
           NEW s \in Nat, NEW d \in Nat, NEW n \in Nat, s + n <= SharedEnd
    PROVE  /\ Copy(shared, s, shared, d, n) \in [0 .. SharedEnd - 1 -> Int]
           /\ \A g \in 0 .. SharedEnd - 1 :
                 /\ g < d \/ d + n <= g => Copy(shared, s, shared, d, n)[g] = shared[g]
                 /\ d <= g /\ g < d + n =>
                       Copy(shared, s, shared, d, n)[g] = shared[s + g - d]
<1>1. \A g \in 0 .. SharedEnd - 1 : g \in d .. d + n - 1 => shared[s + g - d] \in Int
  OBVIOUS
<1> QED BY <1>1 DEF Copy

-----------------------------------------------------------------------------
(* The invariant. *)

LEMMA InitInv == ASSUME \A j \in Jobs : WellFormed(j), Init PROVE IInv
<1>1. Typed
  BY DEF Init, Typed, Phases
<1>2. Staged
  BY DEF Init, Staged, BatchSafe, Moved, Scratch
<1> QED BY <1>1, <1>2 DEF IInv, Init

\* Every step of a job that fits keeps types and places.
LEMMA CheckInv == ASSUME IInv, Fits(job), Check PROVE IInv'
<1>1. job' = job /\ i' = i /\ tcm' = tcm /\ shared' = shared /\ phase = "check"
  BY DEF Check
<1>2. phase' \in {"header", "halt"} /\ (phase' = "header" => Legal(job))
  BY DEF Check
<1>3. Typed' /\ Staged'
  BY <1>1, <1>2 DEF IInv, Typed, Phases, Staged, BatchSafe, Moved
<1> QED BY <1>1, <1>2, <1>3 DEF IInv

LEMMA HeaderInv == ASSUME IInv, Fits(job), Header PROVE IInv'
<1>1. Typed /\ Legal(job) /\ Staged /\ WellFormed(job)
  BY DEF IInv, Header
<1>2. job' = job /\ i' = i /\ shared' = shared /\ phase = "header"
  BY DEF Header
<1>3. phase' \in {"weights", "halt"}
  BY DEF Header
<1>4. tcm' \in [0 .. TcmEnd - 1 -> Int] /\ \A g \in 0 .. TcmEnd - 1 : g < 176 => tcm'[g] = tcm[g]
  <2>1. tcm' = Copy(shared, 0, tcm, 176, 2)
    BY DEF Header, Fold, Hdr
  <2>2. tcm \in [0 .. TcmEnd - 1 -> Int] /\ shared \in [0 .. SharedEnd - 1 -> Int]
    BY <1>1 DEF Typed
  <2>3. 0 \in Nat /\ 176 \in Nat /\ 2 \in Nat /\ 0 + 2 <= SharedEnd
    BY DEF SharedEnd
  <2>4. /\ Copy(shared, 0, tcm, 176, 2) \in [0 .. TcmEnd - 1 -> Int]
        /\ \A g \in 0 .. TcmEnd - 1 :
              g < 176 \/ 176 + 2 <= g => Copy(shared, 0, tcm, 176, 2)[g] = tcm[g]
    <3>1. \A g \in 0 .. TcmEnd - 1 :
             g \in 176 .. 176 + 2 - 1 => shared[0 + g - 176] \in Int
      BY <2>2, <2>3
    <3> QED BY <2>2, <3>1 DEF Copy
  <2> QED BY <2>1, <2>4
<1>5. Typed'
  BY <1>1, <1>2, <1>3, <1>4 DEF Typed, Phases
<1>6. BatchSafe'
  BY <1>1, <1>4 DEF Staged, BatchSafe, Scratch
<1>7. i = 0 /\ Moved(0) /\ Moved(0)'
  BY <1>1, <1>2 DEF Staged, Moved
<1>8. 0 <= Weights(job)
  BY <1>1, SizeTypes
<1>9. Staged'
  BY <1>2, <1>3, <1>6, <1>7, <1>8 DEF Staged, Block
<1> QED BY <1>1, <1>2, <1>5, <1>9 DEF IInv

LEMMA CompactInv == ASSUME IInv, Fits(job), Compact PROVE IInv'
<1>1. Typed /\ Legal(job) /\ Staged /\ WellFormed(job)
  BY DEF IInv, Compact, Loop
<1>2. job' = job /\ i' = i + 16 /\ phase = "weights" /\ phase' = "weights" /\ i < Weights(job)
  BY DEF Compact, Loop, Block
<1> DEFINE W == Weights(job)
<1>3. W \in Nat /\ W % 16 = 0 /\ W + 32 <= SharedEnd
  BY <1>1, Sizes
<1>4. i \in Nat /\ i % 16 = 0 /\ Moved(i)
  BY <1>1, <1>2 DEF Typed, Staged, Block
<1>5. i + 16 <= W /\ (i + 16) % 16 = 0 /\ 2 + i + 16 <= SharedEnd
  BY <1>2, <1>3, <1>4
<1>6. tcm \in [0 .. TcmEnd - 1 -> Int] /\ shared \in [0 .. SharedEnd - 1 -> Int]
  BY <1>1 DEF Typed
<1>7. tcm' \in [0 .. TcmEnd - 1 -> Int] /\ \A g \in 0 .. TcmEnd - 1 : g < 176 => tcm'[g] = tcm[g]
  <2>1. tcm' = Copy(shared, 2 + i, tcm, 176, 16)
    BY DEF Compact, Fold, Hdr, Block
  <2>3. /\ Copy(shared, 2 + i, tcm, 176, 16) \in [0 .. TcmEnd - 1 -> Int]
        /\ \A g \in 0 .. TcmEnd - 1 :
              /\ g < 176 \/ 176 + 16 <= g =>
                    Copy(shared, 2 + i, tcm, 176, 16)[g] = tcm[g]
              /\ 176 <= g /\ g < 176 + 16 =>
                    Copy(shared, 2 + i, tcm, 176, 16)[g] = shared[2 + i + g - 176]
    <3>1. 2 + i \in Nat /\ 176 \in Nat /\ 16 \in Nat
      BY <1>4
    <3> QED BY ONLY <1>5, <3>1, <1>6, CopyTcm
  <2> QED BY <2>1, <2>3
<1>8. /\ shared' \in [0 .. SharedEnd - 1 -> Int]
      /\ \A g \in 0 .. SharedEnd - 1 :
            /\ g < i \/ i + 16 <= g => shared'[g] = shared[g]
            /\ i <= g /\ g < i + 16 => shared'[g] = shared[2 + i + g - i]
  <2>1. shared' = Copy(shared, 2 + i, shared, i, 16)
    BY DEF Compact, Hdr, Block
  <2>2. /\ Copy(shared, 2 + i, shared, i, 16) \in [0 .. SharedEnd - 1 -> Int]
        /\ \A g \in 0 .. SharedEnd - 1 :
              /\ g < i \/ i + 16 <= g =>
                    Copy(shared, 2 + i, shared, i, 16)[g] = shared[g]
              /\ i <= g /\ g < i + 16 =>
                    Copy(shared, 2 + i, shared, i, 16)[g] = shared[2 + i + g - i]
    <3>1. 2 + i \in Nat /\ i \in Nat /\ 16 \in Nat
      BY <1>4
    <3> QED BY ONLY <1>5, <3>1, <1>6, CopyShared
  <2> QED BY <2>1, <2>2
<1>9. Moved(i)'
  <2>1. ASSUME NEW g \in 0 .. i + 15 PROVE shared'[g] = 2 + g
    <3>1. CASE g < i
      <4>1. g \in 0 .. SharedEnd - 1 /\ g \in 0 .. i - 1
        BY <3>1, <1>4, <1>5
      <4> QED BY <3>1, <4>1, <1>4, <1>8 DEF Moved, Hdr
    <3>2. CASE g >= i
      <4>1. g \in 0 .. SharedEnd - 1 /\ 2 + g \in i .. SharedEnd - 1
        BY <3>2, <1>4, <1>5
      <4>2. shared'[g] = shared[2 + i + g - i]
        BY <3>2, <4>1, <1>4, <1>8
      <4>3. 2 + i + g - i = 2 + g
        BY <1>4
      <4> QED BY <4>1, <4>2, <4>3, <1>4 DEF Moved
    <3> QED BY <3>1, <3>2, <1>4
  <2>2. ASSUME NEW g \in i + 16 .. SharedEnd - 1 PROVE shared'[g] = g
    <3>1. g \in 0 .. SharedEnd - 1 /\ g \in i .. SharedEnd - 1
      BY <1>4, <1>5
    <3> QED BY <3>1, <1>4, <1>8 DEF Moved
  <2> QED BY <2>1, <2>2, <1>2, <1>4 DEF Moved, Hdr
<1>10. Typed'
  BY <1>2, <1>4, <1>7, <1>8 DEF Typed, Phases
<1>11. BatchSafe'
  BY <1>1, <1>7 DEF Staged, BatchSafe, Scratch
<1>12. Staged'
  BY <1>2, <1>5, <1>9, <1>11 DEF Staged, Block
<1> QED BY <1>1, <1>2, <1>10, <1>12 DEF IInv\* A staging step extends what it places by a block and touches nothing else.
LEMMA Grow ==
    ASSUME tcm \in [0 .. TcmEnd - 1 -> Int], shared \in [0 .. SharedEnd - 1 -> Int],
           NEW d \in Nat, NEW s \in Nat, NEW n \in Nat, NEW k \in Nat, NEW w \in Nat,
           Placed(tcm, d, s, n), Moved(w), w <= s,
           s + n + k <= SharedEnd, d + n + k <= TcmEnd
    PROVE  /\ Copy(shared, s + n, tcm, d + n, k) \in [0 .. TcmEnd - 1 -> Int]
           /\ \A g \in 0 .. TcmEnd - 1 :
                 g < d + n \/ d + n + k <= g =>
                    Copy(shared, s + n, tcm, d + n, k)[g] = tcm[g]
           /\ Placed(Copy(shared, s + n, tcm, d + n, k), d, s, n + k)
<1> DEFINE m == Copy(shared, s + n, tcm, d + n, k)
<1>1. /\ s + n \in Nat /\ d + n \in Nat /\ k \in Nat /\ (s + n) + k <= SharedEnd
      /\ tcm \in [0 .. TcmEnd - 1 -> Int] /\ shared \in [0 .. SharedEnd - 1 -> Int]
  OBVIOUS
<1>2. /\ m \in [0 .. TcmEnd - 1 -> Int]
      /\ \A g \in 0 .. TcmEnd - 1 :
            /\ g < d + n \/ (d + n) + k <= g => m[g] = tcm[g]
            /\ d + n <= g /\ g < (d + n) + k => m[g] = shared[(s + n) + g - (d + n)]
  BY ONLY <1>1, CopyTcm
<1> HIDE DEF m
<1>3. ASSUME NEW g \in 0 .. n + k - 1 PROVE m[d + g] = s + g
  <2>1. d + g \in 0 .. TcmEnd - 1
    OBVIOUS
  <2>2. CASE g < n
    <3>1. m[d + g] = tcm[d + g]
      BY <1>2, <2>1, <2>2
    <3> QED BY <3>1, <2>2 DEF Placed
  <2>3. CASE g >= n
    <3>1. m[d + g] = shared[(s + n) + (d + g) - (d + n)]
      BY <1>2, <2>1, <2>3
    <3>2. (s + n) + (d + g) - (d + n) = s + g /\ s + g \in w .. SharedEnd - 1
      BY <2>3
    <3> QED BY <3>1, <3>2 DEF Moved
  <2> QED BY <2>2, <2>3
<1>4. Placed(m, d, s, n + k)
  BY <1>3 DEF Placed
<1> QED BY <1>2, <1>4 DEF m

LEMMA ParamsInv == ASSUME IInv, Fits(job), StageParams PROVE IInv'
<1>1. Typed /\ Legal(job) /\ Staged /\ WellFormed(job)
  BY DEF IInv, StageParams, Loop
<1>2. /\ job' = job /\ shared' = shared /\ i' = i + 2
      /\ phase = "params" /\ phase' = "params"
  BY DEF StageParams, Loop, Block
<1>3. /\ Weights(job) \in Nat /\ ParamSrc(job) \in Nat /\ Weights(job) <= ParamSrc(job)
      /\ ParamSrc(job) + Params(job) <= SharedEnd
  BY <1>1, Sizes
<1>4. /\ Placed(tcm, 144, ParamSrc(job), i) /\ Moved(Weights(job))
      /\ tcm \in [0 .. TcmEnd - 1 -> Int] /\ shared \in [0 .. SharedEnd - 1 -> Int]
  BY <1>1, <1>2 DEF Typed, Staged, Param
<1>5. /\ Params(job) \in {16, 32} /\ i \in Nat /\ i + 2 <= Params(job) /\ (i + 2) % 2 = 0
  <2>1. Params(job) \in {16, 32}
    BY <1>1, Sizes
  <2>2. i \in Nat /\ i % 2 = 0 /\ i < Params(job)
    BY <1>1, <1>2 DEF Typed, Staged, Block, StageParams, Loop
  <2> QED BY ONLY <2>1, <2>2
<1>6. tcm' = Copy(shared, ParamSrc(job) + i, tcm, 144 + i, 2)
  BY DEF StageParams, Param, Block
<1>7. /\ tcm' \in [0 .. TcmEnd - 1 -> Int]
      /\ \A g \in 0 .. TcmEnd - 1 :
            g < 144 + i \/ 144 + i + 2 <= g => tcm'[g] = tcm[g]
      /\ Placed(tcm', 144, ParamSrc(job), i + 2)
  <2>1. /\ 144 \in Nat /\ 2 \in Nat /\ ParamSrc(job) + i + 2 <= SharedEnd
        /\ 144 + i + 2 <= TcmEnd
    BY ONLY <1>3, <1>5, Ends
  <2>2. LET m == Copy(shared, ParamSrc(job) + i, tcm, 144 + i, 2) IN
        /\ m \in [0 .. TcmEnd - 1 -> Int]
        /\ \A g \in 0 .. TcmEnd - 1 :
              g < 144 + i \/ 144 + i + 2 <= g => m[g] = tcm[g]
        /\ Placed(m, 144, ParamSrc(job), i + 2)
    BY ONLY <1>3, <1>4, <1>5, <2>1, Grow
  <2> QED BY <1>6, <2>2
<1>8. Typed'
  BY <1>1, <1>2, <1>5, <1>7 DEF Typed, Phases
<1>9. BatchSafe'
  <2>1. ASSUME NEW g \in Scratch .. Scratch + 3 PROVE tcm'[g] = -1 - g
    <3>1. g \in 0 .. TcmEnd - 1 /\ g < 144 + i
      BY <1>5 DEF Scratch
    <3>2. tcm'[g] = tcm[g]
      BY ONLY <3>1, <1>7
    <3>3. tcm[g] = -1 - g
      BY <1>1, <2>1 DEF Staged, BatchSafe
    <3> QED BY ONLY <3>2, <3>3
  <2> QED BY ONLY <2>1 DEF BatchSafe
<1>12. Staged'
  BY <1>2, <1>4, <1>5, <1>7, <1>9 DEF Staged, Moved, Param
<1> QED BY <1>1, <1>2, <1>8, <1>12 DEF IInv

LEMMA FoldsInv == ASSUME IInv, Fits(job), StageFolds PROVE IInv'
<1>1. Typed /\ Legal(job) /\ Staged /\ WellFormed(job)
  BY DEF IInv, StageFolds, Loop
<1>2. /\ job' = job /\ shared' = shared /\ i' = i + 1
      /\ phase = "folds" /\ phase' = "folds"
  BY DEF StageFolds, Loop, Block
<1>3. /\ Weights(job) \in Nat /\ FoldSrc(job) \in Nat /\ Weights(job) <= FoldSrc(job)
      /\ FoldSrc(job) + Folds(job) <= SharedEnd
  BY <1>1, Sizes
<1>4. /\ Placed(tcm, 176, FoldSrc(job), i) /\ Moved(Weights(job))
      /\ tcm \in [0 .. TcmEnd - 1 -> Int] /\ shared \in [0 .. SharedEnd - 1 -> Int]
  BY <1>1, <1>2 DEF Typed, Staged, Fold
<1>5. /\ Folds(job) \in {8, 16} /\ i \in Nat /\ i + 1 <= Folds(job)
  <2>1. Folds(job) \in {8, 16}
    BY <1>1, Sizes
  <2>2. i \in Nat /\ i < Folds(job)
    BY <1>1, <1>2 DEF Typed, Staged, Block, StageFolds, Loop
  <2> QED BY ONLY <2>1, <2>2
<1>6. tcm' = Copy(shared, FoldSrc(job) + i, tcm, 176 + i, 1)
  BY DEF StageFolds, Fold, Block
<1>7. /\ tcm' \in [0 .. TcmEnd - 1 -> Int]
      /\ \A g \in 0 .. TcmEnd - 1 :
            g < 176 + i \/ 176 + i + 1 <= g => tcm'[g] = tcm[g]
      /\ Placed(tcm', 176, FoldSrc(job), i + 1)
  <2>1. /\ 176 \in Nat /\ 1 \in Nat /\ FoldSrc(job) + i + 1 <= SharedEnd
        /\ 176 + i + 1 <= TcmEnd
    BY ONLY <1>3, <1>5, Ends
  <2>2. LET m == Copy(shared, FoldSrc(job) + i, tcm, 176 + i, 1) IN
        /\ m \in [0 .. TcmEnd - 1 -> Int]
        /\ \A g \in 0 .. TcmEnd - 1 :
              g < 176 + i \/ 176 + i + 1 <= g => m[g] = tcm[g]
        /\ Placed(m, 176, FoldSrc(job), i + 1)
    BY ONLY <1>3, <1>4, <1>5, <2>1, Grow
  <2> QED BY <1>6, <2>2
<1>8. Typed'
  BY <1>1, <1>2, <1>5, <1>7 DEF Typed, Phases
<1>9. BatchSafe'
  <2>1. ASSUME NEW g \in Scratch .. Scratch + 3 PROVE tcm'[g] = -1 - g
    <3>1. g \in 0 .. TcmEnd - 1 /\ g < 176 + i
      BY <1>5 DEF Scratch
    <3>2. tcm'[g] = tcm[g]
      BY ONLY <3>1, <1>7
    <3>3. tcm[g] = -1 - g
      BY <1>1, <2>1 DEF Staged, BatchSafe
    <3> QED BY ONLY <3>2, <3>3
  <2> QED BY ONLY <2>1 DEF BatchSafe
<1>10. Placed(tcm', 144, ParamSrc(job), Params(job))
  <2>1. Placed(tcm, 144, ParamSrc(job), Params(job)) /\ Params(job) \in {16, 32}
    BY <1>1, <1>2, Sizes DEF Staged, Param
  <2>2. ASSUME NEW g \in 0 .. Params(job) - 1 PROVE tcm'[144 + g] = ParamSrc(job) + g
    <3>1. 144 + g \in 0 .. TcmEnd - 1 /\ (144 + g < 176 + i)
      BY ONLY <2>1, <1>5, Ends, g \in 0 .. Params(job) - 1
    <3>2. tcm'[144 + g] = tcm[144 + g]
      BY ONLY <3>1, <1>7
    <3> QED BY <2>1, <3>2 DEF Placed
  <2> QED BY <2>2 DEF Placed
<1>12. Staged'
  BY <1>2, <1>4, <1>5, <1>7, <1>9, <1>10 DEF Staged, Moved, Param, Fold
<1> QED BY <1>1, <1>2, <1>8, <1>12 DEF IInv

LEMMA ActsInv == ASSUME IInv, Fits(job), StageActs PROVE IInv'
<1>1. Typed /\ Legal(job) /\ Staged /\ WellFormed(job)
  BY DEF IInv, StageActs, Loop
<1>2. /\ job' = job /\ shared' = shared /\ i' = i + 16
      /\ phase = "acts" /\ phase' = "acts"
  BY DEF StageActs, Loop, Block
<1>3. /\ Weights(job) \in Nat /\ ActSrc(job) \in Nat /\ Weights(job) <= ActSrc(job)
      /\ ActSrc(job) + Acts(job) <= SharedEnd
  BY <1>1, Sizes
<1>4. /\ Placed(tcm, 74, ActSrc(job), i) /\ Moved(Weights(job))
      /\ tcm \in [0 .. TcmEnd - 1 -> Int] /\ shared \in [0 .. SharedEnd - 1 -> Int]
  BY <1>1, <1>2 DEF Typed, Staged, OpA
<1>5. /\ Acts(job) \in {16, 32} /\ i \in Nat /\ i + 16 <= Acts(job) /\ (i + 16) % 16 = 0
  <2>1. Acts(job) \in {16, 32}
    BY <1>1, Sizes
  <2>2. i \in Nat /\ i % 16 = 0 /\ i < Acts(job)
    BY <1>1, <1>2 DEF Typed, Staged, Block, StageActs, Loop
  <2> QED BY ONLY <2>1, <2>2
<1>6. tcm' = Copy(shared, ActSrc(job) + i, tcm, 74 + i, 16)
  BY DEF StageActs, OpA, Block
<1>7. /\ tcm' \in [0 .. TcmEnd - 1 -> Int]
      /\ \A g \in 0 .. TcmEnd - 1 :
            g < 74 + i \/ 74 + i + 16 <= g => tcm'[g] = tcm[g]
      /\ Placed(tcm', 74, ActSrc(job), i + 16)
  <2>1. /\ 74 \in Nat /\ 16 \in Nat /\ ActSrc(job) + i + 16 <= SharedEnd
        /\ 74 + i + 16 <= TcmEnd
    BY ONLY <1>3, <1>5, Ends
  <2>2. LET m == Copy(shared, ActSrc(job) + i, tcm, 74 + i, 16) IN
        /\ m \in [0 .. TcmEnd - 1 -> Int]
        /\ \A g \in 0 .. TcmEnd - 1 :
              g < 74 + i \/ 74 + i + 16 <= g => m[g] = tcm[g]
        /\ Placed(m, 74, ActSrc(job), i + 16)
    BY ONLY <1>3, <1>4, <1>5, <2>1, Grow
  <2> QED BY <1>6, <2>2
<1>8. Typed'
  BY <1>1, <1>2, <1>5, <1>7 DEF Typed, Phases
<1>9. BatchSafe'
  <2>1. ASSUME NEW g \in Scratch .. Scratch + 3 PROVE tcm'[g] = -1 - g
    <3>1. g \in 0 .. TcmEnd - 1 /\ 74 + (i + 16) <= g /\ 74 + i + 16 = 74 + (i + 16)
      BY <1>5 DEF Scratch
    <3>2. tcm'[g] = tcm[g]
      BY ONLY <3>1, <1>7
    <3>3. tcm[g] = -1 - g
      BY <1>1, <2>1 DEF Staged, BatchSafe
    <3> QED BY ONLY <3>2, <3>3
  <2> QED BY ONLY <2>1 DEF BatchSafe
<1>10. Placed(tcm', 144, ParamSrc(job), Params(job))
  <2>1. Placed(tcm, 144, ParamSrc(job), Params(job)) /\ Params(job) \in {16, 32}
    BY <1>1, <1>2, Sizes DEF Staged, Param
  <2>2. ASSUME NEW g \in 0 .. Params(job) - 1 PROVE tcm'[144 + g] = ParamSrc(job) + g
    <3>1. 144 + g \in 0 .. TcmEnd - 1 /\ (74 + i + 16 <= 144 + g)
      BY ONLY <2>1, <1>5, Ends, g \in 0 .. Params(job) - 1
    <3>2. tcm'[144 + g] = tcm[144 + g]
      BY ONLY <3>1, <1>7
    <3> QED BY <2>1, <3>2 DEF Placed
  <2> QED BY <2>2 DEF Placed
<1>11. Placed(tcm', 176, FoldSrc(job), Folds(job))
  <2>1. Placed(tcm, 176, FoldSrc(job), Folds(job)) /\ Folds(job) \in {8, 16}
    BY <1>1, <1>2, Sizes DEF Staged, Fold
  <2>2. ASSUME NEW g \in 0 .. Folds(job) - 1 PROVE tcm'[176 + g] = FoldSrc(job) + g
    <3>1. 176 + g \in 0 .. TcmEnd - 1 /\ (74 + i + 16 <= 176 + g)
      BY ONLY <2>1, <1>5, Ends, g \in 0 .. Folds(job) - 1
    <3>2. tcm'[176 + g] = tcm[176 + g]
      BY ONLY <3>1, <1>7
    <3> QED BY <2>1, <3>2 DEF Placed
  <2> QED BY <2>2 DEF Placed
<1>12. Staged'
  BY <1>2, <1>4, <1>5, <1>7, <1>9, <1>10, <1>11
  DEF Staged, Moved, Param, Fold, OpA, Block
<1> QED BY <1>1, <1>2, <1>8, <1>12 DEF IInv

\* The end of a loop: what it has placed is all there was to place.
LEMMA TurnInv == ASSUME IInv, Fits(job), Turn PROVE IInv'
<1>1. Typed /\ Legal(job) /\ Staged /\ WellFormed(job)
  BY DEF IInv, Turn, Leave
<1>2. job' = job /\ i' = 0 /\ tcm' = tcm /\ shared' = shared
  BY DEF Turn, Leave
<1>3. /\ i \in Nat /\ Weights(job) \in Nat /\ Params(job) \in Nat /\ Folds(job) \in Nat
      /\ Acts(job) \in Nat
  BY <1>1, SizeTypes DEF Typed
<1>4. Typed' /\ BatchSafe' /\ WellFormed(job) /\ Legal(job)
  BY <1>1, <1>2 DEF Typed, Phases, Staged, BatchSafe, Turn, Leave
<1>5. CASE Leave("weights", Weights(job), "params")
  <2>1. phase' = "params" /\ i = Weights(job)
    BY <1>1, <1>3, <1>5 DEF Leave, Staged
  <2>2. Moved(Weights(job))'
    BY <1>1, <1>2, <1>5, <2>1 DEF Leave, Staged, Moved
  <2>3. Placed(tcm', Param, ParamSrc(job), 0)
    BY DEF Placed
  <2> QED BY <1>2, <1>3, <1>4, <2>1, <2>2, <2>3 DEF IInv, Staged
<1>6. CASE Leave("params", Params(job), "folds")
  <2>1. phase' = "folds" /\ i = Params(job) /\ phase = "params"
    BY <1>1, <1>3, <1>6 DEF Leave, Staged
  <2>2. Moved(Weights(job))' /\ Placed(tcm', Param, ParamSrc(job), Params(job))
    BY <1>1, <1>2, <2>1 DEF Staged, Moved
  <2>3. Placed(tcm', Fold, FoldSrc(job), 0)
    BY DEF Placed
  <2> QED BY <1>2, <1>3, <1>4, <2>1, <2>2, <2>3 DEF IInv, Staged
<1>7. CASE Leave("folds", Folds(job), "acts")
  <2>1. phase' = "acts" /\ i = Folds(job) /\ phase = "folds"
    BY <1>1, <1>3, <1>7 DEF Leave, Staged
  <2>2. /\ Moved(Weights(job))' /\ Placed(tcm', Param, ParamSrc(job), Params(job))
        /\ Placed(tcm', Fold, FoldSrc(job), Folds(job))
    BY <1>1, <1>2, <2>1 DEF Staged, Moved
  <2>3. Placed(tcm', OpA, ActSrc(job), 0) /\ 0 % Block = 0
    BY DEF Placed, Block
  <2> QED BY <1>2, <1>3, <1>4, <2>1, <2>2, <2>3 DEF IInv, Staged
<1>8. CASE Leave("acts", Acts(job), "go")
  <2>1. phase' = "go" /\ i = Acts(job) /\ phase = "acts"
    BY <1>1, <1>3, <1>8 DEF Leave, Staged
  <2>2. /\ Moved(Weights(job))' /\ Placed(tcm', Param, ParamSrc(job), Params(job))
        /\ Placed(tcm', Fold, FoldSrc(job), Folds(job))
        /\ Placed(tcm', OpA, ActSrc(job), Acts(job))
    BY <1>1, <1>2, <2>1 DEF Staged, Moved
  <2> QED BY <1>2, <1>3, <1>4, <2>1, <2>2 DEF IInv, Staged
<1> QED BY <1>5, <1>6, <1>7, <1>8 DEF Turn

LEMMA NextInv == ASSUME IInv, [Next]_vars PROVE IInv'
<1>1. CASE ~Fits(job)
  <2>1. job' = job
    BY DEF Next, vars, Check, Header, Compact, StageParams, StageFolds, StageActs,
           Turn, Loop, Leave
  <2> QED BY <1>1, <2>1 DEF IInv
<1>2. CASE Fits(job) /\ UNCHANGED vars
  BY <1>2 DEF vars, IInv, Typed, Staged, BatchSafe, Moved
<1>3. CASE Fits(job) /\ Next
  BY <1>3, CheckInv, HeaderInv, CompactInv, ParamsInv, FoldsInv, ActsInv, TurnInv
  DEF Next
<1> QED BY <1>1, <1>2, <1>3

\* Slots of the batch lie in the scratch area, the staged parts are in place.
LEMMA InvStaged == ASSUME IInv PROVE StagedWhenFits
<1> SUFFICES ASSUME Fits(job), phase = "go" PROVE StagedIntact
  BY DEF StagedWhenFits, StagedIntact
<1>1. Staged /\ WellFormed(job)
  BY DEF IInv
<1>2. Placed(shared, 0, Hdr, Weights(job))
  BY <1>1 DEF Staged, Moved, Placed, Hdr
<1>3. BatchKept(job)
  <2>1. ASSUME NEW b \in job.next .. job.upto - 1
        PROVE  Scratch + b \div 2 \in Scratch .. Scratch + 3
    BY <1>1 DEF WellFormed, Scratch
  <2> QED BY <1>1, <2>1 DEF Staged, BatchSafe, BatchKept
<1> QED BY <1>1, <1>2, <1>3 DEF Staged, StagedIntact

\* Every job with at most two strips and two chunks whose weights fill whole
\* blocks is staged as the ML controller expects it, and the rest of its batch
\* survives, wherever the job lies and however large its strips are.
THEOREM StagingFits ==
    ASSUME \A j \in Jobs : WellFormed(j)
    PROVE  Spec => []StagedWhenFits
<1>1. Init => IInv
  BY InitInv
<1>2. IInv /\ [Next]_vars => IInv'
  BY NextInv
<1>3. IInv => StagedWhenFits
  BY InvStaged
<1> QED BY <1>1, <1>2, <1>3, PTL DEF Spec
=============================================================================
