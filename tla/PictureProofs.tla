----------------------------- MODULE PictureProofs -----------------------------
(***************************************************************************)
(* What is proved of the pictures the H.264 decoder builds: that their     *)
(* order counts are those the stream means, for every range of frame_num   *)
(* and of the low part of a count (Poc); that prediction reads the samples *)
(* next to it, for every size of picture and any slices (Neighbours); and  *)
(* that the reference lists of a slice hold every reference once, in the   *)
(* order of its type, with the pictures that the commands name in front,   *)
(* for any buffer and any commands (RefLists).                             *)
(***************************************************************************)
EXTENDS Poc, Neighbours, RefLists, SequenceTheorems, FiniteSetTheorems, WellFoundedInduction, TLAPS

(***************************************************************************)
(* Arithmetic and induction.                                               *)
(***************************************************************************)
(* Induction over the naturals, from the least element of the set of        *)
(* counterexamples.                                                        *)
LEMMA Induction ==
    ASSUME NEW S, S \subseteq Nat, 0 \in S, \A n \in Nat : n \in S => n + 1 \in S
    PROVE  S = Nat
<1> DEFINE Less == OpToRel(<, Nat)
<1>1. IsWellFoundedOn(Less, Nat) /\ \A x, y \in Nat : <<x, y>> \in Less <=> x < y
  BY NatLessThanWellFounded DEF OpToRel
<1> HIDE DEF Less
<1> SUFFICES ASSUME Nat \ S # {} PROVE FALSE
  OBVIOUS
<1>2. PICK x \in Nat \ S : \A y \in Nat \ S : <<y, x>> \notin Less
  BY <1>1, WFMin, ZenonT(60)
<1>3. x - 1 \in Nat /\ x - 1 < x /\ (x - 1) + 1 = x
  BY <1>2
<1>4. x - 1 \in S
  BY <1>1, <1>2, <1>3
<1> QED BY <1>2, <1>3, <1>4

(* The row and the column of a number counted row by row.                   *)
LEMMA DivMod ==
    ASSUME NEW w \in Nat \ {0}, NEW r \in Int, NEW c \in 0..w - 1
    PROVE  (r * w + c) \div w = r /\ (r * w + c) % w = c
<1> DEFINE k == r * w + c
           q == k \div w
           m == k % w
<1>1. k \in Int /\ q \in Int /\ m \in 0..w - 1 /\ k = w * q + m
  OBVIOUS
<1>2. w * (q - r) = c - m
  BY <1>1
<1>3. q = r
  <2>1. CASE q >= r + 1
    <3>1. w * (q - r) >= w
      BY <1>1, <2>1
    <3>2. QED
      BY <1>1, <1>2, <3>1
  <2>2. CASE q <= r - 1
    <3>1. w * (q - r) <= -w
      BY <1>1, <2>2
    <3>2. QED
      BY <1>1, <1>2, <3>1
  <2>3. QED
    BY <1>1, <2>1, <2>2
<1>4. QED
  BY <1>1, <1>3

-----------------------------------------------------------------------------
(***************************************************************************)
(* decode_poc.  Every fact is linear: the stream's counts move by one      *)
(* multiple of a range at a time, as do the decoder's.                     *)
(***************************************************************************)
LEMMA HalfFact == Half \in Nat /\ Half > 0 /\ 2 * Half = MaxPicOrderCntLsb
  BY LsbAssumption DEF Half

(* The nearest count with a given low part is the one the stream meant.    *)
LEMMA MsbFindsIt ==
    ASSUME NEW m0 \in Int, NEW l0 \in 0..MaxPicOrderCntLsb - 1, NEW l \in 0..MaxPicOrderCntLsb - 1,
           NEW h \in {m0 - MaxPicOrderCntLsb, m0, m0 + MaxPicOrderCntLsb},
           h + l - (m0 + l0) \in 1 - Half..Half
    PROVE  Msb(l, m0, l0) = h
  BY HalfFact, LsbAssumption DEF Msb

-----------------------------------------------------------------------------
(* What the stream has sent, and for each type what the decoder has of it. *)
StreamOK == /\ frame_num \in 0..MaxFrameNum - 1 /\ abs \in Nat /\ ref \in BOOLEAN
            /\ msb \in Int /\ lsb \in 0..MaxPicOrderCntLsb - 1

(* Type 0: the decoder's two parts are the stream's.                       *)
SameParts == /\ StreamOK /\ last_has_mmco_5 = FALSE
             /\ PrevPicOrderCntMsb = msb /\ PrevPicOrderCntLsb = lsb
             /\ PocCorrect

(* Types 1 and 2: the decoder's offset and last number make up the         *)
(* complete count; for type 2 that of the last reference picture.          *)
CountersOK == /\ StreamOK
              /\ PreviousFrameNum \in 0..MaxFrameNum - 1 /\ PreviousFrameNumOffset \in Nat
              /\ last_has_mmco_5 \in BOOLEAN
              /\ last_has_mmco_5 => frame_num = 0 /\ abs = 0 /\ ref

OffsetCounts == PreviousOffset + PreviousNum = abs /\ PreviousNum = frame_num

OffsetCountsReferences ==
    IF ref THEN OffsetCounts
    ELSE PreviousOffset + PreviousNum + 1 = abs /\ PreviousNum + 1 = frame_num

CountsKept == /\ pic_order_cnt_type \in {0, 1, 2}
              /\ pic_order_cnt_type = 0 => SameParts
              /\ pic_order_cnt_type = 1 => CountersOK /\ OffsetCounts /\ (ref \/ abs > 0) /\ PocCorrect
              /\ pic_order_cnt_type = 2 => CountersOK /\ OffsetCountsReferences /\ PocCorrect

-----------------------------------------------------------------------------
(* The start and an IDR picture reset what the type they choose uses.      *)
LEMMA InitKept == PocInit => CountsKept
<1> SUFFICES ASSUME PocInit PROVE CountsKept
  OBVIOUS
<1>1. StreamOK
  BY FrameNumAssumption, LsbAssumption DEF PocInit, StreamOK
<1>2. PreviousFrameNum \in 0..MaxFrameNum - 1 /\ PreviousFrameNumOffset \in Nat
  BY FrameNumAssumption DEF PocInit
<1>3. last_has_mmco_5 = FALSE /\ ref = TRUE
  BY DEF PocInit
<1>4. CountersOK
  BY <1>1, <1>2, <1>3 DEF CountersOK
<1>5. OffsetCounts
  BY DEF PocInit, OffsetCounts, PreviousOffset, PreviousNum
<1>6. PocCorrect /\ PrevPicOrderCntMsb = msb /\ PrevPicOrderCntLsb = lsb
  BY DEF PocInit, PocCorrect
<1>7. pic_order_cnt_type \in {0, 1, 2}
  BY TypesAssumption DEF PocInit
<1> QED BY <1>1, <1>3, <1>4, <1>5, <1>6, <1>7 DEF CountsKept, SameParts, OffsetCountsReferences

LEMMA IdrKept == Idr => CountsKept'
<1> SUFFICES ASSUME Idr PROVE CountsKept'
  OBVIOUS
<1>1. StreamOK'
  BY FrameNumAssumption, LsbAssumption DEF Idr, StreamOK
<1>2. /\ last_has_mmco_5' = FALSE /\ ref' = TRUE /\ PocCorrect'
      /\ pic_order_cnt_type' \in {0, 1, 2}
  BY TypesAssumption DEF Idr, PocCorrect
<1>3. pic_order_cnt_type' = 0 => SameParts'
  <2>1. pic_order_cnt_type' = 0 => PrevPicOrderCntMsb' = msb' /\ PrevPicOrderCntLsb' = lsb'
    BY DEF Idr
  <2> QED BY <1>1, <1>2, <2>1 DEF SameParts
<1>4. pic_order_cnt_type' # 0 => CountersOK' /\ OffsetCounts'
  <2> SUFFICES ASSUME pic_order_cnt_type' # 0 PROVE CountersOK' /\ OffsetCounts'
    OBVIOUS
  <2>1. PreviousFrameNum' \in 0..MaxFrameNum - 1 /\ PreviousFrameNumOffset' \in Nat
    BY FrameNumAssumption DEF Idr
  <2>2. CountersOK'
    BY <1>1, <1>2, <2>1 DEF CountersOK
  <2> QED BY <2>2 DEF Idr, OffsetCounts, PreviousOffset, PreviousNum
<1> QED BY <1>2, <1>3, <1>4 DEF CountsKept, OffsetCountsReferences

-----------------------------------------------------------------------------
(* A picture of each type.                                                 *)
LEMMA Type0Picture ==
    ASSUME pic_order_cnt_type = 0, 0 \notin Mmco5Types, SameParts,
           NEW h \in {msb - MaxPicOrderCntLsb, msb, msb + MaxPicOrderCntLsb},
           NEW l \in 0..MaxPicOrderCntLsb - 1, NEW r \in BOOLEAN, NEW m \in BOOLEAN,
           Picture(h, l, r, m)
    PROVE  SameParts'
<1>1. ~m
  BY DEF Picture
<1>2. Msb(l, msb, lsb) = h
  <2>1. h + l - (msb + lsb) \in 1 - Half..Half
    BY DEF Picture, LegalCounts
  <2> QED BY <2>1, MsbFindsIt DEF SameParts, StreamOK
<1>3. Poc0(NextNumber, l, r)
  BY DEF Picture, decode_poc
<1>4. /\ toppoc' = h + l
      /\ PrevPicOrderCntMsb' = IF r THEN h ELSE msb
      /\ PrevPicOrderCntLsb' = IF r THEN l ELSE lsb
  BY <1>2, <1>3 DEF Poc0, SameParts
<1>5. /\ frame_num' = NextNumber /\ abs' = NextAbs /\ ref' = r
      /\ msb' = (IF r THEN h ELSE msb) /\ lsb' = (IF r THEN l ELSE lsb)
      /\ intended' = h + l
  BY <1>1 DEF Picture, NextPoc
<1>6. last_has_mmco_5' = FALSE /\ framepoc' = toppoc'
  BY <1>1 DEF Picture, EndOfPicture
<1>7. StreamOK'
  BY <1>5, FrameNumAssumption, LsbAssumption DEF SameParts, StreamOK, NextNumber, NextAbs
<1> QED BY <1>4, <1>5, <1>6, <1>7 DEF SameParts, PocCorrect

-----------------------------------------------------------------------------
(***************************************************************************)
(* The recursive functions of type 1, SumTo and Ideal: that the sums they  *)
(* are defined by exist, and what Ideal is in closed form.                 *)
(***************************************************************************)
LEMMA CycleFact == Cycle \in Nat /\ \A k \in 1..Cycle : offset_for_ref_frame[k] \in Int
  BY OffsetsAssumption DEF Cycle

(* There is a function with the sums of the first steps of a cycle, ...    *)
LEMMA SumsExist ==
    \E f \in [0..Cycle -> Int] :
        f[0] = 0 /\ \A k \in 1..Cycle : f[k] = f[k - 1] + offset_for_ref_frame[k]
<1> DEFINE Sums(n, f) == f \in [0..n -> Int] /\ f[0] = 0
                         /\ \A k \in 1..n : f[k] = f[k - 1] + offset_for_ref_frame[k]
           S == {n \in Nat : n <= Cycle => \E f : Sums(n, f)}
<1>1. 0 \in S
  <2>1. Sums(0, [k \in 0..0 |-> 0])
    OBVIOUS
  <2> QED BY <2>1
<1>2. ASSUME NEW n \in Nat, n \in S PROVE n + 1 \in S
  <2> SUFFICES ASSUME n + 1 <= Cycle PROVE \E f : Sums(n + 1, f)
    OBVIOUS
  <2>1. PICK f : Sums(n, f)
    BY <1>2, CycleFact
  <2> DEFINE g == [k \in 0..n + 1 |-> IF k <= n THEN f[k] ELSE f[n] + offset_for_ref_frame[n + 1]]
  <2>2. g \in [0..n + 1 -> Int] /\ g[0] = 0
    BY <2>1, CycleFact
  <2>3. ASSUME NEW k \in 1..n + 1 PROVE g[k] = g[k - 1] + offset_for_ref_frame[k]
    BY <2>1, <2>3
  <2>4. Sums(n + 1, g)
    BY <2>2, <2>3
  <2> QED BY <2>4
<1>3. S = Nat
  <2> HIDE DEF S
  <2>1. S \subseteq Nat
    BY DEF S
  <2> QED BY <1>1, <1>2, <2>1, Induction
<1>4. \E f : Sums(Cycle, f)
  <2> HIDE DEF Sums
  <2>1. Cycle \in S
    BY ONLY <1>3, CycleFact
  <2> QED BY <2>1, CycleFact
<1> QED BY <1>4

(* ... and SumTo is one.                                                   *)
LEMMA SumToIs ==
    /\ SumTo \in [0..Cycle -> Int] /\ SumTo[0] = 0
    /\ \A k \in 1..Cycle : SumTo[k] = SumTo[k - 1] + offset_for_ref_frame[k]
<1> DEFINE Is(f) == f = [k \in 0..Cycle |-> IF k = 0 THEN 0 ELSE f[k - 1] + offset_for_ref_frame[k]]
           S == {n \in Nat : n <= Cycle => SumTo[n] \in Int}
<1>1. \E f : Is(f)
  <2>1. PICK f \in [0..Cycle -> Int] :
            f[0] = 0 /\ \A k \in 1..Cycle : f[k] = f[k - 1] + offset_for_ref_frame[k]
    BY SumsExist
  <2>2. Is(f)
    BY <2>1, CycleFact
  <2> QED BY <2>2
<1>2. SumTo = CHOOSE f : Is(f)
  BY DEF SumTo
<1>3. Is(SumTo)
  <2> HIDE DEF Is
  <2> QED BY <1>1, <1>2
<1>4. /\ DOMAIN SumTo = 0..Cycle /\ SumTo[0] = 0
      /\ \A k \in 1..Cycle : SumTo[k] = SumTo[k - 1] + offset_for_ref_frame[k]
  BY <1>3, CycleFact
<1>5. 0 \in S /\ \A n \in Nat : n \in S => n + 1 \in S
  BY <1>4, CycleFact
<1>6. S = Nat
  <2> HIDE DEF S
  <2>1. S \subseteq Nat
    BY DEF S
  <2> QED BY <1>5, <2>1, Induction
<1>7. \A k \in 0..Cycle : SumTo[k] \in Int
  BY <1>6, CycleFact
<1> QED BY <1>3, <1>4, <1>7

(* What a type-1 count is worth after n reference pictures, from its       *)
(* cycles: each step of the stream adds one term of the cycle.             *)
Summed(n) == IF n = 0 \/ Cycle = 0 THEN 0
             ELSE ((n - 1) \div Cycle) * SumTo[Cycle] + SumTo[((n - 1) % Cycle) + 1]

LEMMA QuotientAndRest ==
    ASSUME NEW c \in Nat \ {0}, NEW n \in Nat
    PROVE  /\ n \div c \in Nat /\ n % c \in 0..c - 1
           /\ IF n % c = c - 1 THEN (n + 1) \div c = (n \div c) + 1 /\ (n + 1) % c = 0
              ELSE (n + 1) \div c = n \div c /\ (n + 1) % c = (n % c) + 1
<1> DEFINE q == n \div c
           m == n % c
<1>1. q \in Int /\ m \in 0..c - 1 /\ n = c * q + m
  OBVIOUS
<1> HIDE DEF q, m
<1>2. q \in Nat
  <2> SUFFICES ASSUME q <= -1 PROVE FALSE
    BY <1>1
  <2>1. c * q <= -c
    BY <1>1
  <2> QED BY <1>1, <2>1
<1>3. ASSUME NEW r \in Int, NEW k \in 0..c - 1, n + 1 = r * c + k
      PROVE  (n + 1) \div c = r /\ (n + 1) % c = k
  BY <1>3, DivMod
<1>4. CASE m = c - 1
  <2>1. n + 1 = (q + 1) * c + 0 /\ 0 \in 0..c - 1 /\ q + 1 \in Int
    BY <1>1, <1>4
  <2>2. (n + 1) \div c = q + 1 /\ (n + 1) % c = 0
    BY <2>1, <1>3
  <2> QED BY <1>1, <1>2, <1>4, <2>2 DEF q, m
<1>5. CASE m # c - 1
  <2>1. n + 1 = q * c + (m + 1) /\ m + 1 \in 0..c - 1
    BY <1>1, <1>5
  <2>2. (n + 1) \div c = q /\ (n + 1) % c = m + 1
    BY <1>1, <2>1, <1>3
  <2> QED BY <1>1, <1>2, <1>5, <2>2 DEF q, m
<1> QED BY <1>4, <1>5

LEMMA SummedStep ==
    ASSUME Cycle # 0, NEW n \in Nat
    PROVE  /\ Summed(n) \in Int
           /\ Summed(n + 1) = Summed(n) + offset_for_ref_frame[(n % Cycle) + 1]
<1> DEFINE q == n \div Cycle
           m == n % Cycle
           s == SumTo[Cycle]
<1>1. /\ Cycle \in Nat \ {0} /\ q \in Nat /\ m \in 0..Cycle - 1 /\ s \in Int
      /\ SumTo[m] \in Int /\ SumTo[m + 1] \in Int
      /\ SumTo[m + 1] = SumTo[m] + offset_for_ref_frame[m + 1]
      /\ offset_for_ref_frame[m + 1] \in Int
  <2>1. Cycle \in Nat \ {0}
    BY CycleFact
  <2>2. q \in Nat /\ m \in 0..Cycle - 1
    BY <2>1, QuotientAndRest
  <2> HIDE DEF q, m
  <2> QED BY <2>1, <2>2, CycleFact, SumToIs
<1>2. Summed(n + 1) = q * s + SumTo[m + 1]
  BY <1>1 DEF Summed
<1>3. Summed(n) = q * s + SumTo[m]
  <2>1. CASE n = 0
    <3>1. q = 0 /\ m = 0
      BY <2>1, <1>1
    <3> QED BY <3>1, <2>1, <1>1, SumToIs DEF Summed
  <2>2. CASE n # 0
    <3> DEFINE p == n - 1
    <3>1. p \in Nat /\ p + 1 = n
      BY <2>2
    <3> HIDE DEF p
    <3>2. Summed(n) = (p \div Cycle) * s + SumTo[(p % Cycle) + 1]
      BY <2>2, <3>1, <1>1 DEF Summed, p
    <3>3. p \div Cycle \in Nat /\ p % Cycle \in 0..Cycle - 1
      BY <3>1, <1>1, QuotientAndRest
    <3>4. CASE p % Cycle = Cycle - 1
      <4>1. q = (p \div Cycle) + 1 /\ m = 0
        BY <3>1, <3>4, <1>1, QuotientAndRest
      <4>2. Summed(n) = (p \div Cycle) * s + s /\ q * s = (p \div Cycle) * s + s
        <5> DEFINE d == p \div Cycle
        <5>1. d \in Nat /\ q = d + 1 /\ s \in Int
          BY <3>3, <4>1, <1>1
        <5>2. Summed(n) = d * s + s
          BY <3>2, <3>4, <1>1
        <5> HIDE DEF d, q, s
        <5>3. q * s = d * s + s
          BY <5>1
        <5> QED BY <5>2, <5>3 DEF d
      <4>3. SumTo[m] = 0 /\ q * s \in Int
        BY <4>1, SumToIs, <1>1
      <4> QED BY <4>2, <4>3
    <3>5. CASE p % Cycle # Cycle - 1
      <4>1. q = p \div Cycle /\ m = (p % Cycle) + 1
        BY <3>1, <3>5, <1>1, QuotientAndRest
      <4> QED BY <3>2, <4>1
    <3> QED BY <3>4, <3>5
  <2> QED BY <2>1, <2>2
<1>4. q * s \in Int
  BY <1>1
<1> QED BY <1>1, <1>2, <1>3, <1>4

(* Adding one step at a time and adding whole cycles come to the same.     *)
LEMMA IdealIs == \A n \in Nat : Ideal[n] = Summed(n)
<1> DEFINE Is(f) == f = [n \in Nat |-> IF n = 0 \/ Cycle = 0 THEN 0
                                       ELSE f[n - 1] + offset_for_ref_frame[((n - 1) % Cycle) + 1]]
           S == {n \in Nat : Ideal[n] = Summed(n)}
<1>1. Is([n \in Nat |-> Summed(n)])
  <2> DEFINE f == [n \in Nat |-> Summed(n)]
  <2>1. ASSUME NEW n \in Nat
        PROVE  f[n] = IF n = 0 \/ Cycle = 0 THEN 0
                      ELSE f[n - 1] + offset_for_ref_frame[((n - 1) % Cycle) + 1]
    <3>1. CASE n = 0 \/ Cycle = 0
      BY <3>1 DEF Summed
    <3>2. CASE ~(n = 0 \/ Cycle = 0)
      <4>1. n - 1 \in Nat /\ (n - 1) + 1 = n
        BY <3>2
      <4>2. f[n - 1] = Summed(n - 1) /\ f[n] = Summed(n)
        BY <4>1
      <4>3. Summed((n - 1) + 1) = Summed(n - 1) + offset_for_ref_frame[((n - 1) % Cycle) + 1]
        BY <3>2, <4>1, SummedStep
      <4> QED BY <3>2, <4>1, <4>2, <4>3
    <3> QED BY <3>1, <3>2
  <2> QED BY <2>1
<1>2. Ideal = CHOOSE f : Is(f)
  BY DEF Ideal
<1>3. Is(Ideal)
  <2> HIDE DEF Is
  <2> QED BY <1>1, <1>2
<1>4. 0 \in S
  BY <1>3 DEF Summed
<1>5. ASSUME NEW n \in Nat, n \in S PROVE n + 1 \in S
  <2>1. Ideal[n + 1] = IF Cycle = 0 THEN 0 ELSE Ideal[n] + offset_for_ref_frame[(n % Cycle) + 1]
    BY <1>3
  <2>2. Ideal[n] = Summed(n)
    BY <1>5
  <2> HIDE DEF Is
  <2>3. Ideal[n + 1] = Summed(n + 1)
    <3>1. CASE Cycle = 0
      BY <2>1, <3>1 DEF Summed
    <3>2. CASE Cycle # 0
      BY <2>1, <2>2, <3>2, SummedStep
    <3> QED BY <3>1, <3>2
  <2> QED BY <2>3
<1>6. S = Nat
  <2> HIDE DEF S, Is
  <2>1. S \subseteq Nat
    BY DEF S
  <2> QED BY <1>4, <1>5, <2>1, Induction
<1> QED BY <1>6

(* decode_poc's count of a type-1 picture.                                 *)
LEMMA ExpectedIs ==
    ASSUME NEW n \in Nat, NEW disposable \in BOOLEAN, disposable => n > 0
    PROVE  Expected(n, disposable) = IF disposable THEN Ideal[n - 1] + offset_for_non_ref_pic
                                     ELSE Ideal[n]
<1>1. Ideal[n] = Summed(n) /\ (n > 0 => Ideal[n - 1] = Summed(n - 1))
  BY IdealIs
<1>2. Summed(n) \in Int /\ (n > 0 => Summed(n - 1) \in Int) /\ offset_for_non_ref_pic \in Int
  <2>1. ASSUME NEW k \in Nat PROVE Summed(k) \in Int
    BY SummedStep DEF Summed
  <2> QED BY <2>1, OffsetsAssumption
<1>3. CASE disposable
  <2>1. Expected(n, disposable) = Summed(n - 1) + offset_for_non_ref_pic
    BY <1>3, CycleFact DEF Expected, Summed
  <2> QED BY <1>1, <1>3, <2>1
<1>4. CASE ~disposable
  <2>1. Expected(n, disposable) = Summed(n) + 0
    BY <1>4, CycleFact DEF Expected, Summed
  <2> QED BY <1>1, <1>2, <1>4, <2>1
<1> QED BY <1>3, <1>4
-----------------------------------------------------------------------------
(* What a picture leaves of the stream's counts.                           *)
LEMMA NextStreamOK ==
    ASSUME CountersOK, pic_order_cnt_type # 0, NEW r \in BOOLEAN, NEW m \in BOOLEAN,
           Picture(0, 0, r, m)
    PROVE  /\ StreamOK' /\ NextNumber \in 0..MaxFrameNum - 1 /\ NextAbs \in Nat
           /\ last_has_mmco_5' = m /\ (m => r /\ frame_num' = 0 /\ abs' = 0 /\ ref' = TRUE)
           /\ ~m => frame_num' = NextNumber /\ abs' = NextAbs /\ ref' = r
           /\ framepoc' = IF m THEN 0 ELSE toppoc'
           /\ intended' = IF m THEN 0 ELSE NextPoc(0, 0, r)
<1>1. NextNumber \in 0..MaxFrameNum - 1 /\ NextAbs \in Nat
  BY FrameNumAssumption DEF CountersOK, StreamOK, NextNumber, NextAbs
<1>2. /\ last_has_mmco_5' = m /\ (m => r /\ frame_num' = 0 /\ abs' = 0 /\ ref' = TRUE)
      /\ ~m => frame_num' = NextNumber /\ abs' = NextAbs /\ ref' = r
      /\ framepoc' = IF m THEN 0 ELSE toppoc'
      /\ intended' = IF m THEN 0 ELSE NextPoc(0, 0, r)
  BY DEF Picture, EndOfPicture
<1>3. StreamOK'
  <2>1. msb' \in Int /\ lsb' \in 0..MaxPicOrderCntLsb - 1
    BY LsbAssumption DEF Picture, CountersOK, StreamOK
  <2>2. frame_num' \in 0..MaxFrameNum - 1 /\ abs' \in Nat
    BY <1>1, <1>2, FrameNumAssumption
  <2>3. ref' \in BOOLEAN
    BY <1>2
  <2> QED BY <2>1, <2>2, <2>3 DEF StreamOK
<1> QED BY <1>1, <1>2, <1>3

LEMMA Type1Picture ==
    ASSUME pic_order_cnt_type = 1, CountersOK, OffsetCounts, ref \/ abs > 0,
           NEW r \in BOOLEAN, NEW m \in BOOLEAN, Picture(0, 0, r, m)
    PROVE  CountersOK' /\ OffsetCounts' /\ (ref \/ abs > 0)' /\ PocCorrect'
<1> DEFINE offset == Offset(NextNumber, PreviousOffset, PreviousNum)
<1>1. /\ StreamOK' /\ NextNumber \in 0..MaxFrameNum - 1 /\ NextAbs \in Nat
      /\ last_has_mmco_5' = m /\ (m => r /\ frame_num' = 0 /\ abs' = 0 /\ ref' = TRUE)
      /\ ~m => frame_num' = NextNumber /\ abs' = NextAbs /\ ref' = r
      /\ framepoc' = IF m THEN 0 ELSE toppoc'
      /\ intended' = IF m THEN 0 ELSE NextPoc(0, 0, r)
  <2>1. pic_order_cnt_type # 0
    OBVIOUS
  <2> QED BY <2>1, NextStreamOK
<1>2. PreviousFrameNum' = NextNumber /\ PreviousFrameNumOffset' = offset
  BY DEF Picture, decode_poc, Poc1
<1>3. PreviousOffset \in Nat /\ PreviousNum \in 0..MaxFrameNum - 1
  BY FrameNumAssumption DEF CountersOK, PreviousOffset, PreviousNum
<1>4. offset + NextNumber = NextAbs /\ offset \in Nat
  <2>1. abs \in Nat /\ frame_num = PreviousNum /\ PreviousOffset + PreviousNum = abs
    BY DEF CountersOK, StreamOK, OffsetCounts
  <2>2. CASE ref
    BY <2>1, <2>2, <1>3, FrameNumAssumption DEF NextNumber, NextAbs, Offset
  <2>3. CASE ~ref
    BY <2>1, <2>3, <1>3, FrameNumAssumption DEF NextNumber, NextAbs, Offset
  <2> QED BY <2>2, <2>3
<1> HIDE DEF offset
<1>5. CountersOK'
  BY <1>1, <1>2, <1>4 DEF CountersOK
<1>6. OffsetCounts'
  BY <1>1, <1>2, <1>4, <1>5 DEF OffsetCounts, PreviousOffset, PreviousNum, CountersOK
<1>7. ~r => NextAbs > 0
  BY DEF CountersOK, StreamOK, NextAbs
<1>8. toppoc' = Expected(NextAbs, ~r)
  <2>1. toppoc' = Expected(Offset(NextNumber, PreviousOffset, PreviousNum) + NextNumber, ~r)
    BY DEF Picture, decode_poc, Poc1
  <2> QED BY <2>1, <1>4 DEF offset
<1>9. NextPoc(0, 0, r) = toppoc'
  <2>1. Expected(NextAbs, ~r) = IF ~r THEN Ideal[NextAbs - 1] + offset_for_non_ref_pic ELSE Ideal[NextAbs]
    BY <1>1, <1>7, ExpectedIs
  <2> QED BY <1>8, <2>1 DEF NextPoc
<1>10. (ref \/ abs > 0)' /\ PocCorrect'
  BY <1>1, <1>7, <1>9 DEF PocCorrect
<1> QED BY <1>5, <1>6, <1>10

LEMMA Type2Picture ==
    ASSUME pic_order_cnt_type = 2, ~NonRefAtWrap, CountersOK, OffsetCountsReferences,
           NEW r \in BOOLEAN, NEW m \in BOOLEAN, Picture(0, 0, r, m)
    PROVE  CountersOK' /\ OffsetCountsReferences' /\ PocCorrect'
<1> DEFINE offset == Offset(NextNumber, PreviousOffset, PreviousNum)
<1>1. /\ StreamOK' /\ NextNumber \in 0..MaxFrameNum - 1 /\ NextAbs \in Nat
      /\ last_has_mmco_5' = m /\ (m => r /\ frame_num' = 0 /\ abs' = 0 /\ ref' = TRUE)
      /\ ~m => frame_num' = NextNumber /\ abs' = NextAbs /\ ref' = r
      /\ framepoc' = IF m THEN 0 ELSE toppoc'
      /\ intended' = IF m THEN 0 ELSE NextPoc(0, 0, r)
  <2>1. pic_order_cnt_type # 0
    OBVIOUS
  <2> QED BY <2>1, NextStreamOK
<1>2. /\ toppoc' = IF r THEN 2 * (offset + NextNumber) ELSE 2 * (offset + NextNumber) - 1
      /\ PreviousFrameNum' = IF r THEN NextNumber ELSE PreviousNum
      /\ PreviousFrameNumOffset' = offset
  BY DEF Picture, decode_poc, Poc2
<1>3. PreviousOffset \in Nat /\ PreviousNum \in 0..MaxFrameNum - 1
  BY FrameNumAssumption DEF CountersOK, PreviousOffset, PreviousNum
<1>4. ~r => ref /\ NextNumber # 0
  BY DEF Picture, LegalCounts
<1>5. offset + NextNumber = NextAbs /\ offset \in Nat
  <2>1. abs \in Nat /\ frame_num \in 0..MaxFrameNum - 1
    BY DEF CountersOK, StreamOK
  <2>2. CASE ref
    <3>1. frame_num = PreviousNum /\ PreviousOffset + PreviousNum = abs
      BY <2>2 DEF OffsetCountsReferences, OffsetCounts
    <3> QED BY <2>1, <2>2, <3>1, <1>3, FrameNumAssumption DEF NextNumber, NextAbs, Offset
  <2>3. CASE ~ref
    <3>1. PreviousNum + 1 = frame_num /\ PreviousOffset + PreviousNum + 1 = abs
      BY <2>3 DEF OffsetCountsReferences
    <3> QED BY <2>1, <2>3, <3>1, <1>3 DEF NextNumber, NextAbs, Offset
  <2> QED BY <2>2, <2>3
<1>6. ~r => offset = PreviousOffset /\ NextNumber = PreviousNum + 1 /\ NextAbs = abs + 1
  <2> SUFFICES ASSUME ~r PROVE offset = PreviousOffset /\ NextNumber = PreviousNum + 1
                               /\ NextAbs = abs + 1
    OBVIOUS
  <2>1. ref /\ NextNumber # 0 /\ frame_num = PreviousNum
    BY <1>4 DEF OffsetCountsReferences, OffsetCounts
  <2> QED BY <2>1, <1>3 DEF NextNumber, NextAbs, Offset
<1> HIDE DEF offset
<1>7. CountersOK'
  <2>1. PreviousFrameNum' \in 0..MaxFrameNum - 1
    BY <1>1, <1>2, <1>3
  <2> QED BY <2>1, <1>1, <1>2, <1>5 DEF CountersOK
<1>8. OffsetCountsReferences'
  <2>1. CASE m
    BY <2>1, <1>1 DEF OffsetCountsReferences, OffsetCounts, PreviousOffset, PreviousNum
  <2>2. CASE ~m /\ r
    BY <2>2, <1>1, <1>2, <1>5 DEF OffsetCountsReferences, OffsetCounts, PreviousOffset, PreviousNum
  <2>3. CASE ~m /\ ~r
    <3>1. PreviousOffset' = offset /\ PreviousNum' = PreviousNum /\ ref' = FALSE
          /\ abs' = NextAbs /\ frame_num' = NextNumber
      BY <2>3, <1>1, <1>2 DEF PreviousOffset, PreviousNum
    <3>2. offset + (PreviousNum + 1) = NextAbs /\ NextNumber = PreviousNum + 1
      BY <2>3, <1>5, <1>6
    <3> QED BY <3>1, <3>2, <1>3, <1>5 DEF OffsetCountsReferences
  <2> QED BY <2>1, <2>2, <2>3
<1>9. PocCorrect'
  <2>1. ~m => intended' = IF r THEN 2 * NextAbs ELSE 2 * NextAbs - 1
    BY <1>1 DEF NextPoc
  <2> QED BY <2>1, <1>1, <1>2, <1>5 DEF PocCorrect
<1> QED BY <1>7, <1>8, <1>9

-----------------------------------------------------------------------------
(* What the decoder keeps for the active type makes up the stream's count, *)
(* whatever sequence parameter sets follow one another: header.c 555-760,  *)
(* for streams without a command 5 in type 0 and without a non-reference   *)
(* picture at frame_num 0 in type 2.                                       *)
THEOREM CountsAreKept ==
    ASSUME 0 \notin Mmco5Types, ~NonRefAtWrap
    PROVE  PocSpec => []CountsKept
<1>1. PocInit => CountsKept
  BY InitKept
<1>2. CountsKept /\ [PocNext]_pocVars => CountsKept'
  <2> SUFFICES ASSUME CountsKept, [PocNext]_pocVars PROVE CountsKept'
    OBVIOUS
  <2>1. CASE Idr
    BY <2>1, IdrKept
  <2>2. ASSUME NEW h \in {msb - MaxPicOrderCntLsb, msb, msb + MaxPicOrderCntLsb},
               NEW l \in 0..MaxPicOrderCntLsb - 1, NEW r \in BOOLEAN, NEW m \in BOOLEAN,
               Picture(IF pic_order_cnt_type = 0 THEN h ELSE 0,
                       IF pic_order_cnt_type = 0 THEN l ELSE 0, r, m)
        PROVE  CountsKept'
    <3>1. pic_order_cnt_type' = pic_order_cnt_type
      BY <2>2 DEF Picture
    <3>2. CASE pic_order_cnt_type = 0
      <4>1. Picture(h, l, r, m) /\ SameParts
        BY <2>2, <3>2 DEF CountsKept
      <4>2. SameParts'
        BY <4>1, <3>2, Type0Picture
      <4> QED BY <4>2, <3>1, <3>2 DEF CountsKept
    <3>3. CASE pic_order_cnt_type = 1
      <4>1. Picture(0, 0, r, m) /\ CountersOK /\ OffsetCounts /\ (ref \/ abs > 0)
        BY <2>2, <3>3 DEF CountsKept
      <4>2. CountersOK' /\ OffsetCounts' /\ (ref \/ abs > 0)' /\ PocCorrect'
        BY <4>1, <3>3, Type1Picture
      <4> QED BY <4>2, <3>1, <3>3 DEF CountsKept
    <3>4. CASE pic_order_cnt_type = 2
      <4>1. Picture(0, 0, r, m) /\ CountersOK /\ OffsetCountsReferences
        BY <2>2, <3>4 DEF CountsKept
      <4>2. CountersOK' /\ OffsetCountsReferences' /\ PocCorrect'
        BY <4>1, <3>4, Type2Picture
      <4> QED BY <4>2, <3>1, <3>4 DEF CountsKept
    <3> QED BY <3>2, <3>3, <3>4 DEF CountsKept
  <2>3. CASE UNCHANGED pocVars
    BY <2>3 DEF pocVars, stream, decoder, CountsKept, SameParts, CountersOK, StreamOK, OffsetCounts,
                OffsetCountsReferences, PreviousOffset, PreviousNum, PocCorrect
  <2> QED BY <2>1, <2>2, <2>3 DEF PocNext
<1> QED BY <1>1, <1>2, PTL DEF PocSpec

(* Streams of all three types, in any order and of any number ranges and   *)
(* cycles: every picture gets the order count the stream means             *)
(* (header.c 562-760).                                                     *)
THEOREM OrderCountsCorrect ==
    ASSUME 0 \notin Mmco5Types, ~NonRefAtWrap
    PROVE  PocSpec => []PocCorrect
<1>1. PocSpec => []CountsKept
  BY CountsAreKept
<1>2. CountsKept => PocCorrect
  BY DEF CountsKept, SameParts
<1> QED BY <1>1, <1>2, PTL

-----------------------------------------------------------------------------
(***************************************************************************)
(* Neighbours.  Addresses count rows of macroblocks, or rows of pairs.     *)
(***************************************************************************)
At(r, c) == r * PicWidthInMbs + c
Columns == 0..PicWidthInMbs - 1

(* A number counted row by row is within the picture iff its row is.       *)
LEMMA Multiples ==
    ASSUME NEW w \in Nat \ {0}, NEW h \in Nat, NEW r \in Int, NEW c \in 0..w - 1
    PROVE  r * w + c \in 0..w * h - 1 <=> r \in 0..h - 1
<1>1. CASE r \in 0..h - 1
  <2>1. (r + 1) * w <= h * w /\ r * w >= 0
    BY <1>1
  <2>2. QED
    BY <1>1, <2>1
<1>2. CASE r < 0
  <2>1. r * w <= -w
    BY <1>2
  <2>2. QED
    BY <1>2, <2>1
<1>3. CASE r >= h
  <2>1. r * w >= h * w
    BY <1>3
  <2>2. QED
    BY <1>3, <2>1
<1>4. QED
  BY <1>1, <1>2, <1>3

(* The size of a picture, in macroblocks and in pairs.                     *)
LEMMA SizeIs ==
    /\ PicSizeInMbs = PicWidthInMbs * PicHeight /\ PicSizeInMbs \in Nat
    /\ PicHeight = 2 * (PicHeight \div 2) /\ PicHeight \div 2 \in Nat
    /\ PicSizeInMbs = 2 * (PicWidthInMbs * (PicHeight \div 2)) /\ PicWidthInMbs * (PicHeight \div 2) \in Nat
<1>1. PicHeight = 2 * (PicHeight \div 2) /\ PicHeight \div 2 \in Nat
  BY SizeAssumption
<1> DEFINE h == PicHeight \div 2
<1> HIDE DEF h
<1>2. PicWidthInMbs * (2 * h) = 2 * (PicWidthInMbs * h) /\ PicWidthInMbs * h \in Nat
  BY <1>1, SizeAssumption DEF h
<1>3. QED
  BY <1>1, <1>2, SizeAssumption DEF PicSizeInMbs, h

(* A macroblock address is one row and one column, and each such place is  *)
(* an address.                                                             *)
LEMMA Grid ==
    /\ \A n \in Addresses : /\ n \div PicWidthInMbs \in 0..PicHeight - 1 /\ n % PicWidthInMbs \in Columns
                            /\ n = At(n \div PicWidthInMbs, n % PicWidthInMbs) /\ n \in Nat
    /\ \A r \in Int, c \in Columns : /\ At(r, c) \in Addresses <=> r \in 0..PicHeight - 1
                                     /\ At(r, c) \div PicWidthInMbs = r /\ At(r, c) % PicWidthInMbs = c
<1>1. ASSUME NEW r \in Int, NEW c \in Columns
      PROVE  /\ At(r, c) \in Addresses <=> r \in 0..PicHeight - 1
             /\ At(r, c) \div PicWidthInMbs = r /\ At(r, c) % PicWidthInMbs = c
  <2>1. At(r, c) \div PicWidthInMbs = r /\ At(r, c) % PicWidthInMbs = c
    BY DivMod, SizeAssumption DEF At, Columns
  <2>2. At(r, c) \in 0..PicWidthInMbs * PicHeight - 1 <=> r \in 0..PicHeight - 1
    BY Multiples, SizeAssumption DEF At, Columns
  <2>3. QED
    BY <2>1, <2>2, SizeIs DEF Addresses
<1>2. ASSUME NEW n \in Addresses
      PROVE  /\ n \div PicWidthInMbs \in 0..PicHeight - 1 /\ n % PicWidthInMbs \in Columns
             /\ n = At(n \div PicWidthInMbs, n % PicWidthInMbs) /\ n \in Nat
  <2>1. /\ n \in Nat /\ n \div PicWidthInMbs \in Int /\ n % PicWidthInMbs \in Columns
        /\ n = At(n \div PicWidthInMbs, n % PicWidthInMbs)
    BY SizeIs, SizeAssumption DEF Addresses, Columns, At
  <2>2. QED
    BY <1>1, <2>1
<1>3. QED
  BY <1>1, <1>2

PairLines == 0..PicHeight \div 2 - 1

(* The same for pairs: address 2k is the upper macroblock of pair k.       *)
LEMMA PairGrid ==
    /\ \A n \in Addresses : /\ (n \div 2) \div PicWidthInMbs \in PairLines /\ (n \div 2) % PicWidthInMbs \in Columns
                            /\ n \div 2 = At((n \div 2) \div PicWidthInMbs, (n \div 2) % PicWidthInMbs)
                            /\ n \in Nat /\ n = 2 * (n \div 2) + (n % 2) /\ n % 2 \in 0..1
    /\ \A r \in Int, c \in Columns : /\ 2 * At(r, c) \in Addresses <=> r \in PairLines
                                     /\ 2 * At(r, c) + 1 \in Addresses <=> r \in PairLines
                                     /\ At(r, c) \div PicWidthInMbs = r /\ At(r, c) % PicWidthInMbs = c
<1> DEFINE h == PicHeight \div 2
           size == PicWidthInMbs * h
<1>1. /\ PicSizeInMbs = 2 * size /\ size \in Nat /\ h \in Nat
  BY SizeIs
<1>2. ASSUME NEW r \in Int, NEW c \in Columns
      PROVE  /\ 2 * At(r, c) \in Addresses <=> r \in PairLines
             /\ 2 * At(r, c) + 1 \in Addresses <=> r \in PairLines
             /\ At(r, c) \div PicWidthInMbs = r /\ At(r, c) % PicWidthInMbs = c
  <2>1. At(r, c) \div PicWidthInMbs = r /\ At(r, c) % PicWidthInMbs = c
    BY DivMod, SizeAssumption DEF At, Columns
  <2>2. At(r, c) \in 0..size - 1 <=> r \in 0..h - 1
    BY <1>1, Multiples, SizeAssumption DEF At, Columns
  <2>3. At(r, c) \in Int
    BY SizeAssumption DEF At, Columns
  <2> HIDE DEF size
  <2>4. QED
    BY <1>1, <2>1, <2>2, <2>3 DEF Addresses, PairLines
<1>3. ASSUME NEW n \in Addresses
      PROVE  /\ (n \div 2) \div PicWidthInMbs \in PairLines /\ (n \div 2) % PicWidthInMbs \in Columns
             /\ n \div 2 = At((n \div 2) \div PicWidthInMbs, (n \div 2) % PicWidthInMbs)
             /\ n \in Nat /\ n = 2 * (n \div 2) + (n % 2) /\ n % 2 \in 0..1
  <2> DEFINE k == n \div 2
  <2>1. n \in Nat /\ k \in 0..size - 1 /\ n = 2 * k + (n % 2) /\ n % 2 \in 0..1
    <3> HIDE DEF size
    <3>1. QED
      BY <1>1 DEF Addresses
  <2> HIDE DEF k
  <2>2. /\ k \in Nat /\ k \div PicWidthInMbs \in Int /\ k % PicWidthInMbs \in Columns
        /\ k = At(k \div PicWidthInMbs, k % PicWidthInMbs)
    BY <1>1, <2>1, SizeAssumption DEF Columns, At
  <2>3. 2 * k \in Addresses
    <3> HIDE DEF size
    <3>1. QED
      BY <1>1, <2>1 DEF Addresses
  <2>4. k \div PicWidthInMbs \in PairLines
    BY <1>2, <2>2, <2>3
  <2>5. QED
    BY <2>1, <2>2, <2>4 DEF k
<1>4. QED
  BY <1>2, <1>3

NeighbourTypeOK ==
    /\ mbaff \in BOOLEAN /\ filtering \in BOOLEAN
    /\ mb_data \in [Addresses -> [slice_nr : Int, mb_field : BOOLEAN]]
    /\ LFDisableIdc \in Seq(LFDisableIdcs)
    /\ current_mb_nr \in Addresses \cup {-1}

(* The macroblock or pair a macroblock is in, its line and its column.     *)
Unit(n) == IF mbaff THEN n \div 2 ELSE n
Line(n) == Unit(n) \div PicWidthInMbs
Column(n) == Unit(n) % PicWidthInMbs
Units(r, c) == IF mbaff THEN 2 * At(r, c) ELSE At(r, c)
Lines == IF mbaff THEN PairLines ELSE 0..PicHeight - 1

(* The same for what getNeighbour counts in, macroblocks or pairs.         *)
LEMMA UnitGrid ==
    ASSUME mbaff \in BOOLEAN
    PROVE  /\ \A n \in Addresses : /\ Line(n) \in Lines /\ Column(n) \in Columns /\ Unit(n) = At(Line(n), Column(n))
                                   /\ n \in Nat /\ Line(n) \in Nat /\ Column(n) \in Nat
           /\ \A r \in Int, c \in Columns : Units(r, c) \in Addresses <=> r \in Lines
<1>1. CASE mbaff
  BY <1>1, PairGrid, SizeIs DEF Unit, Line, Column, Units, Lines, PairLines, Columns
<1>2. CASE ~mbaff
  BY <1>2, Grid, SizeIs DEF Unit, Line, Column, Units, Lines, Columns
<1>3. QED
  BY <1>1, <1>2

SideLine(side) == IF side = "A" THEN 0 ELSE -1
SideColumn(side) == CASE side \in {"A", "D"} -> -1 [] side = "C" -> 1 [] OTHER -> 0

(* What CheckAvailabilityOfNeighbors finds on each side.                   *)
LEMMA SideIs ==
    ASSUME NeighbourTypeOK, NEW n \in Addresses, NEW side \in {"A", "B", "C", "D"}, NEW call
    PROVE  LET m == CheckAvailabilityOfNeighbors(n, side, call)
               r == Line(n) + SideLine(side)
               c == Column(n) + SideColumn(side)
           IN  /\ m.addr = Units(r, c) /\ m.avail \in BOOLEAN
               /\ m.avail <=> /\ r \in Lines /\ c \in Columns
                              /\ call # 0 \/ mb_data[Units(r, c)].slice_nr = mb_data[n].slice_nr
<1> DEFINE m == CheckAvailabilityOfNeighbors(n, side, call)
           r == Line(n) + SideLine(side)
           c == Column(n) + SideColumn(side)
           k == Unit(n)
           w == PicWidthInMbs
           to == CASE side = "A" -> k - 1
                   [] side = "B" -> k - w
                   [] side = "C" -> k - w + 1
                   [] side = "D" -> k - w - 1
           inside == CASE side \in {"A", "D"} -> k % w # 0
                       [] side = "C" -> (k + 1) % w # 0
                       [] OTHER -> TRUE
           addr == IF mbaff THEN 2 * to ELSE to
<1>1. m = [addr |-> addr, avail |-> mb_is_available(addr, n, call) /\ inside]
  BY Zenon DEF CheckAvailabilityOfNeighbors, Unit
<1>2. mbaff \in BOOLEAN
  BY DEF NeighbourTypeOK
<1>3. /\ Line(n) \in Lines /\ Column(n) \in Columns /\ k = At(Line(n), Column(n)) /\ n \in Nat
      /\ Line(n) \in Nat /\ Column(n) \in Nat /\ w \in Nat \ {0}
  BY <1>2, UnitGrid, SizeAssumption
<1>4. to = At(r, c)
  BY <1>3 DEF At, SideLine, SideColumn
<1>5. inside <=> c \in Columns
  <2>1. k % w = Column(n) /\ Column(n) \in 0..w - 1
    BY <1>3 DEF Column, Columns
  <2>2. (k + 1) % w # 0 <=> Column(n) + 1 \in 0..w - 1
    <3>1. CASE Column(n) + 1 < w
      <4>1. k + 1 = Line(n) * w + (Column(n) + 1) /\ Column(n) + 1 \in 0..w - 1
        BY <1>3, <3>1 DEF At, Columns
      <4>2. (Line(n) * w + (Column(n) + 1)) % w = Column(n) + 1
        <5> DEFINE l == Line(n)
                   c1 == Column(n) + 1
        <5>1. l \in Int /\ c1 \in 0..w - 1
          BY <1>3, <4>1
        <5> HIDE DEF l, c1
        <5>2. (l * w + c1) % w = c1
          BY <1>3, <5>1, DivMod
        <5>3. QED
          BY <5>2 DEF l, c1
      <4>3. QED
        BY <1>3, <3>1, <4>1, <4>2
    <3>2. CASE Column(n) + 1 = w
      <4>1. k + 1 = (Line(n) + 1) * w + 0 /\ 0 \in 0..w - 1
        BY <1>3, <3>2 DEF At, Columns
      <4>2. (k + 1) % w = 0
        <5> DEFINE l == Line(n) + 1
        <5>1. l \in Int /\ 0 \in 0..w - 1
          BY <1>3, <4>1
        <5> HIDE DEF l
        <5>2. (l * w + 0) % w = 0
          BY <1>3, <5>1, DivMod
        <5>3. QED
          BY <4>1, <5>2 DEF l
      <4>3. QED
        BY <1>3, <3>2, <4>2
    <3>3. QED
      BY <1>3, <2>1, <3>1, <3>2
  <2>3. QED
    BY <1>3, <2>1, <2>2 DEF SideColumn, Columns
<1>6. addr = Units(r, c)
  BY <1>4 DEF Units
<1>7. r \in Int
  BY <1>3 DEF SideLine
<1> HIDE DEF to, inside, addr, r, c, m
<1>8. m.addr = addr /\ (m.avail <=> mb_is_available(addr, n, call) /\ inside) /\ m.avail \in BOOLEAN
  BY <1>1, Zenon
<1>9. c \in Columns => (addr \in Addresses <=> r \in Lines)
  BY <1>2, <1>6, <1>7, UnitGrid
<1>10. m.avail <=> /\ r \in Lines /\ c \in Columns
                   /\ call # 0 \/ mb_data[Units(r, c)].slice_nr = mb_data[n].slice_nr
  BY <1>5, <1>6, <1>8, <1>9, Zenon DEF mb_is_available
<1>11. QED
  BY <1>6, <1>8, <1>10 DEF m, r, c

Sizes == {8, 16}

(* The row of a sample in its pair.                                        *)
RowOf(field, b, y, s) == IF field THEN 2 * y + b ELSE b * s + y

(* A sample lies in the macroblock row or the pair row of its macroblock.  *)
LEMMA PositionIs ==
    ASSUME mbaff \in BOOLEAN, NEW r \in Int, NEW c \in Columns, NEW x, NEW y, NEW s
    PROVE  /\ ~mbaff => Position(At(r, c), x, y, s) = <<c * s + x, r * s + y>>
           /\ mbaff => \A b \in 0..1 : Position(2 * At(r, c) + b, x, y, s)
                           = <<c * s + x, r * (2 * s) + RowOf(Field(2 * At(r, c) + b), b, y, s)>>
<1>1. At(r, c) \in Int /\ At(r, c) \div PicWidthInMbs = r /\ At(r, c) % PicWidthInMbs = c
  BY Grid, SizeAssumption DEF At, Columns
<1>2. ASSUME ~mbaff PROVE Position(At(r, c), x, y, s) = <<c * s + x, r * s + y>>
  BY <1>1, <1>2 DEF Position
<1>3. ASSUME mbaff, NEW b \in 0..1
      PROVE  Position(2 * At(r, c) + b, x, y, s)
                 = <<c * s + x, r * (2 * s) + RowOf(Field(2 * At(r, c) + b), b, y, s)>>
  <2> DEFINE n == 2 * At(r, c) + b
  <2>1. n \div 2 = At(r, c) /\ n % 2 = b
    BY <1>1
  <2> HIDE DEF n
  <2>2. Position(n, x, y, s) = <<c * s + x, r * (2 * s) + RowOf(Field(n), b, y, s)>>
    BY <1>1, <1>3, <2>1 DEF Position, RowOf
  <2>3. QED
    BY <2>2 DEF n
<1>4. QED
  BY <1>2, <1>3

(* The macroblock at a place of a picture without pairs.                   *)
LEMMA FrameAt ==
    ASSUME ~mbaff, NEW s \in Sizes, NEW r \in Int, NEW c \in Int, NEW x \in -s..2 * s - 1, NEW y \in -s..2 * s - 1
    PROVE  MbAt(<<c * s + x, r * s + y>>, s)
               = IF c + (x \div s) \in Columns /\ r + (y \div s) \in 0..PicHeight - 1
                 THEN At(r + (y \div s), c + (x \div s)) ELSE -1
<1>1. s = 8 \/ s = 16
  BY DEF Sizes
<1>2. (c * s + x) \div s = c + (x \div s) /\ (r * s + y) \div s = r + (y \div s)
  <2>1. CASE s = 8
    BY <2>1
  <2>2. CASE s = 16
    BY <2>2
  <2>3. QED
    BY <1>1, <2>1, <2>2
<1> DEFINE p == <<c * s + x, r * s + y>>
<1>3. p[1] \div s = c + (x \div s) /\ p[2] \div s = r + (y \div s)
  BY <1>2
<1> HIDE DEF p
<1>4. MbAt(p, s) = IF c + (x \div s) \in Columns /\ r + (y \div s) \in 0..PicHeight - 1
                   THEN At(r + (y \div s), c + (x \div s)) ELSE -1
  BY <1>3 DEF MbAt, At, Columns
<1>5. QED
  BY <1>4 DEF p

(* The macroblock at row y of a pair, or of one of the pairs around it.    *)
LEMMA PairAt ==
    ASSUME mbaff, NEW s \in Sizes, NEW r \in Int, NEW c \in Int, NEW x \in -s..2 * s - 1,
           NEW y \in -(2 * s)..2 * s - 1
    PROVE  LET C == c + (x \div s)
               R == r + (y \div (2 * s))
               pair == 2 * At(R, C)
               row == y % (2 * s)
           IN  MbAt(<<c * s + x, r * (2 * s) + y>>, s)
                   = IF C \in Columns /\ R \in PairLines
                     THEN pair + (IF Field(pair) THEN row % 2 ELSE row \div s) ELSE -1
<1> DEFINE C == c + (x \div s)
           R == r + (y \div (2 * s))
           pair == 2 * At(R, C)
           row == y % (2 * s)
           p == <<c * s + x, r * (2 * s) + y>>
           line == p[2] \div s
<1>1. s = 8 \/ s = 16
  BY DEF Sizes
<1>2. /\ p[1] \div s = C /\ line \div 2 = R /\ p[2] % 2 = row % 2 /\ line % 2 = row \div s /\ line \in Int
  <2>1. CASE s = 8
    BY <2>1
  <2>2. CASE s = 16
    BY <2>2
  <2>3. QED
    BY <1>1, <2>1, <2>2
<1>3. PicHeight = 2 * (PicHeight \div 2) /\ PicHeight \div 2 \in Nat
  BY SizeIs
<1>4. line \in 0..PicHeight - 1 <=> R \in PairLines
  <2> HIDE DEF line, R
  <2>1. line \div 2 = R /\ line \in Int
    BY <1>2
  <2>2. QED
    BY <1>3, <2>1 DEF PairLines
<1>5. MbAt(p, s) = IF C \notin Columns \/ line \notin 0..PicHeight - 1 THEN -1
                   ELSE IF Field(pair) THEN pair + (row % 2) ELSE pair + (row \div s)
  <2> HIDE DEF p, R, row, C
  <2>1. MbAt(p, s) = LET q == 2 * ((line \div 2) * PicWidthInMbs + (p[1] \div s))
                     IN  IF p[1] \div s \notin 0..(PicWidthInMbs - 1) \/ line \notin 0..(PicHeight - 1) THEN -1
                         ELSE IF Field(q) THEN q + (p[2] % 2) ELSE q + (line % 2)
    BY DEF MbAt
  <2> HIDE DEF line
  <2>2. QED
    BY <1>2, <2>1 DEF At, Columns
<1> HIDE DEF p, R, row, C, line, pair
<1>6. MbAt(p, s) = IF C \in Columns /\ R \in PairLines
                   THEN pair + (IF Field(pair) THEN row % 2 ELSE row \div s) ELSE -1
  BY <1>4, <1>5
<1>7. QED
  BY <1>6 DEF p, R, row, C, pair

(* Where the line and the column of the sample at x, y of n are, counted   *)
(* in macroblocks or in pairs.                                             *)
Row(n, y, s) == IF mbaff THEN RowOf(Field(n), n % 2, y, s) ELSE y
Tall(s) == IF mbaff THEN 2 * s ELSE s
LineOf(n, y, s) == Line(n) + (Row(n, y, s) \div Tall(s))
ColumnOf(n, x, s) == Column(n) + (x \div s)

(* What a neighbour is available for: it is in the picture, is the unit    *)
(* itself or of its slice, and does not come after it.                     *)
Reachable(n, x, y, s, call) ==
    LET r == LineOf(n, y, s)
        c == ColumnOf(n, x, s)
        itself == r = Line(n) /\ c = Column(n)
        after == r = Line(n) /\ c = Column(n) + 1
    IN  /\ r \in Lines /\ c \in Columns /\ ~after
        /\ itself \/ call # 0 \/ mb_data[Units(r, c)].slice_nr = mb_data[n].slice_nr

Found(pix, unit, b, x, v, s) == pix = [available |-> TRUE, mb_addr |-> unit + b, x |-> x % s, y |-> v]

(* To the left of a pair: the macroblock chosen is of the left pair, and   *)
(* its row there is the one wanted.                                        *)
LEMMA LeftIs ==
    ASSUME mbaff, NEW n \in Nat, NEW pair \in Int, NEW s \in Sizes, NEW y \in 0..s - 1
    PROVE  \E b \in 0..1, v \in 0..s - 1 : /\ Left(n, pair, y, s) = <<pair + b, v>>
                                           /\ RowOf(Field(pair), b, v, s) = RowOf(Field(n), n % 2, y, s)
<1>1. s = 8 \/ s = 16
  BY DEF Sizes
<1>2. n % 2 \in 0..1
  OBVIOUS
<1>3. CASE Field(n) = Field(pair)
  <2>1. Left(n, pair, y, s) = <<pair + (n % 2), y>>
    BY <1>3 DEF Left
  <2>2. QED
    BY <1>2, <1>3, <2>1
<1>4. CASE Field(n) # Field(pair) /\ Field(pair)
  <2> DEFINE b == y % 2
             v == (IF Bottom(n) THEN y + s ELSE y) \div 2
  <2>1. Left(n, pair, y, s) = <<pair + b, v>>
    BY <1>4 DEF Left
  <2>2. b \in 0..1 /\ v \in 0..s - 1 /\ 2 * v + b = (n % 2) * s + y
    <3>1. CASE s = 8
      BY <1>2, <3>1 DEF Bottom
    <3>2. CASE s = 16
      BY <1>2, <3>2 DEF Bottom
    <3>3. QED
      BY <1>1, <3>1, <3>2
  <2>3. RowOf(Field(pair), b, v, s) = RowOf(Field(n), n % 2, y, s)
    <3>1. ~Field(n)
      BY <1>4 DEF Field, Bottom
    <3>2. QED
      BY <1>4, <2>2, <3>1 DEF RowOf
  <2> HIDE DEF b, v
  <2>4. QED
    BY <2>1, <2>2, <2>3
<1>5. CASE Field(n) # Field(pair) /\ ~Field(pair)
  <2>1. Field(n)
    BY <1>5 DEF Field
  <2>2. CASE y < s \div 2
    <3> DEFINE v == 2 * y + (n % 2)
    <3>1. Left(n, pair, y, s) = <<pair, v>>
      BY <1>5, <2>2 DEF Left
    <3>2. v \in 0..s - 1 /\ RowOf(Field(pair), 0, v, s) = v
      BY <1>1, <1>2, <1>5, <2>2 DEF RowOf
    <3> HIDE DEF v
    <3>3. pair + 0 = pair /\ 0 \in 0..1
      OBVIOUS
    <3>4. RowOf(Field(n), n % 2, y, s) = v
      BY <2>1 DEF RowOf, v
    <3>5. QED
      BY <3>1, <3>2, <3>3, <3>4
  <2>3. CASE ~(y < s \div 2)
    <3> DEFINE v == 2 * y + (n % 2) - s
    <3>1. Left(n, pair, y, s) = <<pair + 1, v>>
      BY <1>5, <2>3 DEF Left
    <3>2. v \in 0..s - 1 /\ RowOf(Field(pair), 1, v, s) = 2 * y + (n % 2)
      BY <1>1, <1>2, <1>5, <2>3 DEF RowOf
    <3> HIDE DEF v
    <3>3. 1 \in 0..1 /\ RowOf(Field(n), n % 2, y, s) = 2 * y + (n % 2)
      BY <2>1 DEF RowOf
    <3>4. QED
      BY <3>1, <3>2, <3>3
  <2>4. QED
    BY <2>2, <2>3
<1>6. QED
  BY <1>3, <1>4, <1>5

(* Above a pair: the last row of the pair above that continues the         *)
(* macroblock, of the same parity where both are fields.                   *)
LEMMA AboveIs ==
    ASSUME mbaff, NEW n \in Nat, NEW pair \in Int, NEW s \in Sizes, Field(n) \/ ~Bottom(n)
    PROVE  \E b \in 0..1, v \in 0..s - 1 :
               /\ Above(n, pair, -1)[1] = pair + b /\ Above(n, pair, -1)[2] % s = v
               /\ RowOf(Field(pair), b, v, s) = RowOf(Field(n), n % 2, -1, s) % (2 * s)
<1>1. s = 8 \/ s = 16
  BY DEF Sizes
<1>2. n % 2 \in 0..1 /\ (Bottom(n) <=> n % 2 = 1)
  BY DEF Bottom
<1>3. CASE ~Field(n) \/ Bottom(n)
  <2>1. Above(n, pair, -1) = <<pair + 1, -1>> /\ (-1) % s = s - 1
    BY <1>1, <1>3 DEF Above
  <2>2. RowOf(Field(pair), 1, s - 1, s) = 2 * s - 1
    BY <1>1 DEF RowOf
  <2>3. RowOf(Field(n), n % 2, -1, s) = -1
    BY <1>1, <1>2, <1>3 DEF RowOf
  <2>4. (-1) % (2 * s) = 2 * s - 1 /\ 1 \in 0..1 /\ s - 1 \in 0..s - 1
    BY <1>1
  <2>5. QED
    BY <2>1, <2>2, <2>3, <2>4
<1>4. CASE Field(n) /\ ~Bottom(n) /\ Field(pair)
  <2>1. Above(n, pair, -1) = <<pair, -1>> /\ (-1) % s = s - 1
    BY <1>1, <1>4 DEF Above
  <2>2. RowOf(Field(pair), 0, s - 1, s) = 2 * s - 2
    BY <1>1, <1>4 DEF RowOf
  <2>3. RowOf(Field(n), n % 2, -1, s) = -2
    BY <1>1, <1>2, <1>4 DEF RowOf
  <2>4. (-2) % (2 * s) = 2 * s - 2 /\ 0 \in 0..1 /\ s - 1 \in 0..s - 1 /\ pair + 0 = pair
    BY <1>1
  <2>5. QED
    BY <2>1, <2>2, <2>3, <2>4
<1>5. CASE Field(n) /\ ~Bottom(n) /\ ~Field(pair)
  <2>1. Above(n, pair, -1) = <<pair + 1, -2>> /\ (-2) % s = s - 2
    BY <1>1, <1>5 DEF Above
  <2>2. RowOf(Field(pair), 1, s - 2, s) = 2 * s - 2
    BY <1>1, <1>5 DEF RowOf
  <2>3. RowOf(Field(n), n % 2, -1, s) = -2
    BY <1>1, <1>2, <1>5 DEF RowOf
  <2>4. (-2) % (2 * s) = 2 * s - 2 /\ 1 \in 0..1 /\ s - 2 \in 0..s - 1
    BY <1>1
  <2>5. QED
    BY <2>1, <2>2, <2>3, <2>4
<1>6. QED
  BY <1>3, <1>4, <1>5

(* The cases of getNonAffNeighbour and of getAffNeighbour.                 *)
SampleAt(at, x, s) == [available |-> TRUE, mb_addr |-> at[1], x |-> x % s, y |-> at[2] % s]
Taken(m, at, x, s) == IF m.avail THEN SampleAt(at, x, s) ELSE NoPix

LEMMA FrameCases ==
    ASSUME ~mbaff, NEW n, NEW s \in Sizes, NEW x \in -1..s, NEW y \in -1..s - 1, NEW call
    PROVE  LET pix == getNeighbour(n, x, y, s, call)
               M(side) == CheckAvailabilityOfNeighbors(n, side, call)
               To(m) == Taken(m, <<m.addr, y>>, x, s)
           IN  /\ x < 0 /\ y < 0 => pix = To(M("D"))
               /\ x < 0 /\ y >= 0 => pix = To(M("A"))
               /\ x \in 0..s - 1 /\ y < 0 => pix = To(M("B"))
               /\ x \in 0..s - 1 /\ y >= 0 => pix = SampleAt(<<n, y>>, x, s)
               /\ x = s /\ y < 0 => pix = To(M("C"))
               /\ x = s /\ y >= 0 => pix = NoPix
<1>1. getNeighbour(n, x, y, s, call) = getNonAffNeighbour(n, x, y, s, call)
  BY DEF getNeighbour
<1>2. s = 8 \/ s = 16
  BY DEF Sizes
<1>3. /\ x < 0 <=> x \notin 0..s - 1 /\ ~(x >= s)
      /\ y < 0 <=> y \notin 0..s - 1
      /\ y >= 0 <=> y \in 0..s - 1
      /\ x = s <=> x >= s
      /\ y < 0 <=> ~(y >= 0)
      /\ ~(x < 0 /\ x >= s) /\ ~(x \in 0..s - 1 /\ x >= s)
  BY <1>2
<1>4. \A avail, addr, v, u : /\ Pix(TRUE, addr, v, u, s) = SampleAt(<<addr, u>>, v, s)
                              /\ Pix(avail, addr, v, u, s) = IF avail THEN SampleAt(<<addr, u>>, v, s) ELSE NoPix
  BY Zenon DEF Pix, SampleAt
<1>5. QED
  BY <1>1, <1>3, <1>4, ZenonT(60) DEF getNonAffNeighbour, Taken

LEMMA PairCases ==
    ASSUME mbaff, NEW n, NEW s \in Sizes, NEW x \in -1..s, NEW y \in -1..s - 1, NEW call
    PROVE  LET pix == getNeighbour(n, x, y, s, call)
               M(side) == CheckAvailabilityOfNeighbors(n, side, call)
               To(m, at) == Taken(m, at, x, s)
               lower == ~Field(n) /\ Bottom(n)
               mixed == call = 1 /\ ~Field(n) /\ M("B").avail /\ Field(M("B").addr)
           IN  /\ x < 0 /\ y < 0 /\ ~lower => pix = To(M("D"), Above(n, M("D").addr, y))
               /\ x < 0 /\ y < 0 /\ lower => pix = To(M("A"), LeftAbove(M("A").addr, y, s))
               /\ x < 0 /\ y >= 0 => pix = To(M("A"), Left(n, M("A").addr, y, s))
               /\ x \in 0..s - 1 /\ y < 0 /\ lower => pix = SampleAt(<<n - 1, y>>, x, s)
               /\ x \in 0..s - 1 /\ y < 0 /\ ~lower /\ ~mixed => pix = To(M("B"), Above(n, M("B").addr, y))
               /\ x \in 0..s - 1 /\ y < 0 /\ ~lower /\ mixed => pix = To(M("B"), <<M("B").addr, y>>)
               /\ x \in 0..s - 1 /\ y >= 0 /\ call # 2 => pix = SampleAt(<<n, y>>, x, s)
               /\ x = s /\ y < 0 /\ ~lower => pix = To(M("C"), Above(n, M("C").addr, y))
               /\ x = s /\ (y >= 0 \/ lower) => pix = NoPix
<1>1. getNeighbour(n, x, y, s, call) = getAffNeighbour(n, x, y, s, call)
  BY DEF getNeighbour
<1>2. s = 8 \/ s = 16
  BY DEF Sizes
<1>3. /\ x < 0 <=> x \notin 0..s - 1 /\ ~(x >= s)
      /\ ~(y >= s)
      /\ x = s <=> x >= s
      /\ y < 0 <=> ~(y >= 0)
      /\ ~(x < 0 /\ x >= s) /\ ~(x \in 0..s - 1 /\ x >= s)
  BY <1>2
<1>4. \A addr, v, u : Pix(TRUE, addr, v, u, s) = [available |-> TRUE, mb_addr |-> addr, x |-> v % s, y |-> u % s]
  BY Zenon DEF Pix
<1>5. \A at : [available |-> TRUE, mb_addr |-> at[1], x |-> x % s, y |-> at[2] % s] = SampleAt(at, x, s)
  BY Zenon DEF SampleAt
<1>6. \A at : Pix(TRUE, at[1], x, at[2], s) = SampleAt(at, x, s)
  BY <1>4, <1>5, Zenon
<1>7. \A a : SampleAt(<<a, y>>, x, s) = Pix(TRUE, a, x, y, s)
  <2>1. \A a : <<a, y>>[1] = a /\ <<a, y>>[2] = y
    OBVIOUS
  <2>2. QED
    BY <1>6, <2>1, Zenon
<1>8. QED
  BY <1>1, <1>3, <1>6, <1>7, Zenon DEF getAffNeighbour, Taken

(* Such a sample is found in the unit its macroblock is of.                *)
LEMMA SampleFound ==
    ASSUME NEW at, NEW unit, NEW b, NEW x, NEW v, NEW s, at[1] = unit + b, at[2] % s = v
    PROVE  Found(SampleAt(at, x, s), unit, b, x, v, s)
<1>1. SampleAt(at, x, s) = [available |-> TRUE, mb_addr |-> unit + b, x |-> x % s, y |-> v]
  BY Zenon DEF SampleAt
<1>2. QED
  BY <1>1, Zenon DEF Found

(* What getNeighbour returns where there is a macroblock, and where not.   *)
LEMMA TakenFound ==
    ASSUME NEW m, NEW at, NEW x, NEW s
    PROVE  /\ m.avail => Taken(m, at, x, s) = SampleAt(at, x, s)
           /\ ~m.avail => Taken(m, at, x, s) = NoPix
BY Zenon DEF Taken

(* getNonAffNeighbour. *)
LEMMA FrameNeighbour ==
    ASSUME NeighbourTypeOK, ~mbaff, NEW n \in Addresses, NEW s \in Sizes, NEW x \in -1..s, NEW y \in -1..s - 1, NEW call
    PROVE  LET pix == getNeighbour(n, x, y, s, call)
               unit == Units(LineOf(n, y, s), ColumnOf(n, x, s))
           IN  IF Reachable(n, x, y, s, call) THEN Found(pix, unit, 0, x, y % s, s) ELSE pix = NoPix
<1> DEFINE pix == getNeighbour(n, x, y, s, call)
           r == LineOf(n, y, s)
           c == ColumnOf(n, x, s)
           m(side) == CheckAvailabilityOfNeighbors(n, side, call)
           Goal == IF Reachable(n, x, y, s, call) THEN Found(pix, Units(r, c), 0, x, y % s, s) ELSE pix = NoPix
<1> SUFFICES Goal
  OBVIOUS
<1>1. NeighbourTypeOK /\ mbaff \in BOOLEAN
  BY DEF NeighbourTypeOK
<1>2. s = 8 \/ s = 16
  BY DEF Sizes
<1>3. /\ Line(n) \in Lines /\ Column(n) \in Columns /\ n = At(Line(n), Column(n)) /\ n \in Nat
      /\ Line(n) \in Nat /\ Column(n) \in Nat
  BY <1>1, UnitGrid DEF Unit
<1>4. r = Line(n) + (y \div s) /\ c = Column(n) + (x \div s)
  BY DEF LineOf, ColumnOf, Row, Tall
<1>5. /\ x < 0 /\ y < 0 => pix = Taken(m("D"), <<m("D").addr, y>>, x, s)
      /\ x < 0 /\ y >= 0 => pix = Taken(m("A"), <<m("A").addr, y>>, x, s)
      /\ x \in 0..s - 1 /\ y < 0 => pix = Taken(m("B"), <<m("B").addr, y>>, x, s)
      /\ x \in 0..s - 1 /\ y >= 0 => pix = SampleAt(<<n, y>>, x, s)
      /\ x = s /\ y < 0 => pix = Taken(m("C"), <<m("C").addr, y>>, x, s)
      /\ x = s /\ y >= 0 => pix = NoPix
  BY FrameCases
<1> HIDE DEF pix, r, c, m, Goal
<1>6. CASE x < 0 /\ y < 0
  <2>1. pix = Taken(m("D"), <<m("D").addr, y>>, x, s)
    BY <1>5, <1>6
  <2>2. r = Line(n) - 1 /\ c = Column(n) - 1
    BY <1>2, <1>3, <1>4, <1>6
  <2>3. m("D").addr = Units(r, c)
    BY <1>3, <2>2, SideIs DEF m, SideLine, SideColumn
  <2>4. m("D").avail <=> Reachable(n, x, y, s, call)
    BY <1>3, <2>2, SideIs DEF m, SideLine, SideColumn, Reachable, r, c
  <2>5. Units(r, c) \in Int
    BY <1>3, <2>2, SizeAssumption DEF Units, At
  <2>6. CASE m("D").avail
    <3>1. Units(r, c) + 0 = m("D").addr
      BY <2>3, <2>5
    <3>2. Found(SampleAt(<<m("D").addr, y>>, x, s), Units(r, c), 0, x, y % s, s)
      BY <3>1, SampleFound
    <3>3. QED
      BY <2>1, <2>4, <2>6, <3>2, TakenFound, Zenon DEF Goal
  <2>7. CASE ~m("D").avail
    BY <2>1, <2>4, <2>7, TakenFound, Zenon DEF Goal
  <2>8. QED
    BY <2>6, <2>7
<1>7. CASE x < 0 /\ y >= 0
  <2>1. pix = Taken(m("A"), <<m("A").addr, y>>, x, s)
    BY <1>5, <1>7
  <2>2. r = Line(n) + 0 /\ c = Column(n) - 1
    BY <1>2, <1>3, <1>4, <1>7
  <2>3. m("A").addr = Units(r, c)
    BY <1>3, <2>2, SideIs DEF m, SideLine, SideColumn
  <2>4. m("A").avail <=> Reachable(n, x, y, s, call)
    BY <1>3, <2>2, SideIs DEF m, SideLine, SideColumn, Reachable, r, c
  <2>5. Units(r, c) \in Int
    BY <1>3, <2>2, SizeAssumption DEF Units, At
  <2>6. CASE m("A").avail
    <3>1. Units(r, c) + 0 = m("A").addr
      BY <2>3, <2>5
    <3>2. Found(SampleAt(<<m("A").addr, y>>, x, s), Units(r, c), 0, x, y % s, s)
      BY <3>1, SampleFound
    <3>3. QED
      BY <2>1, <2>4, <2>6, <3>2, TakenFound, Zenon DEF Goal
  <2>7. CASE ~m("A").avail
    BY <2>1, <2>4, <2>7, TakenFound, Zenon DEF Goal
  <2>8. QED
    BY <2>6, <2>7
<1>8. CASE x \in 0..s - 1 /\ y < 0
  <2>1. pix = Taken(m("B"), <<m("B").addr, y>>, x, s)
    BY <1>5, <1>8
  <2>2. r = Line(n) - 1 /\ c = Column(n) + 0
    BY <1>2, <1>3, <1>4, <1>8
  <2>3. m("B").addr = Units(r, c)
    BY <1>3, <2>2, SideIs DEF m, SideLine, SideColumn
  <2>4. m("B").avail <=> Reachable(n, x, y, s, call)
    BY <1>3, <2>2, SideIs DEF m, SideLine, SideColumn, Reachable, r, c
  <2>5. Units(r, c) \in Int
    BY <1>3, <2>2, SizeAssumption DEF Units, At
  <2>6. CASE m("B").avail
    <3>1. Units(r, c) + 0 = m("B").addr
      BY <2>3, <2>5
    <3>2. Found(SampleAt(<<m("B").addr, y>>, x, s), Units(r, c), 0, x, y % s, s)
      BY <3>1, SampleFound
    <3>3. QED
      BY <2>1, <2>4, <2>6, <3>2, TakenFound, Zenon DEF Goal
  <2>7. CASE ~m("B").avail
    BY <2>1, <2>4, <2>7, TakenFound, Zenon DEF Goal
  <2>8. QED
    BY <2>6, <2>7
<1>9. CASE x \in 0..s - 1 /\ y >= 0
  <2>1. pix = SampleAt(<<n, y>>, x, s)
    BY <1>5, <1>9
  <2>2. r = Line(n) /\ c = Column(n)
    BY <1>2, <1>3, <1>4, <1>9
  <2>3. n = Units(r, c) /\ Reachable(n, x, y, s, call)
    BY <1>3, <2>2 DEF Units, Reachable, r, c
  <2>4. Found(SampleAt(<<n, y>>, x, s), Units(r, c), 0, x, y % s, s)
    <3>1. <<n, y>>[1] = Units(r, c) + 0 /\ <<n, y>>[2] % s = y % s
      BY <1>3, <2>3
    <3>2. QED
      BY <3>1, SampleFound
  <2>5. QED
    BY <2>1, <2>3, <2>4, Zenon DEF Goal
<1>10. CASE x = s /\ y < 0
  <2>1. pix = Taken(m("C"), <<m("C").addr, y>>, x, s)
    BY <1>5, <1>10
  <2>2. r = Line(n) - 1 /\ c = Column(n) + 1
    BY <1>2, <1>3, <1>4, <1>10
  <2>3. m("C").addr = Units(r, c)
    BY <1>3, <2>2, SideIs DEF m, SideLine, SideColumn
  <2>4. m("C").avail <=> Reachable(n, x, y, s, call)
    BY <1>3, <2>2, SideIs DEF m, SideLine, SideColumn, Reachable, r, c
  <2>5. Units(r, c) \in Int
    BY <1>3, <2>2, SizeAssumption DEF Units, At
  <2>6. CASE m("C").avail
    <3>1. Units(r, c) + 0 = m("C").addr
      BY <2>3, <2>5
    <3>2. Found(SampleAt(<<m("C").addr, y>>, x, s), Units(r, c), 0, x, y % s, s)
      BY <3>1, SampleFound
    <3>3. QED
      BY <2>1, <2>4, <2>6, <3>2, TakenFound, Zenon DEF Goal
  <2>7. CASE ~m("C").avail
    BY <2>1, <2>4, <2>7, TakenFound, Zenon DEF Goal
  <2>8. QED
    BY <2>6, <2>7
<1>11. CASE x = s /\ y >= 0
  <2>1. pix = NoPix
    BY <1>5, <1>11
  <2>2. r = Line(n) /\ c = Column(n) + 1
    BY <1>2, <1>3, <1>4, <1>11
  <2>3. QED
    BY <1>3, <2>1, <2>2 DEF Reachable, r, c, Goal
<1>12. QED
  BY <1>2, <1>6, <1>7, <1>8, <1>9, <1>10, <1>11

(* The rows of a pair. *)
RowFound(pix, n, unit, x, y, s) ==
    \E b \in 0..1, v \in 0..s - 1 : /\ Found(pix, unit, b, x, v, s)
                                    /\ RowOf(Field(unit), b, v, s) = Row(n, y, s) % (2 * s)

(* getAffNeighbour, but for the upper edge of a frame macroblock below a   *)
(* field pair, which the filter treats otherwise.                          *)
LEMMA PairNeighbour ==
    ASSUME NeighbourTypeOK, mbaff, NEW n \in Addresses, NEW s \in Sizes, NEW x \in -1..s, NEW y \in -1..s - 1,
           NEW call \in 0..1, Field(n - (n % 2)) = Field(n),
           call = 0 \/ x < 0 \/ y >= 0 \/ Field(n) \/ Bottom(n) \/ ~Field(Units(Line(n) - 1, Column(n)))
    PROVE  LET pix == getNeighbour(n, x, y, s, call)
               unit == Units(LineOf(n, y, s), ColumnOf(n, x, s))
           IN  IF Reachable(n, x, y, s, call) THEN RowFound(pix, n, unit, x, y, s) ELSE pix = NoPix
<1> DEFINE pix == getNeighbour(n, x, y, s, call)
           r == LineOf(n, y, s)
           c == ColumnOf(n, x, s)
           m(side) == CheckAvailabilityOfNeighbors(n, side, call)
           row == Row(n, y, s)
           Goal == IF Reachable(n, x, y, s, call) THEN RowFound(pix, n, Units(r, c), x, y, s) ELSE pix = NoPix
<1> SUFFICES Goal
  OBVIOUS
<1>1. s = 8 \/ s = 16
  BY DEF Sizes
<1>2. /\ Line(n) \in Lines /\ Column(n) \in Columns /\ n \div 2 = At(Line(n), Column(n)) /\ n \in Nat
      /\ Line(n) \in Nat /\ Column(n) \in Nat /\ n % 2 \in 0..1 /\ (Bottom(n) <=> n % 2 = 1)
      /\ n - (n % 2) = Units(Line(n), Column(n)) /\ n = Units(Line(n), Column(n)) + (n % 2)
  <2>1. NeighbourTypeOK /\ mbaff \in BOOLEAN
    BY DEF NeighbourTypeOK
  <2>2. /\ Line(n) \in Lines /\ Column(n) \in Columns /\ n \div 2 = At(Line(n), Column(n)) /\ n \in Nat
        /\ Line(n) \in Nat /\ Column(n) \in Nat
    BY <2>1, UnitGrid DEF Unit
  <2>3. QED
    BY <2>2 DEF Units, Bottom
<1>3. row = RowOf(Field(n), n % 2, y, s) /\ r = Line(n) + (row \div (2 * s)) /\ c = Column(n) + (x \div s)
  BY DEF LineOf, ColumnOf, Row, Tall
<1>4. LET lower == ~Field(n) /\ Bottom(n)
          mixed == call = 1 /\ ~Field(n) /\ m("B").avail /\ Field(m("B").addr)
      IN  /\ x < 0 /\ y < 0 /\ ~lower => pix = Taken(m("D"), Above(n, m("D").addr, y), x, s)
          /\ x < 0 /\ y < 0 /\ lower => pix = Taken(m("A"), LeftAbove(m("A").addr, y, s), x, s)
          /\ x < 0 /\ y >= 0 => pix = Taken(m("A"), Left(n, m("A").addr, y, s), x, s)
          /\ x \in 0..s - 1 /\ y < 0 /\ lower => pix = SampleAt(<<n - 1, y>>, x, s)
          /\ x \in 0..s - 1 /\ y < 0 /\ ~lower /\ ~mixed => pix = Taken(m("B"), Above(n, m("B").addr, y), x, s)
          /\ x \in 0..s - 1 /\ y < 0 /\ ~lower /\ mixed => pix = Taken(m("B"), <<m("B").addr, y>>, x, s)
          /\ x \in 0..s - 1 /\ y >= 0 /\ call # 2 => pix = SampleAt(<<n, y>>, x, s)
          /\ x = s /\ y < 0 /\ ~lower => pix = Taken(m("C"), Above(n, m("C").addr, y), x, s)
          /\ x = s /\ (y >= 0 \/ lower) => pix = NoPix
  BY ZenonT(60), PairCases
<1>5. y < 0 => y = -1 /\ row = RowOf(Field(n), n % 2, -1, s)
  <2>1. y < 0 => y = -1
    BY <1>1
  <2>2. QED
    BY <1>3, <2>1
<1>6. Field(n) \in BOOLEAN
  BY DEF Field, NeighbourTypeOK
<1>7. /\ y >= 0 => r = Line(n) /\ row % (2 * s) = row
      /\ y < 0 /\ (Field(n) \/ ~Bottom(n)) => r = Line(n) - 1
      /\ y < 0 /\ ~Field(n) /\ Bottom(n) => r = Line(n) /\ row = s - 1 /\ row % (2 * s) = s - 1
  <2> HIDE DEF row, r
  <2>1. CASE s = 8
    BY <1>2, <1>3, <1>6, <2>1 DEF RowOf
  <2>2. CASE s = 16
    BY <1>2, <1>3, <1>6, <2>2 DEF RowOf
  <2>3. QED
    BY <1>1, <2>1, <2>2
<1>8. /\ x < 0 => c = Column(n) - 1
      /\ x \in 0..s - 1 => c = Column(n)
      /\ x = s => c = Column(n) + 1
  BY <1>1, <1>2, <1>3
<1>9. r \in Int /\ c \in Int /\ Units(r, c) \in Int
  <2> HIDE DEF r, c
  <2>1. r \in Int /\ c \in Int
    BY <1>1, <1>2, <1>7, <1>8
  <2>2. QED
    BY <2>1, SizeAssumption DEF Units, At
<1> HIDE DEF pix, r, c, m, row, Goal
<1>10. CASE x < 0 /\ y < 0 /\ (Field(n) \/ ~Bottom(n))
  <2>1. pix = Taken(m("D"), Above(n, m("D").addr, -1), x, s)
    <3>1. y = -1
      BY <1>10
    <3>2. QED
      BY <1>4, <1>10, <3>1
  <2>2. r = Line(n) - 1 /\ c = Column(n) - 1
    BY <1>7, <1>8, <1>10
  <2>3. m("D").addr = Units(r, c)
    BY <1>2, <2>2, SideIs DEF m, SideLine, SideColumn
  <2>4. m("D").avail <=> Reachable(n, x, y, s, call)
    BY <1>2, <2>2, SideIs DEF m, SideLine, SideColumn, Reachable, r, c
  <2>5. PICK b \in 0..1, v \in 0..s - 1 :
            /\ Above(n, Units(r, c), -1)[1] = Units(r, c) + b /\ Above(n, Units(r, c), -1)[2] % s = v
            /\ RowOf(Field(Units(r, c)), b, v, s) = row % (2 * s)
    <3>1. (Field(n) \/ ~Bottom(n)) /\ y < 0
      BY <1>10
    <3>2. \E b \in 0..1, v \in 0..s - 1 :
              /\ Above(n, Units(r, c), -1)[1] = Units(r, c) + b /\ Above(n, Units(r, c), -1)[2] % s = v
              /\ RowOf(Field(Units(r, c)), b, v, s) = RowOf(Field(n), n % 2, -1, s) % (2 * s)
      BY <1>2, <1>9, <3>1, AboveIs
    <3>3. QED
      BY <1>5, <3>1, <3>2
  <2>6. QED
    BY <2>1, <2>3, <2>4, <2>5 DEF Taken, SampleAt, Found, RowFound, row, Goal
<1>11. CASE x < 0 /\ y < 0 /\ ~Field(n) /\ Bottom(n)
  <2>1. y = -1
    BY <1>11
  <2>2. pix = Taken(m("A"), LeftAbove(m("A").addr, y, s), x, s)
    BY <1>4, <1>11
  <2>3. r = Line(n) + 0 /\ c = Column(n) - 1
    BY <1>2, <1>7, <1>8, <1>11
  <2>4. m("A").addr = Units(r, c)
    BY <1>2, <2>3, SideIs DEF m, SideLine, SideColumn
  <2>5. m("A").avail <=> Reachable(n, x, y, s, call)
    BY <1>2, <2>3, SideIs DEF m, SideLine, SideColumn, Reachable, r, c
  <2>6. row % (2 * s) = s - 1
    BY <1>7, <1>11
  <2>7. CASE m("A").avail /\ Field(Units(r, c))
    <3> DEFINE v == s \div 2 - 1
    <3>1. ((y + s) \div 2) % s = v /\ v \in 0..s - 1 /\ 1 \in 0..1
      BY <1>1, <2>1
    <3>2. RowOf(TRUE, 1, v, s) = s - 1
      BY <1>1 DEF RowOf
    <3> HIDE DEF v
    <3>3. Found(pix, Units(r, c), 1, x, v, s)
      BY <2>2, <2>4, <2>7, <3>1 DEF LeftAbove, Taken, SampleAt, Found
    <3>4. RowOf(Field(Units(r, c)), 1, v, s) = s - 1
      BY <2>7, <3>2 DEF RowOf
    <3>5. QED
      BY <2>5, <2>6, <2>7, <3>1, <3>3, <3>4 DEF RowFound, row, Goal
  <2>8. CASE m("A").avail /\ ~Field(Units(r, c))
    <3>1. y % s = s - 1 /\ s - 1 \in 0..s - 1 /\ 0 \in 0..1 /\ Units(r, c) + 0 = Units(r, c)
      BY <1>1, <1>9, <2>1
    <3>2. RowOf(Field(Units(r, c)), 0, s - 1, s) = s - 1
      BY <1>1, <2>8 DEF RowOf
    <3>3. Found(pix, Units(r, c), 0, x, s - 1, s)
      BY <2>2, <2>4, <2>8, <3>1 DEF LeftAbove, Taken, SampleAt, Found
    <3>4. QED
      BY <2>5, <2>6, <2>8, <3>1, <3>2, <3>3 DEF RowFound, row, Goal
  <2>9. CASE ~m("A").avail
    BY <2>2, <2>5, <2>9 DEF Taken, Goal
  <2>10. QED
    BY <2>7, <2>8, <2>9
<1>12. CASE x < 0 /\ y >= 0
  <2>1. pix = Taken(m("A"), Left(n, m("A").addr, y, s), x, s)
    BY <1>4, <1>12
  <2>2. r = Line(n) + 0 /\ c = Column(n) - 1
    BY <1>2, <1>7, <1>8, <1>12
  <2>3. m("A").addr = Units(r, c)
    BY <1>2, <2>2, SideIs DEF m, SideLine, SideColumn
  <2>4. m("A").avail <=> Reachable(n, x, y, s, call)
    BY <1>2, <2>2, SideIs DEF m, SideLine, SideColumn, Reachable, r, c
  <2>5. y \in 0..s - 1
    BY <1>1, <1>12
  <2>6. PICK b \in 0..1, v \in 0..s - 1 : /\ Left(n, Units(r, c), y, s) = <<Units(r, c) + b, v>>
                                          /\ RowOf(Field(Units(r, c)), b, v, s) = row
    <3>1. \E b \in 0..1, v \in 0..s - 1 : /\ Left(n, Units(r, c), y, s) = <<Units(r, c) + b, v>>
                                           /\ RowOf(Field(Units(r, c)), b, v, s) = RowOf(Field(n), n % 2, y, s)
      BY <1>2, <1>9, <2>5, LeftIs
    <3>2. QED
      BY <1>3, <3>1
  <2>7. v % s = v
    BY <1>1
  <2>8. row % (2 * s) = row
    BY <1>7, <1>12
  <2>9. QED
    <3>1. Left(n, Units(r, c), y, s)[1] = Units(r, c) + b /\ Left(n, Units(r, c), y, s)[2] % s = v
      BY <2>6, <2>7
    <3>2. Found(SampleAt(Left(n, Units(r, c), y, s), x, s), Units(r, c), b, x, v, s)
      BY <3>1, SampleFound
    <3>3. RowFound(SampleAt(Left(n, Units(r, c), y, s), x, s), n, Units(r, c), x, y, s)
      BY <2>6, <2>8, <3>2 DEF RowFound, row
    <3>4. CASE m("A").avail
      <4>1. pix = SampleAt(Left(n, Units(r, c), y, s), x, s)
        BY <2>1, <2>3, <3>4 DEF Taken
      <4>2. QED
        BY <2>4, <3>3, <3>4, <4>1, Zenon DEF Goal
    <3>5. CASE ~m("A").avail
      BY <2>1, <2>4, <3>5, TakenFound, Zenon DEF Goal
    <3>6. QED
      BY <3>4, <3>5
<1>13. CASE x \in 0..s - 1 /\ y < 0 /\ (Field(n) \/ ~Bottom(n))
  <2>1. y = -1
    BY <1>13
  <2>2. r = Line(n) - 1 /\ c = Column(n) + 0 /\ c = Column(n)
    BY <1>2, <1>7, <1>8, <1>13
  <2>3. m("B").addr = Units(r, c)
    BY <1>2, <2>2, SideIs DEF m, SideLine, SideColumn
  <2>4. m("B").avail <=> Reachable(n, x, y, s, call)
    BY <1>2, <2>2, SideIs DEF m, SideLine, SideColumn, Reachable, r, c
  <2>5. ~(m("B").avail /\ call = 1 /\ ~Field(n) /\ Field(m("B").addr))
    BY <1>13, <2>2, <2>3
  <2>6. pix = Taken(m("B"), Above(n, m("B").addr, -1), x, s)
    BY <1>4, <1>13, <2>1, <2>5
  <2>7. PICK b \in 0..1, v \in 0..s - 1 :
            /\ Above(n, Units(r, c), -1)[1] = Units(r, c) + b /\ Above(n, Units(r, c), -1)[2] % s = v
            /\ RowOf(Field(Units(r, c)), b, v, s) = row % (2 * s)
    <3>1. (Field(n) \/ ~Bottom(n)) /\ y < 0
      BY <1>13
    <3>2. \E b \in 0..1, v \in 0..s - 1 :
              /\ Above(n, Units(r, c), -1)[1] = Units(r, c) + b /\ Above(n, Units(r, c), -1)[2] % s = v
              /\ RowOf(Field(Units(r, c)), b, v, s) = RowOf(Field(n), n % 2, -1, s) % (2 * s)
      BY <1>2, <1>9, <3>1, AboveIs
    <3>3. QED
      BY <1>5, <3>1, <3>2
  <2>8. QED
    BY <2>3, <2>4, <2>6, <2>7 DEF Taken, SampleAt, Found, RowFound, row, Goal
<1>14. CASE x \in 0..s - 1 /\ y < 0 /\ ~Field(n) /\ Bottom(n)
  <2>1. y = -1
    BY <1>14
  <2>2. pix = SampleAt(<<n - 1, y>>, x, s)
    BY <1>4, <1>14
  <2>3. r = Line(n) /\ c = Column(n)
    BY <1>7, <1>8, <1>14
  <2>4. Reachable(n, x, y, s, call)
    BY <1>2, <2>3 DEF Reachable, r, c
  <2>5. n - 1 = Units(r, c) + 0 /\ y % s = s - 1 /\ s - 1 \in 0..s - 1 /\ 0 \in 0..1
    BY <1>1, <1>2, <1>14, <2>1, <2>3
  <2>6. Field(Units(r, c)) = FALSE
    BY <1>2, <1>6, <1>14, <2>3
  <2>7. RowOf(Field(Units(r, c)), 0, s - 1, s) = row % (2 * s)
    BY <1>1, <1>7, <1>14, <2>6 DEF RowOf
  <2>8. Found(pix, Units(r, c), 0, x, s - 1, s)
    BY <2>2, <2>5 DEF Taken, SampleAt, Found
  <2>9. QED
    BY <2>4, <2>5, <2>7, <2>8 DEF RowFound, row, Goal
<1>15. CASE x \in 0..s - 1 /\ y >= 0
  <2>1. pix = SampleAt(<<n, y>>, x, s)
    <3>1. call # 2
      OBVIOUS
    <3>2. QED
      BY <1>4, <1>15, <3>1
  <2>2. r = Line(n) /\ c = Column(n)
    BY <1>7, <1>8, <1>15
  <2>3. Reachable(n, x, y, s, call)
    BY <1>2, <2>2 DEF Reachable, r, c
  <2>4. n = Units(r, c) + (n % 2) /\ y % s = y /\ y \in 0..s - 1
    <3>1. n = Units(r, c) + (n % 2)
      BY <1>2, <2>2
    <3>2. y % s = y /\ y \in 0..s - 1
      BY <1>1, <1>15
    <3>3. QED
      BY <3>1, <3>2
  <2>5. RowOf(Field(Units(r, c)), n % 2, y, s) = row % (2 * s)
    BY <1>2, <1>3, <1>7, <1>15, <2>2
  <2>6. Found(pix, Units(r, c), n % 2, x, y, s)
    BY <2>1, <2>4 DEF Taken, SampleAt, Found
  <2>7. QED
    BY <1>2, <2>3, <2>4, <2>5, <2>6 DEF RowFound, row, Goal
<1>16. CASE x = s /\ y < 0 /\ (Field(n) \/ ~Bottom(n))
  <2>1. y = -1
    BY <1>16
  <2>2. r = Line(n) - 1 /\ c = Column(n) + 1
    BY <1>2, <1>7, <1>8, <1>16
  <2>3. m("C").addr = Units(r, c)
    BY <1>2, <2>2, SideIs DEF m, SideLine, SideColumn
  <2>4. m("C").avail <=> Reachable(n, x, y, s, call)
    BY <1>2, <2>2, SideIs DEF m, SideLine, SideColumn, Reachable, r, c
  <2>5. pix = Taken(m("C"), Above(n, m("C").addr, -1), x, s)
    BY <1>4, <1>16, <2>1
  <2>6. PICK b \in 0..1, v \in 0..s - 1 :
            /\ Above(n, Units(r, c), -1)[1] = Units(r, c) + b /\ Above(n, Units(r, c), -1)[2] % s = v
            /\ RowOf(Field(Units(r, c)), b, v, s) = row % (2 * s)
    <3>1. (Field(n) \/ ~Bottom(n)) /\ y < 0
      BY <1>16
    <3>2. \E b \in 0..1, v \in 0..s - 1 :
              /\ Above(n, Units(r, c), -1)[1] = Units(r, c) + b /\ Above(n, Units(r, c), -1)[2] % s = v
              /\ RowOf(Field(Units(r, c)), b, v, s) = RowOf(Field(n), n % 2, -1, s) % (2 * s)
      BY <1>2, <1>9, <3>1, AboveIs
    <3>3. QED
      BY <1>5, <3>1, <3>2
  <2>7. QED
    BY <2>3, <2>4, <2>5, <2>6 DEF Taken, SampleAt, Found, RowFound, row, Goal
<1>17. CASE x = s /\ (y >= 0 \/ (~Field(n) /\ Bottom(n)))
  <2>1. pix = NoPix
    BY <1>4, <1>17
  <2>2. r = Line(n) /\ c = Column(n) + 1
    BY <1>7, <1>8, <1>17
  <2>3. QED
    BY <2>1, <2>2 DEF Reachable, r, c, Goal
<1>18. QED
  <2>1. x < 0 \/ x \in 0..s - 1 \/ x = s
    BY <1>1
  <2>2. y < 0 \/ y >= 0
    OBVIOUS
  <2>3. CASE y >= 0
    <3>1. CASE x < 0
      BY <1>12, <2>3, <3>1
    <3>2. CASE x \in 0..s - 1
      BY <1>15, <2>3, <3>2
    <3>3. CASE x = s
      <4>1. x = s /\ (y >= 0 \/ (~Field(n) /\ Bottom(n)))
        BY <2>3, <3>3
      <4>2. QED
        BY <1>17, <4>1, Zenon
    <3>4. QED
      BY <2>1, <3>1, <3>2, <3>3, Zenon
  <2>4. CASE y < 0 /\ ~Field(n) /\ Bottom(n)
    BY <1>11, <1>14, <1>17, <2>1, <2>4
  <2>5. CASE y < 0 /\ (Field(n) \/ ~Bottom(n))
    BY <1>10, <1>13, <1>16, <2>1, <2>5
  <2>6. QED
    BY <2>2, <2>3, <2>4, <2>5, Zenon

(* The parts of the invariant: slices are numbered from 0; a pair is of    *)
(* one slice and of one kind; while the picture is decoded its last slice  *)
(* ends with the current macroblock, and with pairs nothing is left out.   *)
SliceNumbers == \A m \in Addresses : mb_data[m].slice_nr \in -1..Len(LFDisableIdc) - 1

PairsAgree == mbaff => \A m \in Addresses : Bottom(m) /\ mb_data[m].slice_nr # -1 => mb_data[m] = mb_data[m - 1]

Begun ==
    ~filtering =>
        /\ mbaff => \A m \in Addresses : mb_data[m].slice_nr # -1 <=> m <= current_mb_nr
        /\ \A m \in Addresses : mb_data[m].slice_nr = Len(LFDisableIdc) - 1 => m <= current_mb_nr \/ Len(LFDisableIdc) = 0
        /\ current_mb_nr = -1 => \A m \in Addresses : mb_data[m].slice_nr = -1
        /\ current_mb_nr # -1 => Len(LFDisableIdc) > 0 /\ mb_data[current_mb_nr].slice_nr = Len(LFDisableIdc) - 1

NoneLeft == filtering => current_mb_nr # -1 /\ \A m \in Addresses : mb_data[m].slice_nr # -1

NeighbourInv == NeighbourTypeOK /\ SliceNumbers /\ PairsAgree /\ Begun /\ NoneLeft

(* The initial states satisfy the invariant.                               *)
LEMMA NeighboursStart == NeighboursInit => NeighbourInv
<1> SUFFICES ASSUME NeighboursInit PROVE NeighbourInv
  OBVIOUS
<1>1. /\ mbaff = FALSE /\ filtering = FALSE /\ current_mb_nr = -1 /\ LFDisableIdc = <<>>
      /\ mb_data = [n \in Addresses |-> [slice_nr |-> -1, mb_field |-> FALSE]]
  BY DEF NeighboursInit
<1>2. NeighbourTypeOK
  <2>1. mb_data \in [Addresses -> [slice_nr : Int, mb_field : BOOLEAN]]
    BY <1>1
  <2>2. LFDisableIdc \in Seq(LFDisableIdcs)
    BY <1>1
  <2>3. mbaff \in BOOLEAN /\ filtering \in BOOLEAN /\ current_mb_nr \in Addresses \cup {-1}
    BY <1>1
  <2>4. QED
    BY <2>1, <2>2, <2>3 DEF NeighbourTypeOK
<1>3. \A m \in Addresses : mb_data[m].slice_nr = -1
  BY <1>1
<1>4. Len(LFDisableIdc) = 0
  BY <1>1
<1>5. SliceNumbers
  BY <1>3, <1>4 DEF SliceNumbers
<1>6. PairsAgree
  BY <1>1 DEF PairsAgree
<1>7. Begun
  BY <1>1, <1>3, <1>4 DEF Begun
<1>8. NoneLeft
  BY <1>1 DEF NoneLeft
<1>9. QED
  BY <1>2, <1>5, <1>6, <1>7, <1>8 DEF NeighbourInv

(* What DecodeMacroblock leaves: n is of slice k, all others as they were. *)
LEMMA DecodedOne ==
    ASSUME NeighbourInv, NEW n, NEW k \in Nat, DecodeMacroblock(n, k)
    PROVE  /\ n \in Addresses /\ mb_data[n].slice_nr = -1 /\ current_mb_nr' = n
           /\ mbaff' = mbaff /\ filtering' = filtering
           /\ mb_data' \in [Addresses -> [slice_nr : Int, mb_field : BOOLEAN]]
           /\ mb_data'[n].slice_nr = k
           /\ mbaff /\ Bottom(n) => mb_data'[n].mb_field = mb_data[n - 1].mb_field
           /\ \A m \in Addresses \ {n} : mb_data'[m] = mb_data[m]
<1>1. PICK field \in BOOLEAN :
          /\ mbaff /\ Bottom(n) => field = mb_data[n - 1].mb_field
          /\ mb_data' = [mb_data EXCEPT ![n] = [slice_nr |-> k, mb_field |-> field]]
  BY DEF DecodeMacroblock, InSlice
<1>2. mb_data \in [Addresses -> [slice_nr : Int, mb_field : BOOLEAN]]
  BY DEF NeighbourInv, NeighbourTypeOK
<1>3. n \in Addresses /\ mb_data[n].slice_nr = -1
  BY DEF DecodeMacroblock, InSlice, Decoded
<1> DEFINE mb == [slice_nr |-> k, mb_field |-> field]
<1>4. mb \in [slice_nr : Int, mb_field : BOOLEAN] /\ mb.slice_nr = k /\ mb.mb_field = field
  BY <1>1
<1>5. mb_data' = [mb_data EXCEPT ![n] = mb]
  BY <1>1
<1> HIDE DEF mb
<1>6. /\ mb_data' \in [Addresses -> [slice_nr : Int, mb_field : BOOLEAN]]
      /\ mb_data'[n] = mb
      /\ \A m \in Addresses \ {n} : mb_data'[m] = mb_data[m]
  BY <1>2, <1>3, <1>4, <1>5
<1>7. QED
  BY <1>1, <1>3, <1>4, <1>6 DEF DecodeMacroblock, InSlice

(* A macroblock decoded into slice k, the last one, which goes on or       *)
(* begins with it.                                                         *)
LEMMA DecodingKeeps ==
    ASSUME NeighbourInv, ~filtering, NEW n, NEW k \in Nat, DecodeMacroblock(n, k),
           LFDisableIdc' \in Seq(LFDisableIdcs), k = Len(LFDisableIdc') - 1, Len(LFDisableIdc) <= k + 1,
           mbaff => n = current_mb_nr + 1,
           \A m \in Addresses : mb_data[m].slice_nr = k => m <= n,
           mbaff /\ Bottom(n) => mb_data[n - 1].slice_nr = k
    PROVE  NeighbourInv'
<1>1. /\ n \in Addresses /\ mb_data[n].slice_nr = -1 /\ current_mb_nr' = n
      /\ mbaff' = mbaff /\ filtering' = filtering
      /\ mb_data' \in [Addresses -> [slice_nr : Int, mb_field : BOOLEAN]]
      /\ mb_data'[n].slice_nr = k
      /\ mbaff /\ Bottom(n) => mb_data'[n].mb_field = mb_data[n - 1].mb_field
      /\ \A m \in Addresses \ {n} : mb_data'[m] = mb_data[m]
  BY DecodedOne
<1>2. NeighbourTypeOK /\ SliceNumbers /\ PairsAgree /\ Begun /\ ~filtering
  BY DEF NeighbourInv
<1>3. NeighbourTypeOK'
  <2>1. mbaff \in BOOLEAN /\ filtering \in BOOLEAN
    BY <1>2 DEF NeighbourTypeOK
  <2>2. mbaff' \in BOOLEAN /\ filtering' \in BOOLEAN /\ current_mb_nr' \in Addresses \cup {-1}
    BY <1>1, <2>1
  <2>3. QED
    BY <1>1, <2>2 DEF NeighbourTypeOK, Addresses, PicSizeInMbs
<1>4. Addresses' = Addresses /\ (\A m : Bottom(m)' = Bottom(m)) /\ n \in Nat /\ \A m \in Addresses : m \in Nat
  BY <1>1, SizeIs DEF Addresses, PicSizeInMbs, Bottom
<1>5. Len(LFDisableIdc) \in Nat /\ Len(LFDisableIdc') \in Nat /\ Len(LFDisableIdc') = k + 1
  BY <1>2 DEF NeighbourTypeOK
<1>6. \A m \in Addresses : mb_data[m].slice_nr \in Int /\ mb_data'[m].slice_nr \in Int
  BY <1>1, <1>2 DEF NeighbourTypeOK
<1>7. \A m \in Addresses : mb_data'[m].slice_nr \in -1..k
  BY <1>1, <1>2, <1>5 DEF SliceNumbers
<1>8. SliceNumbers'
  BY <1>4, <1>5, <1>7 DEF SliceNumbers
<1>9. PairsAgree'
  <2>1. SUFFICES ASSUME mbaff, NEW m \in Addresses, Bottom(m), mb_data'[m].slice_nr # -1
                 PROVE  mb_data'[m] = mb_data'[m - 1]
    BY <1>1, <1>4 DEF PairsAgree
  <2>2. m \in Nat /\ m - 1 \in Addresses /\ m - 1 # m
    <3>1. m \in Nat /\ m % 2 = 1
      BY <1>4, <2>1 DEF Bottom
    <3>2. m # 0
      BY <3>1
    <3>3. PicSizeInMbs \in Nat
      BY SizeIs
    <3>4. QED
      BY <2>1, <3>1, <3>2, <3>3 DEF Addresses
  <2>3. CASE m = n
    <3>1. mb_data'[n - 1] = mb_data[n - 1]
      BY <1>1, <2>2, <2>3
    <3>2. mb_data'[n].slice_nr = mb_data'[n - 1].slice_nr /\ mb_data'[n].mb_field = mb_data'[n - 1].mb_field
      BY <1>1, <2>1, <2>3, <3>1
    <3>3. mb_data'[n] \in [slice_nr : Int, mb_field : BOOLEAN] /\ mb_data'[n - 1] \in [slice_nr : Int, mb_field : BOOLEAN]
      BY <1>1, <2>2, <2>3
    <3>4. QED
      BY <2>3, <3>2, <3>3
  <2>4. CASE m # n
    <3>1. mb_data'[m] = mb_data[m]
      BY <1>1, <2>4
    <3>2. mb_data[m] = mb_data[m - 1]
      BY <1>2, <2>1, <3>1 DEF PairsAgree
    <3>3. mb_data[m - 1].slice_nr # -1
      BY <2>1, <3>1, <3>2
    <3>4. m - 1 # n
      BY <1>1, <3>3
    <3>5. mb_data'[m - 1] = mb_data[m - 1]
      BY <1>1, <2>2, <3>4
    <3>6. QED
      BY <3>1, <3>2, <3>5
  <2>5. QED
    BY <2>3, <2>4
<1>10. Begun'
  <2>1. ASSUME mbaff, NEW m \in Addresses PROVE mb_data'[m].slice_nr # -1 <=> m <= n
    <3>1. mb_data[m].slice_nr # -1 <=> m <= current_mb_nr
      BY <1>2, <2>1 DEF Begun
    <3>2. n = current_mb_nr + 1
      BY <2>1
    <3>3. current_mb_nr \in Int /\ m \in Nat
      BY <1>2, <1>4 DEF NeighbourTypeOK
    <3>4. CASE m = n
      BY <1>1, <1>4, <3>4
    <3>5. CASE m # n
      <4>1. mb_data'[m] = mb_data[m]
        BY <1>1, <3>5
      <4>2. m <= n <=> m <= current_mb_nr
        BY <3>2, <3>3, <3>5
      <4>3. QED
        BY <3>1, <4>1, <4>2
    <3>6. QED
      BY <3>4, <3>5
  <2>2. ASSUME NEW m \in Addresses, mb_data'[m].slice_nr = k PROVE m <= n
    <3>1. CASE m = n
      BY <1>4, <3>1
    <3>2. CASE m # n
      BY <1>1, <2>2, <3>2
    <3>3. QED
      BY <3>1, <3>2
  <2>3. n # -1
    BY <1>4
  <2>4. QED
    BY <1>1, <1>4, <1>5, <2>1, <2>2, <2>3 DEF Begun
<1>11. NoneLeft'
  BY <1>1 DEF NoneLeft
<1>12. QED
  BY <1>3, <1>8, <1>9, <1>10, <1>11 DEF NeighbourInv

(* The first macroblock of a slice keeps it.                               *)
LEMMA StartMbSliceKeeps == NeighbourInv /\ StartMbSlice => NeighbourInv'
<1> SUFFICES ASSUME NeighbourInv, StartMbSlice PROVE NeighbourInv'
  OBVIOUS
<1>1. PICK idc \in LFDisableIdcs : LFDisableIdc' = Append(LFDisableIdc, idc)
  BY DEF StartMbSlice
<1>2. PICK n \in Addresses : /\ mbaff => n = current_mb_nr + 1 /\ ~Bottom(n)
                             /\ DecodeMacroblock(n, Len(LFDisableIdc))
  BY DEF StartMbSlice
<1>3. ~filtering /\ LFDisableIdc \in Seq(LFDisableIdcs) /\ SliceNumbers
  BY DEF StartMbSlice, NeighbourInv, NeighbourTypeOK
<1>4. /\ LFDisableIdc' \in Seq(LFDisableIdcs) /\ Len(LFDisableIdc) \in Nat
      /\ Len(LFDisableIdc') = Len(LFDisableIdc) + 1
  BY <1>1, <1>3
<1>5. \A m \in Addresses : mb_data[m].slice_nr # Len(LFDisableIdc)
  BY <1>3, <1>4 DEF SliceNumbers
<1> DEFINE k == Len(LFDisableIdc)
<1>6. k \in Nat /\ k = Len(LFDisableIdc') - 1 /\ Len(LFDisableIdc) <= k + 1 /\ DecodeMacroblock(n, k)
  BY <1>2, <1>4
<1>7. \A m \in Addresses : mb_data[m].slice_nr # k
  BY <1>5
<1> HIDE DEF k
<1>8. QED
  BY <1>2, <1>3, <1>4, <1>6, <1>7, DecodingKeeps

(* So does each further one of the slice.                                  *)
LEMMA start_macroblockKeeps == NeighbourInv /\ start_macroblock => NeighbourInv'
<1> SUFFICES ASSUME NeighbourInv, start_macroblock PROVE NeighbourInv'
  OBVIOUS
<1> DEFINE n == current_mb_nr + 1
           k == Len(LFDisableIdc) - 1
<1>1. ~filtering /\ current_mb_nr # -1 /\ DecodeMacroblock(n, k) /\ LFDisableIdc' = LFDisableIdc
  BY DEF start_macroblock
<1>2. /\ LFDisableIdc \in Seq(LFDisableIdcs) /\ Begun /\ current_mb_nr \in Addresses
  BY <1>1 DEF NeighbourInv, NeighbourTypeOK
<1>3. Len(LFDisableIdc) \in Nat /\ Len(LFDisableIdc) > 0 /\ mb_data[current_mb_nr].slice_nr = k
  BY <1>1, <1>2 DEF Begun
<1>4. current_mb_nr \in Nat /\ n - 1 = current_mb_nr
  BY <1>2, SizeIs DEF Addresses
<1>5. k \in Nat /\ k = Len(LFDisableIdc') - 1 /\ Len(LFDisableIdc) <= k + 1
  BY <1>1, <1>3
<1>6. \A m \in Addresses : mb_data[m].slice_nr = k => m <= n
  <2>1. \A m \in Addresses : mb_data[m].slice_nr = k => m <= current_mb_nr
    BY <1>1, <1>2, <1>3 DEF Begun
  <2>2. \A m \in Addresses : m \in Nat
    BY SizeIs DEF Addresses
  <2>3. QED
    BY <1>4, <2>1, <2>2
<1>7. mb_data[n - 1].slice_nr = k
  BY <1>3, <1>4
<1>8. mbaff => n = current_mb_nr + 1
  OBVIOUS
<1> HIDE DEF k, n
<1>9. QED
  BY <1>1, <1>2, <1>5, <1>6, <1>7, <1>8, DecodingKeeps

(* So does the choice of pairs, before anything is decoded.                *)
LEMMA ChooseMbaffKeeps == NeighbourInv /\ ChooseMbaff => NeighbourInv'
<1> SUFFICES ASSUME NeighbourInv, ChooseMbaff PROVE NeighbourInv'
  OBVIOUS
<1>1. /\ current_mb_nr = -1 /\ mbaff' = TRUE
      /\ mb_data' = mb_data /\ LFDisableIdc' = LFDisableIdc /\ current_mb_nr' = current_mb_nr /\ filtering' = filtering
  BY DEF ChooseMbaff
<1>2. NeighbourTypeOK /\ SliceNumbers /\ Begun /\ NoneLeft
  BY DEF NeighbourInv
<1>3. Addresses' = Addresses /\ \A m \in Addresses : m \in Nat
  BY SizeIs DEF Addresses, PicSizeInMbs
<1>4. filtering = FALSE /\ \A m \in Addresses : mb_data[m].slice_nr = -1
  BY <1>1, <1>2 DEF NoneLeft, Begun, NeighbourTypeOK
<1>5. NeighbourTypeOK'
  BY <1>1, <1>2, <1>3 DEF NeighbourTypeOK
<1>6. SliceNumbers' /\ NoneLeft'
  BY <1>1, <1>2, <1>3 DEF SliceNumbers, NoneLeft
<1>7. PairsAgree'
  BY <1>1, <1>3, <1>4 DEF PairsAgree
<1>8. Begun'
  <2>1. \A m \in Addresses : ~(m <= -1)
    BY <1>3
  <2>2. \A m \in Addresses : mb_data[m].slice_nr = Len(LFDisableIdc) - 1 => m <= current_mb_nr \/ Len(LFDisableIdc) = 0
    BY <1>2, <1>4 DEF Begun
  <2>3. QED
    BY <1>1, <1>3, <1>4, <2>1, <2>2 DEF Begun
<1>9. QED
  BY <1>5, <1>6, <1>7, <1>8 DEF NeighbourInv

(* And the filter, which decodes nothing.                                  *)
LEMMA DeblockPictureKeeps == NeighbourInv /\ DeblockPicture => NeighbourInv'
<1> SUFFICES ASSUME NeighbourInv, DeblockPicture PROVE NeighbourInv'
  OBVIOUS
<1>1. /\ Decoded = Addresses /\ current_mb_nr' \in Addresses /\ filtering' = TRUE
      /\ mbaff' = mbaff /\ mb_data' = mb_data /\ LFDisableIdc' = LFDisableIdc
  BY DEF DeblockPicture
<1>2. NeighbourTypeOK /\ SliceNumbers /\ PairsAgree
  BY DEF NeighbourInv
<1>3. Addresses' = Addresses /\ (\A m : Bottom(m)' = Bottom(m)) /\ \A m \in Addresses : m \in Nat
  BY SizeIs DEF Addresses, PicSizeInMbs, Bottom
<1>4. NeighbourTypeOK'
  BY <1>1, <1>2, <1>3 DEF NeighbourTypeOK
<1>5. SliceNumbers' /\ PairsAgree'
  BY <1>1, <1>2, <1>3 DEF SliceNumbers, PairsAgree
<1>6. Begun'
  BY <1>1 DEF Begun
<1>7. NoneLeft'
  BY <1>1, <1>3 DEF NoneLeft, Decoded
<1>8. QED
  BY <1>4, <1>5, <1>6, <1>7 DEF NeighbourInv

(* Every step keeps the invariant.                                         *)
LEMMA NeighboursStep == NeighbourInv /\ [NeighboursNext]_neighbourVars => NeighbourInv'
<1> SUFFICES ASSUME NeighbourInv, [NeighboursNext]_neighbourVars PROVE NeighbourInv'
  OBVIOUS
<1>1. CASE ChooseMbaff
  BY <1>1, ChooseMbaffKeeps
<1>2. CASE StartMbSlice
  BY <1>2, StartMbSliceKeeps
<1>3. CASE start_macroblock
  BY <1>3, start_macroblockKeeps
<1>4. CASE DeblockPicture
  BY <1>4, DeblockPictureKeeps
<1>5. CASE UNCHANGED neighbourVars
  <2>1. /\ mbaff' = mbaff /\ filtering' = filtering /\ mb_data' = mb_data
        /\ LFDisableIdc' = LFDisableIdc /\ current_mb_nr' = current_mb_nr
    BY <1>5 DEF neighbourVars
  <2>2. Addresses' = Addresses /\ \A m : Bottom(m)' = Bottom(m)
    BY DEF Addresses, PicSizeInMbs, Bottom
  <2>3. QED
    BY <2>1, <2>2 DEF NeighbourInv, NeighbourTypeOK, SliceNumbers, PairsAgree, Begun, NoneLeft
<1>6. QED
  BY <1>1, <1>2, <1>3, <1>4, <1>5 DEF NeighboursNext

(* getNeighbour finds a sample, decoded with the macroblock first, and it  *)
(* is the one that lies at the place asked for.                            *)
LeadsThere(first, n, x, y, s, call) ==
    LET pix == getNeighbour(n, x, y, s, call)
        p == Position(n, x, y, s)
        m == MbAt(p, s)
    IN  /\ pix.available = TRUE /\ pix.mb_addr = m /\ m \in Addresses
        /\ mb_data[m] = mb_data[first] /\ m # -1
        /\ Position(m, pix.x, pix.y, s) = p

(* In a picture without pairs, what getNeighbour finds and where.           *)
LEMMA FrameLeads ==
    ASSUME NeighbourTypeOK, ~mbaff, NEW n \in Addresses, NEW s \in Sizes, NEW x \in -1..s, NEW y \in -1..s - 1, NEW call
    PROVE  LET pix == getNeighbour(n, x, y, s, call)
               p == Position(n, x, y, s)
               r == LineOf(n, y, s)
               c == ColumnOf(n, x, s)
           IN  /\ r \in Int /\ c \in Int /\ r = Line(n) + (y \div s) /\ c = Column(n) + (x \div s)
               /\ p = <<Column(n) * s + x, Line(n) * s + y>>
               /\ MbAt(p, s) = IF c \in Columns /\ r \in Lines THEN At(r, c) ELSE -1
               /\ Units(r, c) = At(r, c)
               /\ c \in Columns /\ r \in Lines => At(r, c) \in Addresses /\ At(r, c) \in Nat
               /\ Reachable(n, x, y, s, call) => LeadsThere(At(r, c), n, x, y, s, call)
               /\ ~Reachable(n, x, y, s, call) => pix = NoPix
<1> DEFINE pix == getNeighbour(n, x, y, s, call)
           p == Position(n, x, y, s)
           m == MbAt(p, s)
           r == LineOf(n, y, s)
           c == ColumnOf(n, x, s)
<1>1. mbaff \in BOOLEAN /\ (s = 8 \/ s = 16)
  BY DEF NeighbourTypeOK, Sizes
<1>2. /\ Line(n) \in Lines /\ Column(n) \in Columns /\ n = At(Line(n), Column(n)) /\ n \in Nat
      /\ Line(n) \in Nat /\ Column(n) \in Nat
  BY <1>1, UnitGrid DEF Unit
<1>3. r = Line(n) + (y \div s) /\ c = Column(n) + (x \div s) /\ Lines = 0..PicHeight - 1
  BY DEF LineOf, ColumnOf, Row, Tall, Lines
<1>4. IF Reachable(n, x, y, s, call) THEN Found(pix, Units(r, c), 0, x, y % s, s) ELSE pix = NoPix
  BY <1>1, FrameNeighbour
<1> HIDE DEF pix, p, m, r, c
<1>5. p = <<Column(n) * s + x, Line(n) * s + y>>
  BY <1>1, <1>2, PositionIs DEF p
<1>6. x \in -s..2 * s - 1 /\ y \in -s..2 * s - 1 /\ r \in Int /\ c \in Int /\ Line(n) \in Int /\ Column(n) \in Int
  <2>1. CASE s = 8
    BY <1>2, <1>3, <2>1
  <2>2. CASE s = 16
    BY <1>2, <1>3, <2>2
  <2>3. QED
    BY <1>1, <2>1, <2>2
<1>7. m = IF c \in Columns /\ r \in Lines THEN At(r, c) ELSE -1
  <2>1. MbAt(<<Column(n) * s + x, Line(n) * s + y>>, s)
            = IF Column(n) + (x \div s) \in Columns /\ Line(n) + (y \div s) \in 0..PicHeight - 1
              THEN At(Line(n) + (y \div s), Column(n) + (x \div s)) ELSE -1
    BY <1>6, FrameAt
  <2>2. QED
    BY <1>3, <1>5, <2>1 DEF m
<1>8. Units(r, c) = At(r, c) /\ (c \in Columns /\ r \in Lines => At(r, c) \in Addresses /\ At(r, c) \in Nat)
  BY <1>1, <1>6, UnitGrid, SizeIs DEF Units, Addresses
<1>9. ASSUME Reachable(n, x, y, s, call) PROVE LeadsThere(At(r, c), n, x, y, s, call)
  <2>1. c \in Columns /\ r \in Lines
    BY <1>9 DEF Reachable, r, c
  <2>2. m = At(r, c) /\ m \in Nat /\ m = Units(r, c) + 0 /\ m # -1 /\ m \in Addresses
    BY <1>7, <1>8, <2>1
  <2>3. pix = [available |-> TRUE, mb_addr |-> m, x |-> x % s, y |-> y % s]
    BY <1>4, <1>9, <2>2 DEF Found
  <2>4. pix.available = TRUE /\ pix.mb_addr = m /\ pix.x = x % s /\ pix.y = y % s
    BY <2>3
  <2>5. Position(m, x % s, y % s, s) = p
    <3>1. Position(m, x % s, y % s, s) = <<c * s + (x % s), r * s + (y % s)>>
      <4>1. \A u, v : Position(At(r, c), u, v, s) = <<c * s + u, r * s + v>>
        BY <1>1, <1>6, <2>1, PositionIs
      <4>2. Position(At(r, c), x % s, y % s, s) = <<c * s + (x % s), r * s + (y % s)>>
        BY <4>1
      <4>3. QED
        BY <2>2, <4>2
    <3>2. c * s + (x % s) = Column(n) * s + x /\ r * s + (y % s) = Line(n) * s + y
      <4>1. CASE s = 8
        <5>1. x = 8 * (x \div 8) + (x % 8) /\ y = 8 * (y \div 8) + (y % 8)
          OBVIOUS
        <5>2. c = Column(n) + (x \div 8) /\ r = Line(n) + (y \div 8)
          BY <1>3, <4>1, Zenon
        <5>3. c * 8 + (x % 8) = Column(n) * 8 + x /\ r * 8 + (y % 8) = Line(n) * 8 + y
          BY <1>6, <5>1, <5>2
        <5>4. QED
          BY <4>1, <5>3, Zenon
      <4>2. CASE s = 16
        <5>1. x = 16 * (x \div 16) + (x % 16) /\ y = 16 * (y \div 16) + (y % 16)
          OBVIOUS
        <5>2. c = Column(n) + (x \div 16) /\ r = Line(n) + (y \div 16)
          BY <1>3, <4>2, Zenon
        <5>3. c * 16 + (x % 16) = Column(n) * 16 + x /\ r * 16 + (y % 16) = Line(n) * 16 + y
          BY <1>6, <5>1, <5>2
        <5>4. QED
          BY <4>2, <5>3, Zenon
      <4>3. QED
        BY <1>1, <4>1, <4>2
    <3>3. QED
      BY <1>5, <3>1, <3>2
  <2>6. QED
    BY <2>2, <2>4, <2>5 DEF LeadsThere, pix, p, m
<1>10. QED
  BY <1>3, <1>4, <1>5, <1>6, <1>7, <1>8, <1>9 DEF pix, p, m, r, c

(* In a picture without pairs.                                             *)
LEMMA AdjoinsInFrame ==
    ASSUME NeighbourInv, ~mbaff, ~filtering, current_mb_nr # -1, NEW s \in Sizes, NEW x \in -1..s, NEW y \in -1..s - 1
    PROVE  LET n == current_mb_nr
               pix == getNeighbour(n, x, y, s, 0)
               p == Position(n, x, y, s)
               m == MbAt(p, s)
           IN  /\ pix.available <=> m # -1 /\ mb_data[m].slice_nr = mb_data[n].slice_nr
               /\ pix.available => pix.mb_addr = m /\ Position(m, pix.x, pix.y, s) = p
<1> DEFINE n == current_mb_nr
           pix == getNeighbour(n, x, y, s, 0)
           p == Position(n, x, y, s)
           m == MbAt(p, s)
           r == LineOf(n, y, s)
           c == ColumnOf(n, x, s)
           Goal == /\ pix.available <=> m # -1 /\ mb_data[m].slice_nr = mb_data[n].slice_nr
                   /\ pix.available => pix.mb_addr = m /\ Position(m, pix.x, pix.y, s) = p
<1> SUFFICES Goal
  OBVIOUS
<1>1. NeighbourTypeOK /\ mbaff \in BOOLEAN /\ n \in Addresses /\ Begun /\ (s = 8 \/ s = 16)
  BY DEF NeighbourInv, NeighbourTypeOK, Sizes
<1>2. n = At(Line(n), Column(n)) /\ n \in Nat /\ Line(n) \in Nat /\ Column(n) \in Nat
  <2> HIDE DEF n
  <2>1. QED
    BY <1>1, UnitGrid DEF Unit
<1>3. /\ m = IF c \in Columns /\ r \in Lines THEN At(r, c) ELSE -1
      /\ Units(r, c) = At(r, c)
      /\ c \in Columns /\ r \in Lines => At(r, c) \in Addresses /\ At(r, c) \in Nat
      /\ Reachable(n, x, y, s, 0) => LeadsThere(At(r, c), n, x, y, s, 0)
      /\ ~Reachable(n, x, y, s, 0) => pix = NoPix
  <2> HIDE DEF n
  <2>1. QED
    BY <1>1, FrameLeads
<1>4. CASE Reachable(n, x, y, s, 0)
  <2>1. c \in Columns /\ r \in Lines
    BY <1>4 DEF Reachable
  <2>2. LeadsThere(At(r, c), n, x, y, s, 0)
    BY <1>3, <1>4
  <2>3. /\ pix.available = TRUE /\ pix.mb_addr = m /\ m # -1 /\ Position(m, pix.x, pix.y, s) = p
        /\ mb_data[m] = mb_data[At(r, c)]
    <3> HIDE DEF n
    <3>1. QED
      BY <2>2 DEF LeadsThere
  <2> HIDE DEF n, pix, p, m, r, c
  <2>4. mb_data[m].slice_nr = mb_data[n].slice_nr
    <3>1. CASE r = Line(n) /\ c = Column(n)
      BY <1>2, <2>3, <3>1
    <3>2. CASE ~(r = Line(n) /\ c = Column(n))
      BY <1>3, <1>4, <2>3, <3>2 DEF Reachable, r, c
    <3>3. QED
      BY <3>1, <3>2
  <2>5. QED
    BY <2>3, <2>4 DEF Goal
<1> HIDE DEF n, pix, p, m, r, c, Goal
<1>5. CASE ~Reachable(n, x, y, s, 0)
  <2>1. pix.available = FALSE
    BY <1>3, <1>5 DEF NoPix
  <2>2. m # -1 => mb_data[m].slice_nr # mb_data[n].slice_nr
    <3>1. SUFFICES ASSUME m # -1 PROVE mb_data[m].slice_nr # mb_data[n].slice_nr
      OBVIOUS
    <3>2. c \in Columns /\ r \in Lines /\ m = At(r, c) /\ m \in Addresses
      BY <1>3, <3>1
    <3>3. CASE r = Line(n) /\ c = Column(n) + 1
      <4>1. m = n + 1
        BY <1>2, <3>2, <3>3, SizeAssumption DEF At
      <4>2. QED
        <5>1. /\ \A a \in Addresses : mb_data[a].slice_nr = Len(LFDisableIdc) - 1
                                      => a <= current_mb_nr \/ Len(LFDisableIdc) = 0
              /\ Len(LFDisableIdc) > 0 /\ mb_data[current_mb_nr].slice_nr = Len(LFDisableIdc) - 1
          BY <1>1 DEF Begun
        <5>2. Len(LFDisableIdc) \in Nat
          BY <1>1 DEF NeighbourTypeOK
        <5>3. ~(m <= n)
          BY <1>2, <4>1
        <5>4. QED
          BY <3>2, <5>1, <5>2, <5>3 DEF n
    <3>4. CASE ~(r = Line(n) /\ c = Column(n) + 1)
      BY <1>3, <1>5, <3>2, <3>4 DEF Reachable, r, c
    <3>5. QED
      BY <3>3, <3>4
  <2>3. QED
    BY <2>1, <2>2 DEF Goal
<1>6. QED
  BY <1>4, <1>5

(* Where a sample at x, y of a macroblock of pairs lies, counted from the  *)
(* pair it falls in, and which macroblock is there.                        *)
LEMMA PairPlace ==
    ASSUME NeighbourTypeOK, mbaff, NEW n \in Addresses, NEW s \in Sizes, NEW x \in -1..s, NEW y \in -1..s - 1
    PROVE  LET p == Position(n, x, y, s)
               m == MbAt(p, s)
               r == LineOf(n, y, s)
               c == ColumnOf(n, x, s)
               row == Row(n, y, s)
               pair == 2 * At(r, c)
           IN  /\ r \in Int /\ c \in Int /\ pair \in Int /\ row \in -(2 * s)..2 * s - 1
               /\ row = RowOf(Field(n), n % 2, y, s) /\ r = Line(n) + (row \div (2 * s)) /\ c = Column(n) + (x \div s)
               /\ p = <<Column(n) * s + x, Line(n) * (2 * s) + row>>
               /\ p = <<c * s + (x % s), r * (2 * s) + (row % (2 * s))>>
               /\ c \in Columns /\ r \in PairLines
                  => m = pair + (IF Field(pair) THEN (row % (2 * s)) % 2 ELSE (row % (2 * s)) \div s)
               /\ c \in Columns /\ r \in PairLines => m \in {pair, pair + 1}
               /\ ~(c \in Columns /\ r \in PairLines) => m = -1
<1> DEFINE p == Position(n, x, y, s)
           m == MbAt(p, s)
           r == LineOf(n, y, s)
           c == ColumnOf(n, x, s)
           row == Row(n, y, s)
           pair == 2 * At(r, c)
<1>1. mbaff \in BOOLEAN /\ (s = 8 \/ s = 16)
  BY DEF NeighbourTypeOK, Sizes
<1>2. /\ Column(n) \in Columns /\ n % 2 \in 0..1 /\ n = 2 * At(Line(n), Column(n)) + (n % 2)
      /\ Line(n) \in Int /\ Column(n) \in Int
  <2>1. n \div 2 = At(Line(n), Column(n)) /\ Column(n) \in Columns /\ n \in Nat /\ Line(n) \in Nat /\ Column(n) \in Nat
    BY <1>1, UnitGrid DEF Unit
  <2>2. QED
    BY <2>1
<1>3. row = RowOf(Field(n), n % 2, y, s) /\ r = Line(n) + (row \div (2 * s)) /\ c = Column(n) + (x \div s)
  BY DEF LineOf, ColumnOf, Row, Tall
<1>4. row \in -(2 * s)..2 * s - 1 /\ x \in -s..2 * s - 1 /\ Field(n) \in BOOLEAN
  <2>1. Field(n) \in BOOLEAN
    BY <1>1 DEF Field, NeighbourTypeOK
  <2> HIDE DEF row
  <2>2. CASE s = 8
    BY <1>2, <1>3, <2>1, <2>2 DEF RowOf
  <2>3. CASE s = 16
    BY <1>2, <1>3, <2>1, <2>3 DEF RowOf
  <2>4. QED
    BY <1>1, <2>1, <2>2, <2>3
<1> HIDE DEF p, m, r, c, row, pair
<1>5. p = <<Column(n) * s + x, Line(n) * (2 * s) + row>>
  <2>1. \A b \in 0..1 : Position(2 * At(Line(n), Column(n)) + b, x, y, s)
                            = <<Column(n) * s + x, Line(n) * (2 * s)
                                    + RowOf(Field(2 * At(Line(n), Column(n)) + b), b, y, s)>>
    BY <1>1, <1>2, PositionIs
  <2>2. QED
    BY <1>2, <1>3, <2>1 DEF p
<1>6. r \in Int /\ c \in Int /\ row % (2 * s) \in 0..2 * s - 1 /\ pair \in Int
  <2>1. r \in Int /\ c \in Int /\ row % (2 * s) \in 0..2 * s - 1
    BY <1>1, <1>2, <1>3, <1>4
  <2>2. QED
    BY <2>1, SizeAssumption DEF pair, At
<1>7. c * s + (x % s) = Column(n) * s + x /\ r * (2 * s) + (row % (2 * s)) = Line(n) * (2 * s) + row
  <2>1. CASE s = 8
    BY <1>2, <1>3, <1>4, <1>6, <2>1
  <2>2. CASE s = 16
    BY <1>2, <1>3, <1>4, <1>6, <2>2
  <2>3. QED
    BY <1>1, <2>1, <2>2
<1>8. m = IF c \in Columns /\ r \in PairLines
          THEN pair + (IF Field(pair) THEN (row % (2 * s)) % 2 ELSE (row % (2 * s)) \div s) ELSE -1
  <2>1. MbAt(<<Column(n) * s + x, Line(n) * (2 * s) + row>>, s)
            = IF c \in Columns /\ r \in PairLines
              THEN pair + (IF Field(pair) THEN (row % (2 * s)) % 2 ELSE (row % (2 * s)) \div s) ELSE -1
    BY <1>2, <1>3, <1>4, PairAt DEF pair
  <2>2. QED
    BY <1>5, <2>1 DEF m
<1>9. (row % (2 * s)) % 2 \in 0..1 /\ (row % (2 * s)) \div s \in 0..1
  BY <1>1, <1>6
<1>10. c \in Columns /\ r \in PairLines => m \in {pair, pair + 1}
  BY <1>6, <1>8, <1>9
<1>11. p = <<c * s + (x % s), r * (2 * s) + (row % (2 * s))>>
  BY <1>5, <1>7
<1>12. QED
  BY <1>3, <1>4, <1>5, <1>6, <1>8, <1>10, <1>11 DEF p, m, r, c, row, pair

(* What getNeighbour finds in a pair whose macroblocks are decoded, or in  *)
(* the one n is the first of, is the sample that lies at the place.        *)
LEMMA PairFound ==
    ASSUME NeighbourTypeOK, PairsAgree, mbaff, NEW n \in Addresses, mb_data[n].slice_nr # -1,
           NEW s \in Sizes, NEW x \in -1..s, NEW y \in -1..s - 1,
           NEW call \in 0..1, Reachable(n, x, y, s, call),
           call = 0 \/ x < 0 \/ y >= 0 \/ Field(n) \/ Bottom(n) \/ ~Field(Units(Line(n) - 1, Column(n))),
           NEW first \in Int, first = 2 * At(LineOf(n, y, s), ColumnOf(n, x, s)),
           mb_data[first].slice_nr # -1, first # n => mb_data[first + 1].slice_nr # -1
    PROVE  LeadsThere(first, n, x, y, s, call)
<1> DEFINE pix == getNeighbour(n, x, y, s, call)
           p == Position(n, x, y, s)
           m == MbAt(p, s)
           r == LineOf(n, y, s)
           c == ColumnOf(n, x, s)
           row == Row(n, y, s)
           pair == 2 * At(r, c)
           Goal == /\ pix.available = TRUE /\ pix.mb_addr = m /\ m \in Addresses
                   /\ mb_data[m] = mb_data[pair] /\ m # -1
                   /\ Position(m, pix.x, pix.y, s) = p
<1> SUFFICES Goal
  BY DEF LeadsThere
<1>1. mbaff \in BOOLEAN /\ (s = 8 \/ s = 16)
  BY DEF NeighbourTypeOK, Sizes
<1>2. /\ Line(n) \in PairLines /\ Column(n) \in Columns /\ n \in Nat
      /\ Line(n) \in Nat /\ Column(n) \in Nat /\ At(Line(n), Column(n)) \in Nat
      /\ n % 2 \in 0..1 /\ n = 2 * At(Line(n), Column(n)) + (n % 2)
  <2>1. /\ Line(n) \in PairLines /\ Column(n) \in Columns /\ n \div 2 = At(Line(n), Column(n)) /\ n \in Nat
        /\ Line(n) \in Nat /\ Column(n) \in Nat
    BY <1>1, UnitGrid DEF Unit, Lines
  <2>2. At(Line(n), Column(n)) \in Nat /\ n % 2 \in 0..1 /\ n = 2 * (n \div 2) + (n % 2)
    BY <2>1
  <2>3. QED
    BY <2>1, <2>2
<1>3. Units(r, c) = pair /\ Lines = PairLines
  BY DEF Lines, Units
<1>4. /\ r \in Int /\ c \in Int /\ pair \in Int /\ row \in -(2 * s)..2 * s - 1
      /\ row = RowOf(Field(n), n % 2, y, s) /\ r = Line(n) + (row \div (2 * s)) /\ c = Column(n) + (x \div s)
      /\ p = <<c * s + (x % s), r * (2 * s) + (row % (2 * s))>>
      /\ c \in Columns /\ r \in PairLines
         => m = pair + (IF Field(pair) THEN (row % (2 * s)) % 2 ELSE (row % (2 * s)) \div s)
  BY PairPlace
<1>5. Field(n - (n % 2)) = Field(n)
  <2>1. CASE n % 2 = 0
    <3>1. n - (n % 2) = n
      BY <1>2, <2>1
    <3>2. QED
      BY <3>1
  <2>2. CASE n % 2 = 1
    <3>1. Bottom(n) /\ n - (n % 2) = n - 1
      BY <1>2, <2>2 DEF Bottom
    <3>2. mb_data[n] = mb_data[n - 1]
      BY <3>1 DEF PairsAgree
    <3>3. QED
      BY <3>1, <3>2 DEF Field
  <2>3. QED
    BY <1>2, <2>1, <2>2
<1>6. RowFound(pix, n, pair, x, y, s)
  <2>1. IF Reachable(n, x, y, s, call) THEN RowFound(pix, n, Units(r, c), x, y, s) ELSE pix = NoPix
    BY <1>5, PairNeighbour
  <2>2. QED
    BY <1>3, <2>1
<1>7. mb_data[pair].slice_nr # -1 /\ (pair # n => mb_data[pair + 1].slice_nr # -1)
  OBVIOUS
<1>8. c \in Columns /\ r \in PairLines
  BY <1>3 DEF Reachable
<1> HIDE DEF pix, p, m, r, c, row, pair, Goal
<1>9. pair \in Addresses /\ pair + 1 \in Addresses /\ pair \in Nat
  <2>1. pair \in Addresses /\ pair + 1 \in Addresses
    BY <1>4, <1>8, PairGrid DEF pair
  <2>2. QED
    BY <2>1, SizeIs DEF Addresses
<1>10. PICK b \in 0..1, v \in 0..s - 1 : /\ Found(pix, pair, b, x, v, s)
                                         /\ RowOf(Field(pair), b, v, s) = row % (2 * s)
  BY <1>6 DEF RowFound, row
<1>11. pix.available = TRUE /\ pix.mb_addr = pair + b /\ pix.x = x % s /\ pix.y = v
  BY <1>10 DEF Found
<1>12. b = (IF Field(pair) THEN (row % (2 * s)) % 2 ELSE (row % (2 * s)) \div s)
  <2>1. CASE s = 8
    BY <1>10, <2>1 DEF RowOf
  <2>2. CASE s = 16
    BY <1>10, <2>2 DEF RowOf
  <2>3. QED
    BY <1>1, <2>1, <2>2
<1>13. m = pair + b
  BY <1>4, <1>8, <1>12
(* The first of a pair is not yet followed by the second only if it is n,  *)
(* which then lies there itself.                                           *)
<1>14. b = 1 => mb_data[pair + 1].slice_nr # -1
  <2>1. SUFFICES ASSUME pair = n PROVE b = 0
    BY <1>7
  <2>2. n % 2 = 0 /\ At(r, c) = At(Line(n), Column(n))
    <3>1. At(r, c) \in Int /\ n = 2 * At(r, c)
      BY <1>4, <2>1, SizeAssumption DEF pair, At
    <3>2. QED
      BY <1>2, <3>1
  <2>3. r = Line(n)
    <3>1. At(r, c) \div PicWidthInMbs = r
      BY <1>4, <1>8, PairGrid
    <3>2. At(Line(n), Column(n)) \div PicWidthInMbs = Line(n)
      BY <1>2, PairGrid
    <3>3. QED
      BY <2>2, <3>1, <3>2
  <2>4. row \div (2 * s) = 0 /\ row = RowOf(Field(pair), 0, y, s)
    BY <1>1, <1>2, <1>4, <2>1, <2>2, <2>3
  <2>5. CASE s = 8
    BY <1>4, <1>12, <2>4, <2>5 DEF RowOf
  <2>6. CASE s = 16
    BY <1>4, <1>12, <2>4, <2>6 DEF RowOf
  <2>7. QED
    BY <1>1, <2>5, <2>6
<1>15. mb_data[m] = mb_data[pair] /\ Field(pair + b) = Field(pair) /\ m \in Addresses
  <2>1. CASE b = 0
    <3>1. pair + b = pair
      BY <1>9, <2>1
    <3>2. QED
      BY <1>9, <1>13, <3>1
  <2>2. CASE b = 1
    <3>1. (pair + 1) % 2 = 1 /\ pair + 1 - 1 = pair
      <4>1. At(r, c) \in Int
        BY <1>4, SizeAssumption DEF At
      <4>2. QED
        BY <4>1 DEF pair
    <3>2. mb_data[pair + 1] = mb_data[pair]
      BY <1>9, <1>14, <2>2, <3>1 DEF PairsAgree, Bottom
    <3>3. QED
      BY <1>9, <1>13, <2>2, <3>2 DEF Field
  <2>3. QED
    BY <2>1, <2>2
<1>16. Position(pair + b, x % s, v, s) = p
  <2>1. \A u : Position(2 * At(r, c) + b, u, v, s)
                   = <<c * s + u, r * (2 * s) + RowOf(Field(2 * At(r, c) + b), b, v, s)>>
    BY <1>1, <1>4, <1>8, PositionIs
  <2>2. Position(pair + b, x % s, v, s) = <<c * s + (x % s), r * (2 * s) + RowOf(Field(pair + b), b, v, s)>>
    BY <2>1 DEF pair
  <2>3. RowOf(Field(pair + b), b, v, s) = row % (2 * s)
    BY <1>10, <1>15
  <2>4. QED
    BY <1>4, <2>2, <2>3
<1>17. m # -1
  BY <1>9, <1>13
<1>18. QED
  BY <1>11, <1>13, <1>15, <1>16, <1>17 DEF Goal

(* n is the last macroblock decoded, of its slice and, with pairs, of all. *)
Latest(n) ==
    /\ mb_data[n].slice_nr # -1
    /\ \A a \in Addresses : mb_data[a].slice_nr = mb_data[n].slice_nr => a <= n
    /\ mbaff => \A a \in Addresses : mb_data[a].slice_nr # -1 <=> a <= n

(* With pairs.                                                             *)
LEMMA AdjoinsInPair ==
    ASSUME NeighbourTypeOK, PairsAgree, mbaff, NEW n \in Addresses, Latest(n),
           NEW s \in Sizes, NEW x \in -1..s, NEW y \in -1..s - 1
    PROVE  LET pix == getNeighbour(n, x, y, s, 0)
               p == Position(n, x, y, s)
               m == MbAt(p, s)
           IN  /\ pix.available <=> m # -1 /\ mb_data[m].slice_nr = mb_data[n].slice_nr
               /\ pix.available => pix.mb_addr = m /\ Position(m, pix.x, pix.y, s) = p
<1> DEFINE pix == getNeighbour(n, x, y, s, 0)
           p == Position(n, x, y, s)
           m == MbAt(p, s)
           r == LineOf(n, y, s)
           c == ColumnOf(n, x, s)
           row == Row(n, y, s)
           pair == 2 * At(r, c)
           k == mb_data[n].slice_nr
           Goal == /\ pix.available <=> m # -1 /\ mb_data[m].slice_nr = mb_data[n].slice_nr
                   /\ pix.available => pix.mb_addr = m /\ Position(m, pix.x, pix.y, s) = p
<1> SUFFICES Goal
  OBVIOUS
<1>1. NeighbourTypeOK /\ PairsAgree /\ mbaff \in BOOLEAN /\ (s = 8 \/ s = 16)
  BY DEF NeighbourTypeOK, Sizes
<1>2. /\ mb_data[n].slice_nr = k /\ k # -1
      /\ \A a \in Addresses : mb_data[a].slice_nr = k => a <= n
      /\ \A a \in Addresses : mb_data[a].slice_nr # -1 <=> a <= n
  BY DEF Latest
<1>3. /\ \A a \in Addresses : a \in Nat
      /\ \A a \in Addresses : mb_data[a] \in [slice_nr : Int, mb_field : BOOLEAN]
  <2>1. \A a \in Addresses : a \in Nat
    BY SizeIs DEF Addresses
  <2>2. \A a \in Addresses : mb_data[a] \in [slice_nr : Int, mb_field : BOOLEAN]
    BY <1>1 DEF NeighbourTypeOK
  <2>3. QED
    BY <2>1, <2>2
<1>4. At(Line(n), Column(n)) \in Nat /\ n = 2 * At(Line(n), Column(n)) + (n % 2) /\ n \in Nat /\ n % 2 \in 0..1
      /\ Line(n) \in Int /\ Column(n) \in Int
  <2>1. n \div 2 = At(Line(n), Column(n)) /\ n \in Nat /\ Line(n) \in Int /\ Column(n) \in Int
    BY <1>1, UnitGrid DEF Unit
  <2>2. n = 2 * (n \div 2) + (n % 2) /\ n \div 2 \in Nat /\ n % 2 \in 0..1
    BY <2>1
  <2>3. QED
    BY <2>1, <2>2
<1>5. Units(r, c) = pair /\ Lines = PairLines
  BY DEF Lines, Units
<1>6. /\ r \in Int /\ c \in Int /\ pair \in Int
      /\ c \in Columns /\ r \in PairLines => m \in {pair, pair + 1}
      /\ ~(c \in Columns /\ r \in PairLines) => m = -1
  <2>1. QED
    BY <1>1, PairPlace
<1>7. c \in Columns /\ r \in PairLines => pair \in Addresses /\ pair + 1 \in Addresses
  BY <1>6, PairGrid
(* Both of a pair whose first is decoded are of a slice.                   *)
<1>8. ASSUME c \in Columns, r \in PairLines
      PROVE  /\ mb_data[pair + 1].slice_nr # -1 => mb_data[pair + 1] = mb_data[pair]
             /\ mb_data[pair].slice_nr # -1 /\ pair # n => mb_data[pair + 1].slice_nr # -1
  <2>1. (pair + 1) % 2 = 1 /\ pair + 1 - 1 = pair /\ pair % 2 = 0
    <3>1. At(r, c) \in Int
      BY <1>6, SizeAssumption DEF At
    <3> HIDE DEF r, c
    <3>2. QED
      BY <3>1
  <2> HIDE DEF pair, r, c
  <2>2. mb_data[pair + 1].slice_nr # -1 => mb_data[pair + 1] = mb_data[pair]
    BY <1>1, <1>6, <1>7, <1>8, <2>1 DEF PairsAgree, Bottom
  <2>3. ASSUME mb_data[pair].slice_nr # -1, pair # n PROVE mb_data[pair + 1].slice_nr # -1
    <3>1. pair <= n /\ pair \in Nat /\ pair + 1 \in Addresses
      BY <1>2, <1>3, <1>7, <1>8, <2>3
    <3>2. pair + 1 <= n
      BY <1>4, <2>3, <3>1
    <3>3. QED
      BY <1>2, <3>1, <3>2
  <2>4. QED
    BY <2>2, <2>3
<1>9. ASSUME ~Reachable(n, x, y, s, 0) PROVE pix = NoPix
  <2>1. Field(n - (n % 2)) = Field(n)
    <3>1. CASE n % 2 = 0
      <4>1. n - (n % 2) = n
        BY <1>4, <3>1
      <4>2. QED
        BY <4>1
    <3>2. CASE n % 2 = 1
      <4>1. Bottom(n) /\ mb_data[n].slice_nr # -1 /\ n - (n % 2) = n - 1
        BY <1>2, <1>4, <3>2 DEF Bottom
      <4>2. mb_data[n] = mb_data[n - 1]
        BY <1>1, <4>1 DEF PairsAgree
      <4>3. QED
        BY <4>1, <4>2 DEF Field
    <3>3. QED
      BY <1>4, <3>1, <3>2
  <2>2. 0 \in 0..1
    OBVIOUS
  <2>3. IF Reachable(n, x, y, s, 0) THEN RowFound(pix, n, Units(r, c), x, y, s) ELSE pix = NoPix
    BY <1>1, <2>1, <2>2, PairNeighbour
  <2>4. QED
    BY <1>9, <2>3
<1>10. CASE Reachable(n, x, y, s, 0)
  <2>1. c \in Columns /\ r \in PairLines
    BY <1>5, <1>10 DEF Reachable
  <2>2. mb_data[pair].slice_nr = k
    <3>1. CASE r = Line(n) /\ c = Column(n)
      <4>1. n = pair + (n % 2)
        <5> HIDE DEF r, c
        <5>1. QED
          BY <1>4, <3>1
      <4> HIDE DEF pair, r, c, k
      <4>2. CASE n % 2 = 0
        BY <1>2, <1>6, <4>1, <4>2
      <4>3. CASE n % 2 = 1
        <5>1. n = pair + 1 /\ mb_data[pair + 1].slice_nr # -1
          BY <1>2, <4>1, <4>3
        <5>2. QED
          BY <1>2, <1>8, <2>1, <5>1
      <4>4. QED
        BY <1>4, <4>2, <4>3
    <3>2. CASE ~(r = Line(n) /\ c = Column(n))
      BY <1>2, <1>5, <1>10, <3>2 DEF Reachable
    <3>3. QED
      BY <3>1, <3>2
  <2>3. mb_data[pair].slice_nr # -1 /\ (pair # n => mb_data[pair + 1].slice_nr # -1)
    <3> HIDE DEF pair, r, c, k
    <3>1. QED
      BY <1>2, <1>8, <2>1, <2>2
  <2>4. mb_data[n].slice_nr # -1
    <3> HIDE DEF k
    <3>1. QED
      BY <1>2
  <2>5. /\ pix.available = TRUE /\ pix.mb_addr = m
        /\ mb_data[m] = mb_data[pair] /\ m # -1
        /\ Position(m, pix.x, pix.y, s) = p
    <3>1. 0 \in 0..1 /\ pair \in Int /\ pair = 2 * At(LineOf(n, y, s), ColumnOf(n, x, s))
      BY <1>6
    <3> HIDE DEF pair
    <3>2. LeadsThere(pair, n, x, y, s, 0)
      BY <1>10, <2>3, <2>4, <3>1, PairFound
    <3>3. QED
      BY <3>2 DEF LeadsThere
  <2> HIDE DEF pix, p, m, pair, k
  <2>6. QED
    BY <1>2, <2>2, <2>5 DEF Goal
<1>11. CASE ~Reachable(n, x, y, s, 0)
  <2>1. pix.available = FALSE
    BY <1>9, <1>11 DEF NoPix
  <2>2. m # -1 => mb_data[m].slice_nr # mb_data[n].slice_nr
    <3>1. SUFFICES ASSUME m # -1 PROVE mb_data[m].slice_nr # k
      BY <1>2
    <3>2. c \in Columns /\ r \in PairLines /\ m \in {pair, pair + 1}
      BY <1>6, <3>1
    <3>3. CASE r = Line(n) /\ c = Column(n) + 1
      <4>1. pair = 2 * At(Line(n), Column(n)) + 2
        <5> HIDE DEF r, c
        <5>1. At(r, c) = At(Line(n), Column(n)) + 1
          BY <1>4, <3>3, SizeAssumption DEF At
        <5>2. QED
          BY <1>4, <5>1
      <4> HIDE DEF pair, m, r, c, k
      <4>2. ~(m <= n)
        BY <1>4, <3>2, <4>1
      <4>3. QED
        BY <1>2, <1>7, <3>2, <4>2
    <3>4. CASE ~(r = Line(n) /\ c = Column(n) + 1)
      <4>1. mb_data[pair].slice_nr # k
        BY <1>2, <1>5, <1>11, <3>2, <3>4 DEF Reachable
      <4> HIDE DEF pair, m, r, c, k
      <4>2. mb_data[pair + 1].slice_nr # k
        BY <1>2, <1>8, <3>2, <4>1
      <4>3. QED
        BY <3>2, <4>1, <4>2
    <3>5. QED
      BY <3>3, <3>4
  <2> HIDE DEF pix, p, m
  <2>3. QED
    BY <2>1, <2>2 DEF Goal
<1>12. QED
  BY <1>10, <1>11

(* The invariant says enough of the slices for NeighboursAdjoin.           *)
LEMMA InvariantAdjoins == NeighbourInv => NeighboursAdjoin
<1> SUFFICES ASSUME NeighbourInv, current_mb_nr # -1, ~filtering PROVE NeighboursAdjoin
  BY DEF NeighboursAdjoin
<1>1. ASSUME NEW s \in {8, 16}, NEW x \in {-1, 3, s}, NEW y \in {-1, 0, 1, s \div 2 - 1, s \div 2, s - 1}
      PROVE  LET n == current_mb_nr
                 pix == getNeighbour(n, x, y, s, 0)
                 p == Position(n, x, y, s)
                 m == MbAt(p, s)
             IN  /\ pix.available <=> m # -1 /\ mb_data[m].slice_nr = mb_data[n].slice_nr
                 /\ pix.available => pix.mb_addr = m /\ Position(m, pix.x, pix.y, s) = p
  <2>1. s \in Sizes /\ x \in -1..s /\ y \in -1..s - 1
    <3>1. s = 8 \/ s = 16
      BY <1>1
    <3>2. CASE s = 8
      BY <1>1, <3>2 DEF Sizes
    <3>3. CASE s = 16
      BY <1>1, <3>3 DEF Sizes
    <3>4. QED
      BY <3>1, <3>2, <3>3
  <2>2. CASE mbaff
    <3>1. current_mb_nr \in Addresses
      BY DEF NeighbourInv, NeighbourTypeOK
    <3> DEFINE n == current_mb_nr
    <3>2. NeighbourTypeOK /\ PairsAgree /\ Begun /\ Len(LFDisableIdc) \in Nat
      BY DEF NeighbourInv, NeighbourTypeOK
    <3>3. n \in Addresses /\ Latest(n)
      BY <2>2, <3>1, <3>2 DEF Begun, Latest
    <3> HIDE DEF n
    <3>4. /\ getNeighbour(n, x, y, s, 0).available
              <=> MbAt(Position(n, x, y, s), s) # -1
                  /\ mb_data[MbAt(Position(n, x, y, s), s)].slice_nr = mb_data[n].slice_nr
          /\ getNeighbour(n, x, y, s, 0).available
             => /\ getNeighbour(n, x, y, s, 0).mb_addr = MbAt(Position(n, x, y, s), s)
                /\ Position(MbAt(Position(n, x, y, s), s), getNeighbour(n, x, y, s, 0).x,
                            getNeighbour(n, x, y, s, 0).y, s) = Position(n, x, y, s)
      BY <2>1, <2>2, <3>2, <3>3, AdjoinsInPair
    <3>5. QED
      BY <3>4, Zenon DEF n
  <2>3. CASE ~mbaff
    BY <2>1, <2>3, AdjoinsInFrame
  <2>4. QED
    BY <2>2, <2>3
<1>2. QED
  BY <1>1, Zenon DEF NeighboursAdjoin

-----------------------------------------------------------------------------
(***************************************************************************)
(* The deblocking filter, which runs when all macroblocks are decoded.     *)
(***************************************************************************)
AllDecoded == NeighbourTypeOK /\ PairsAgree /\ \A a \in Addresses : mb_data[a].slice_nr # -1

(* An upper frame macroblock under a pair of field macroblocks: the one    *)
(* place where there are two upper edges.                                  *)
MixedAbove(n) == mbaff /\ ~Field(n) /\ ~Bottom(n) /\ Line(n) # 0 /\ Field(Units(Line(n) - 1, Column(n)))

Lower(n) == mbaff /\ ~Field(n) /\ Bottom(n)

(* Where a macroblock of a decoded picture lies.                           *)
LEMMA Placed ==
    ASSUME AllDecoded, NEW n \in Addresses
    PROVE  /\ NeighbourTypeOK /\ PairsAgree /\ mbaff \in BOOLEAN /\ n \in Nat /\ n % 2 \in 0..1
           /\ Line(n) \in Lines /\ Column(n) \in Columns /\ Line(n) \in Nat /\ Column(n) \in Nat
           /\ Unit(n) = At(Line(n), Column(n)) /\ At(Line(n), Column(n)) \in Nat
           /\ mbaff => n = 2 * At(Line(n), Column(n)) + (n % 2)
           /\ ~mbaff => n = At(Line(n), Column(n))
           /\ \A x, y : Position(n, x, y, 16)
                            = <<Column(n) * 16 + x, Line(n) * Tall(16) + Row(n, y, 16)>>
           /\ mbaff => Lines = PairLines
<1>1. NeighbourTypeOK /\ PairsAgree /\ mbaff \in BOOLEAN
  BY DEF AllDecoded, NeighbourTypeOK
<1>2. /\ Line(n) \in Lines /\ Column(n) \in Columns /\ Unit(n) = At(Line(n), Column(n))
      /\ n \in Nat /\ Line(n) \in Nat /\ Column(n) \in Nat
  BY <1>1, UnitGrid
<1>3. n % 2 \in 0..1 /\ n \div 2 \in Nat /\ n = 2 * (n \div 2) + (n % 2)
  BY <1>2
<1>4. Unit(n) \in Nat /\ (mbaff => n = 2 * Unit(n) + (n % 2)) /\ (~mbaff => n = Unit(n))
  BY <1>2, <1>3 DEF Unit
<1>5. ASSUME NEW x, NEW y
      PROVE  Position(n, x, y, 16) = <<Column(n) * 16 + x, Line(n) * Tall(16) + Row(n, y, 16)>>
  <2>1. CASE mbaff
    BY <2>1 DEF Position, Line, Column, Unit, Tall, Row, RowOf
  <2>2. CASE ~mbaff
    BY <2>2 DEF Position, Line, Column, Unit, Tall, Row
  <2>3. QED
    BY <1>1, <2>1, <2>2
<1>6. mbaff => Lines = PairLines
  BY DEF Lines
<1>7. QED
  BY <1>1, <1>2, <1>3, <1>4, <1>5, <1>6

(* A pair is of one slice and of one kind.                                 *)
LEMMA PairIsOne ==
    ASSUME AllDecoded, mbaff, NEW r \in PairLines, NEW c \in Columns
    PROVE  /\ 2 * At(r, c) \in Addresses /\ 2 * At(r, c) + 1 \in Addresses /\ At(r, c) \in Int
           /\ mb_data[2 * At(r, c) + 1] = mb_data[2 * At(r, c)]
<1> DEFINE k == At(r, c)
<1>1. r \in Int
  BY DEF PairLines
<1>2. k \in Int
  BY <1>1, SizeAssumption DEF At, Columns
<1>3. 2 * k \in Addresses /\ 2 * k + 1 \in Addresses
  BY <1>1, PairGrid
<1> HIDE DEF k
<1>4. (2 * k + 1) % 2 = 1 /\ (2 * k + 1) - 1 = 2 * k
  BY <1>2
<1>5. mb_data[2 * k + 1] = mb_data[2 * k]
  BY <1>3, <1>4 DEF AllDecoded, PairsAgree, Bottom
<1>6. QED
  BY <1>2, <1>3, <1>5 DEF k

(* What getNeighbour finds for the filter, but for the two upper edges.    *)
LEMMA FilterLeads ==
    ASSUME AllDecoded, NEW n \in Addresses, NEW x \in -1..0, NEW y \in -1..15,
           x = 0 /\ y < 0 => ~MixedAbove(n)
    PROVE  LET r == LineOf(n, y, 16)
               c == ColumnOf(n, x, 16)
           IN  /\ MbAt(Position(n, x, y, 16), 16) # -1 <=> r \in Lines /\ c \in Columns
               /\ r \in Lines /\ c \in Columns => Units(r, c) \in Addresses /\ LeadsThere(Units(r, c), n, x, y, 16, 1)
<1> DEFINE r == LineOf(n, y, 16)
           c == ColumnOf(n, x, 16)
           m == MbAt(Position(n, x, y, 16), 16)
<1>1. /\ NeighbourTypeOK /\ PairsAgree /\ mbaff \in BOOLEAN /\ 16 \in Sizes
      /\ x \in -1..16 /\ y \in -1..16 - 1 /\ mb_data[n].slice_nr # -1
  BY DEF AllDecoded, NeighbourTypeOK, Sizes
<1>2. /\ Column(n) \in Nat /\ Line(n) \in Lines /\ Column(n) \in Columns
  BY Placed
<1>3. c = Column(n) + (x \div 16) /\ c # Column(n) + 1
  BY <1>2 DEF ColumnOf
<1>4. Reachable(n, x, y, 16, 1) <=> r \in Lines /\ c \in Columns
  BY <1>3 DEF Reachable
<1>5. CASE ~mbaff
  <2>1. /\ r \in Int /\ c \in Int
        /\ m = IF c \in Columns /\ r \in Lines THEN At(r, c) ELSE -1
        /\ Units(r, c) = At(r, c)
        /\ c \in Columns /\ r \in Lines => At(r, c) \in Addresses /\ At(r, c) \in Nat
        /\ Reachable(n, x, y, 16, 1) => LeadsThere(At(r, c), n, x, y, 16, 1)
    BY <1>1, <1>5, FrameLeads, ZenonT(60)
  <2> HIDE DEF r, c, m
  <2>2. QED
    BY <1>4, <2>1 DEF r, c, m
<1>6. CASE mbaff
  <2>1. /\ r \in Int /\ c \in Int
        /\ c \in Columns /\ r \in PairLines => m \in {2 * At(r, c), 2 * At(r, c) + 1}
        /\ ~(c \in Columns /\ r \in PairLines) => m = -1
    BY <1>1, <1>6, PairPlace
  <2>2. Units(r, c) = 2 * At(r, c) /\ Lines = PairLines
    BY <1>6 DEF Units, Lines
  <2>3. CASE r \in Lines /\ c \in Columns
    <3> DEFINE first == 2 * At(r, c)
    <3>1. first \in Addresses /\ first + 1 \in Addresses /\ first \in Nat
      <4>1. r \in PairLines
        BY <2>2, <2>3
      <4>2. first \in Addresses /\ first + 1 \in Addresses
        BY <1>6, <2>3, <4>1, PairIsOne
      <4>3. QED
        BY <4>2, SizeIs DEF Addresses
    <3>2. /\ mb_data[first].slice_nr # -1 /\ (first # n => mb_data[first + 1].slice_nr # -1)
          /\ first \in Int /\ first = 2 * At(LineOf(n, y, 16), ColumnOf(n, x, 16))
      BY <3>1 DEF AllDecoded
    <3>3. \/ 1 = 0 \/ x < 0 \/ y >= 0 \/ Field(n) \/ Bottom(n)
          \/ ~Field(Units(Line(n) - 1, Column(n)))
      <4>1. ASSUME x = 0, y < 0, ~Field(n), ~Bottom(n), Field(Units(Line(n) - 1, Column(n)))
            PROVE  FALSE
        <5>1. y = -1 /\ Row(n, y, 16) = -1
          BY <1>1, <1>6, <4>1, Placed DEF Row, RowOf, Bottom
        <5>2. r = Line(n) - 1
          BY <1>6, <5>1, Placed DEF LineOf, Tall
        <5>3. Line(n) # 0
          <6>1. r \in PairLines
            BY <2>2, <2>3
          <6> HIDE DEF r
          <6>2. QED
            BY <5>2, <6>1 DEF PairLines
        <5>4. QED
          BY <1>6, <4>1, <5>3 DEF MixedAbove
      <4>2. QED
        BY <4>1
    <3>4. Reachable(n, x, y, 16, 1) /\ 1 \in 0..1
      BY <1>4, <2>3
    <3> HIDE DEF first
    <3>5. LeadsThere(first, n, x, y, 16, 1)
      BY <1>1, <1>6, <3>2, <3>3, <3>4, PairFound
    <3>6. m # -1
      BY <3>5 DEF LeadsThere
    <3>7. QED
      BY <2>2, <2>3, <3>1, <3>5, <3>6 DEF first
  <2>4. CASE ~(r \in Lines /\ c \in Columns)
    BY <2>1, <2>2, <2>4
  <2>5. QED
    BY <2>3, <2>4
<1>7. QED
  BY <1>1, <1>5, <1>6

(* The left edge: there is one unless the macroblock is in the first       *)
(* column, and the samples found lie to the left of the macroblock's.      *)
LEMMA LeftEdge ==
    ASSUME AllDecoded, NEW n \in Addresses
    PROVE  LET leftmost == MbAt(Position(n, -1, 0, 16), 16)
           IN  /\ leftmost # -1 <=> Position(n, 0, 0, 16)[1] # 0
               /\ CheckAvailabilityOfNeighbors(n, "A", 0).avail
                      <=> leftmost # -1 /\ mb_data[leftmost].slice_nr = mb_data[n].slice_nr
               /\ leftmost # -1 =>
                      \A y \in 0..15 :
                          LET q == Position(n, 0, y, 16)
                              pix == getNeighbour(n, -1, y, 16, 1)
                          IN  Position(pix.mb_addr, pix.x, pix.y, 16) = <<q[1] - 1, q[2]>>
<1> DEFINE leftmost == MbAt(Position(n, -1, 0, 16), 16)
           r == Line(n)
           c == Column(n) - 1
<1>1. /\ NeighbourTypeOK /\ mbaff \in BOOLEAN /\ n \in Nat /\ n % 2 \in 0..1
      /\ r \in Lines /\ r \in Nat /\ Column(n) \in Columns /\ Column(n) \in Nat
      /\ \A x, y : Position(n, x, y, 16) = <<Column(n) * 16 + x, Line(n) * Tall(16) + Row(n, y, 16)>>
  BY Placed
<1>2. ASSUME NEW y \in 0..15 PROVE LineOf(n, y, 16) = r /\ ColumnOf(n, -1, 16) = c
  <2>1. (-1) \div 16 = -1 /\ Column(n) + (-1) = Column(n) - 1
    <3>1. \A v \in -16..-1 : v \div 16 = -1
      OBVIOUS
    <3>2. QED
      BY <1>1, <3>1
  <2>2. CASE mbaff
    <3>1. Row(n, y, 16) \in 0..31 /\ Tall(16) = 32
      BY <1>1, <2>2 DEF Row, RowOf, Tall
    <3>2. Row(n, y, 16) \div 32 = 0
      BY <3>1
    <3>3. QED
      BY <1>1, <2>1, <3>1, <3>2 DEF LineOf, ColumnOf
  <2>3. CASE ~mbaff
    <3>1. Row(n, y, 16) = y /\ Tall(16) = 16 /\ y \div 16 = 0
      BY <2>3 DEF Row, Tall
    <3>2. QED
      BY <1>1, <2>1, <3>1 DEF LineOf, ColumnOf
  <2>4. QED
    BY <1>1, <2>2, <2>3
<1>3. ASSUME NEW y \in 0..15
      PROVE  /\ MbAt(Position(n, -1, y, 16), 16) # -1 <=> c \in Columns
             /\ c \in Columns => Units(r, c) \in Addresses /\ LeadsThere(Units(r, c), n, -1, y, 16, 1)
  <2>1. -1 \in -1..0 /\ y \in -1..15 /\ ~(-1 = 0)
    OBVIOUS
  <2> HIDE DEF r, c
  <2>2. QED
    BY <1>1, <1>2, <2>1, FilterLeads
<1>4. c \in Columns <=> Column(n) # 0
  BY <1>1, SizeAssumption DEF Columns
<1>5. leftmost # -1 <=> Position(n, 0, 0, 16)[1] # 0
  <2>1. Position(n, 0, 0, 16)[1] = Column(n) * 16 + 0
    BY <1>1
  <2>2. leftmost # -1 <=> c \in Columns
    BY <1>3
  <2> HIDE DEF leftmost, c
  <2>3. QED
    BY <1>1, <1>4, <2>1, <2>2
<1>6. CheckAvailabilityOfNeighbors(n, "A", 0).avail
          <=> leftmost # -1 /\ mb_data[leftmost].slice_nr = mb_data[n].slice_nr
  <2>1. CheckAvailabilityOfNeighbors(n, "A", 0).avail
            <=> c \in Columns /\ mb_data[Units(r, c)].slice_nr = mb_data[n].slice_nr
    <3>1. SideLine("A") = 0 /\ SideColumn("A") = -1 /\ r + 0 = r /\ Column(n) + (-1) = c
      BY <1>1 DEF SideLine, SideColumn
    <3> HIDE DEF r, c
    <3>2. QED
      BY <1>1, <3>1, SideIs DEF r
  <2>2. leftmost # -1 <=> c \in Columns
    BY <1>3
  <2>3. c \in Columns => mb_data[leftmost] = mb_data[Units(r, c)]
    BY <1>3 DEF LeadsThere
  <2> HIDE DEF leftmost, c, r
  <2>4. QED
    BY <2>1, <2>2, <2>3
<1>7. ASSUME leftmost # -1, NEW y \in 0..15
      PROVE  LET q == Position(n, 0, y, 16)
                 pix == getNeighbour(n, -1, y, 16, 1)
             IN  Position(pix.mb_addr, pix.x, pix.y, 16) = <<q[1] - 1, q[2]>>
  <2> DEFINE q == Position(n, 0, y, 16)
             pix == getNeighbour(n, -1, y, 16, 1)
  <2>1. LeadsThere(Units(r, c), n, -1, y, 16, 1)
    BY <1>3, <1>7
  <2>2. Position(pix.mb_addr, pix.x, pix.y, 16) = Position(n, -1, y, 16)
    BY <2>1 DEF LeadsThere
  <2>3. Position(n, -1, y, 16) = <<q[1] - 1, q[2]>>
    <3> DEFINE v == Line(n) * Tall(16) + Row(n, y, 16)
    <3>1. Position(n, -1, y, 16) = <<Column(n) * 16 + -1, v>> /\ q = <<Column(n) * 16 + 0, v>>
      BY <1>1
    <3> HIDE DEF v, q
    <3>2. QED
      BY <1>1, <3>1
  <2>4. QED
    BY <2>2, <2>3
<1>8. QED
  BY <1>5, <1>6, <1>7

(* What lies above a macroblock: in the first line nothing, but for the    *)
(* lower one of a frame pair, which has the upper one above it.            *)
LEMMA AboveWhich ==
    ASSUME AllDecoded, NEW n \in Addresses
    PROVE  LET up == MbAt(Position(n, 0, -1, 16), 16)
               above == Units(Line(n) - 1, Column(n))
           IN  /\ Lower(n) => up = n - 1 /\ mb_data[up] = mb_data[n]
               /\ ~Lower(n) => /\ up # -1 <=> Line(n) # 0
                               /\ Line(n) # 0 => /\ above \in Addresses /\ mb_data[up] = mb_data[above]
                                                 /\ above \in Nat /\ Field(up) = Field(above)
               /\ CheckAvailabilityOfNeighbors(n, "B", 0).avail
                      <=> Line(n) # 0 /\ mb_data[above].slice_nr = mb_data[n].slice_nr
<1> DEFINE up == MbAt(Position(n, 0, -1, 16), 16)
           above == Units(Line(n) - 1, Column(n))
           r == LineOf(n, -1, 16)
           c == ColumnOf(n, 0, 16)
<1>1. /\ NeighbourTypeOK /\ mbaff \in BOOLEAN /\ n \in Nat /\ n % 2 \in 0..1
      /\ Line(n) \in Lines /\ Line(n) \in Nat /\ Column(n) \in Columns /\ Column(n) \in Nat
      /\ mbaff => n = 2 * At(Line(n), Column(n)) + (n % 2)
      /\ At(Line(n), Column(n)) \in Nat /\ (mbaff => Lines = PairLines)
  BY Placed
<1>2. c = Column(n)
  BY <1>1 DEF ColumnOf
<1>3. Line(n) - 1 \in Lines <=> Line(n) # 0
  <2>1. CASE mbaff
    <3>1. Lines = 0..PicHeight \div 2 - 1 /\ PicHeight \div 2 \in Nat
      BY <2>1, SizeIs DEF Lines, PairLines
    <3>2. QED
      BY <1>1, <3>1
  <2>2. CASE ~mbaff
    BY <1>1, <2>2, SizeIs DEF Lines
  <2>3. QED
    BY <1>1, <2>1, <2>2
<1>4. Line(n) # 0 => above \in Addresses /\ above \in Nat
  <2>1. Line(n) - 1 \in Int
    BY <1>1
  <2>2. Line(n) # 0 => above \in Addresses
    BY <1>1, <1>3, <2>1, UnitGrid
  <2>3. QED
    BY <2>2, SizeIs DEF Addresses
<1>5. CheckAvailabilityOfNeighbors(n, "B", 0).avail
          <=> Line(n) # 0 /\ mb_data[above].slice_nr = mb_data[n].slice_nr
  <2>1. SideLine("B") = -1 /\ SideColumn("B") = 0 /\ Line(n) + (-1) = Line(n) - 1 /\ Column(n) + 0 = Column(n)
    BY <1>1 DEF SideLine, SideColumn
  <2>2. QED
    BY <1>1, <1>3, <2>1, SideIs
<1>6. CASE ~mbaff
  <2>1. /\ r = Line(n) + ((-1) \div 16)
        /\ up = IF c \in Columns /\ r \in Lines THEN At(r, c) ELSE -1
        /\ Units(r, c) = At(r, c)
    <3>1. 16 \in Sizes /\ 0 \in -1..16 /\ -1 \in -1..16 - 1
      BY DEF Sizes
    <3>2. QED
      BY <1>1, <1>6, <3>1, FrameLeads, ZenonT(60)
  <2>2. r = Line(n) - 1
    <3>1. \A v \in -16..-1 : v \div 16 = -1
      OBVIOUS
    <3> HIDE DEF r
    <3>2. QED
      BY <1>1, <2>1, <3>1
  <2>3. ~Lower(n)
    BY <1>6 DEF Lower
  <2> HIDE DEF r, c, up
  <2>4. up = IF Line(n) # 0 THEN above ELSE -1
    BY <1>1, <1>2, <1>3, <2>1, <2>2
  <2>5. Line(n) # 0 => above # -1
    BY <1>4
  <2>6. QED
    BY <1>4, <1>5, <2>3, <2>4, <2>5 DEF up
<1>7. CASE mbaff
  <2> DEFINE row == Row(n, -1, 16)
             pair == 2 * At(r, c)
  <2>1. /\ row = RowOf(Field(n), n % 2, -1, 16) /\ r = Line(n) + (row \div 32)
        /\ c \in Columns /\ r \in PairLines
           => up = pair + (IF Field(pair) THEN (row % 32) % 2 ELSE (row % 32) \div 16)
        /\ c \in Columns /\ r \in PairLines => up \in {pair, pair + 1}
        /\ ~(c \in Columns /\ r \in PairLines) => up = -1
    <3>1. 16 \in Sizes /\ 0 \in -1..16 /\ -1 \in -1..16 - 1 /\ 2 * 16 = 32
      BY DEF Sizes
    <3>2. QED
      BY <1>1, <1>7, <3>1, PairPlace
  <2>2. CASE Lower(n)
    <3>1. n % 2 = 1 /\ ~Field(n)
      BY <1>1, <2>2 DEF Lower, Bottom
    <3>2. row = 15
      BY <2>1, <3>1 DEF RowOf
    <3>3. r = Line(n)
      BY <1>1, <2>1, <3>2
    <3>4. n = pair + 1 /\ pair \in Addresses /\ pair \in Nat
      <4>1. n = pair + 1 /\ At(r, c) \in Nat
        BY <1>1, <1>2, <1>7, <3>1, <3>3
      <4>2. pair \in Addresses
        BY <1>1, <1>2, <1>7, <3>3, PairIsOne
      <4>3. QED
        BY <4>1, <4>2
    <3>5. mb_data[n] = mb_data[pair] /\ Field(pair) = Field(n)
      <4>1. mb_data[pair + 1] = mb_data[pair]
        BY <1>1, <1>2, <1>7, <3>3, PairIsOne
      <4> HIDE DEF pair
      <4>2. QED
        BY <3>4, <4>1 DEF Field
    <3>6. up = pair
      <4>1. c \in Columns /\ r \in PairLines
        BY <1>1, <1>2, <1>7, <3>3
      <4> HIDE DEF pair, up, r, c
      <4>2. QED
        BY <2>1, <3>1, <3>2, <3>4, <3>5, <4>1
    <3> HIDE DEF pair, up
    <3>7. up = n - 1 /\ mb_data[up] = mb_data[n]
      BY <3>4, <3>5, <3>6
    <3>8. QED
      BY <1>5, <2>2, <3>7 DEF up
  <2>3. CASE ~Lower(n)
    <3>1. row \in -2..-1
      BY <1>1, <1>7, <2>1, <2>3 DEF Lower, Bottom, RowOf
    <3>2. r = Line(n) - 1
      <4>1. row \div 32 = -1
        BY <3>1
      <4>2. QED
        BY <1>1, <2>1, <4>1
    <3>3. above = pair
      BY <1>2, <1>7, <3>2 DEF Units
    <3>4. c \in Columns /\ (r \in PairLines <=> Line(n) # 0)
      BY <1>1, <1>2, <1>3, <1>7, <3>2
    <3>5. ASSUME Line(n) # 0
          PROVE  up # -1 /\ mb_data[up] = mb_data[above] /\ Field(up) = Field(above)
      <4>1. mb_data[pair + 1] = mb_data[pair]
        BY <1>7, <3>4, <3>5, PairIsOne
      <4>2. up \in {pair, pair + 1}
        BY <2>1, <3>4, <3>5
      <4> HIDE DEF pair, up, above, r, c
      <4>3. QED
        BY <1>4, <3>3, <3>5, <4>1, <4>2 DEF Field
    <3>6. Line(n) = 0 => up = -1
      BY <2>1, <3>4
    <3> HIDE DEF up, above
    <3>7. QED
      BY <1>4, <1>5, <2>3, <3>5, <3>6 DEF up, above
  <2>4. QED
    BY <2>2, <2>3
<1>8. QED
  BY <1>1, <1>6, <1>7

(* The upper edge: the samples found lie one row above the macroblock's,   *)
(* or two where one of the two is a field macroblock's.                    *)
LEMMA UpperEdge ==
    ASSUME AllDecoded, NEW n \in Addresses, MbAt(Position(n, 0, -1, 16), 16) # -1
    PROVE  LET up == MbAt(Position(n, 0, -1, 16), 16)
               q == Position(n, 0, 0, 16)
               p == getNeighbour(n, 0, -1, 16, 1)
               step == IF Field(n) \/ Field(up) THEN 2 ELSE 1
           IN  /\ Field(p.mb_addr) = Field(up)
               /\ Position(p.mb_addr, p.x, p.y, 16) = <<q[1], q[2] - step>>
<1> DEFINE up == MbAt(Position(n, 0, -1, 16), 16)
           above == Units(Line(n) - 1, Column(n))
           q == Position(n, 0, 0, 16)
           p == getNeighbour(n, 0, -1, 16, 1)
           step == IF Field(n) \/ Field(up) THEN 2 ELSE 1
<1>1. /\ NeighbourTypeOK /\ PairsAgree /\ mbaff \in BOOLEAN /\ n \in Nat /\ n % 2 \in 0..1
      /\ Line(n) \in Lines /\ Line(n) \in Nat /\ Column(n) \in Columns /\ Column(n) \in Nat
      /\ \A x, y : Position(n, x, y, 16) = <<Column(n) * 16 + x, Line(n) * Tall(16) + Row(n, y, 16)>>
  BY Placed
<1>2. /\ Lower(n) => up = n - 1 /\ mb_data[up] = mb_data[n]
      /\ ~Lower(n) => /\ Line(n) # 0 /\ above \in Addresses /\ above \in Nat
                      /\ mb_data[up] = mb_data[above] /\ Field(up) = Field(above)
  BY AboveWhich
<1>3. q = <<Column(n) * 16, Line(n) * Tall(16) + Row(n, 0, 16)>>
  <2>1. q = <<Column(n) * 16 + 0, Line(n) * Tall(16) + Row(n, 0, 16)>>
    BY <1>1
  <2>2. QED
    BY <1>1, <2>1
<1>4. CASE ~MixedAbove(n)
  <2>1. /\ p.mb_addr = up /\ Position(p.mb_addr, p.x, p.y, 16) = Position(n, 0, -1, 16)
    <3>1. /\ 0 \in -1..0 /\ -1 \in -1..15
          /\ up # -1 <=> LineOf(n, -1, 16) \in Lines /\ ColumnOf(n, 0, 16) \in Columns
          /\ LineOf(n, -1, 16) \in Lines /\ ColumnOf(n, 0, 16) \in Columns
             => LeadsThere(Units(LineOf(n, -1, 16), ColumnOf(n, 0, 16)), n, 0, -1, 16, 1)
      <4>1. 0 \in -1..0 /\ -1 \in -1..15
        OBVIOUS
      <4>2. QED
        BY <1>4, <4>1, FilterLeads
    <3>2. LeadsThere(Units(LineOf(n, -1, 16), ColumnOf(n, 0, 16)), n, 0, -1, 16, 1)
      BY <3>1
    <3>3. QED
      BY <3>2 DEF LeadsThere
  <2>2. Position(n, 0, -1, 16) = <<Column(n) * 16, Line(n) * Tall(16) + Row(n, -1, 16)>>
    <3>1. Position(n, 0, -1, 16) = <<Column(n) * 16 + 0, Line(n) * Tall(16) + Row(n, -1, 16)>>
      BY <1>1
    <3>2. QED
      BY <1>1, <3>1
  <2>3. Row(n, -1, 16) = Row(n, 0, 16) - step /\ Row(n, 0, 16) \in Int /\ step \in 1..2
    <3>1. ~Field(n) => ~Field(up)
      <4>1. CASE Lower(n)
        BY <1>2, <4>1 DEF Field
      <4>2. CASE ~Lower(n)
        BY <1>2, <1>4, <4>2 DEF MixedAbove, Lower, Field
      <4>3. QED
        BY <4>1, <4>2
    <3>2. ~mbaff => ~Field(n)
      BY DEF Field
    <3>3. step = IF Field(n) THEN 2 ELSE 1
      BY <3>1
    <3> HIDE DEF step
    <3>4. QED
      BY <1>1, <3>2, <3>3 DEF Row, RowOf
  <2>4. Line(n) * Tall(16) \in Int
    BY <1>1 DEF Tall
  <2> DEFINE high == Line(n) * Tall(16)
             row == Row(n, 0, 16)
  <2>5. q = <<Column(n) * 16, high + row>> /\ high \in Int /\ row \in Int
    BY <1>3, <2>3, <2>4
  <2>6. Position(n, 0, -1, 16) = <<Column(n) * 16, high + (row - step)>>
    BY <2>2, <2>3
  <2> HIDE DEF high, row, q, step
  <2>7. high + (row - step) = (high + row) - step
    BY <2>3, <2>5
  <2>8. Position(p.mb_addr, p.x, p.y, 16) = <<q[1], q[2] - step>>
    BY <2>1, <2>5, <2>6, <2>7
  <2>9. QED
    BY <2>1, <2>8 DEF q, step
<1>5. CASE MixedAbove(n)
  <2>1. /\ mbaff /\ ~Field(n) /\ n % 2 = 0 /\ ~Lower(n) /\ Line(n) # 0 /\ Field(above)
        /\ Line(n) - 1 \in PairLines /\ Line(n) - 1 \in Int
    <3>1. Lines = PairLines
      BY <1>5 DEF MixedAbove, Lines
    <3>2. QED
      BY <1>1, <1>5, <3>1, SizeIs DEF MixedAbove, Bottom, Lower, PairLines
  <2>2. above = 2 * At(Line(n) - 1, Column(n)) + 0 /\ above \in Addresses
    <3>1. above = 2 * At(Line(n) - 1, Column(n)) /\ above \in Nat
      BY <1>2, <2>1 DEF Units
    <3>2. QED
      BY <1>2, <2>1, <3>1
  <2>3. /\ CheckAvailabilityOfNeighbors(n, "B", 1).addr = above
        /\ CheckAvailabilityOfNeighbors(n, "B", 1).avail
    <3>1. SideLine("B") = -1 /\ SideColumn("B") = 0 /\ Line(n) + (-1) = Line(n) - 1 /\ Column(n) + 0 = Column(n)
      BY <1>1 DEF SideLine, SideColumn
    <3>2. Line(n) - 1 \in Lines
      BY <2>1 DEF Lines
    <3>3. QED
      BY <1>1, <3>1, <3>2, SideIs
  <2>4. p = Pix(TRUE, above, 0, -1, 16)
    <3> DEFINE M == CheckAvailabilityOfNeighbors(n, "B", 1)
    <3>1. p = getAffNeighbour(n, 0, -1, 16, 1) /\ ~Bottom(n)
      BY <2>1 DEF getNeighbour, Bottom
    <3>2. ~(-1 >= 16) /\ ~(0 >= 16) /\ ~(0 < 0) /\ 0 \in 0..(16 - 1) /\ ~(-1 >= 0)
      OBVIOUS
    <3>3. p = IF M.avail THEN Pix(TRUE, <<M.addr, -1>>[1], 0, <<M.addr, -1>>[2], 16) ELSE NoPix
      BY <2>1, <2>3, <3>1, <3>2, ZenonT(30) DEF getAffNeighbour
    <3>4. QED
      BY <2>3, <3>3
  <2>5. p = [available |-> TRUE, mb_addr |-> above, x |-> 0, y |-> 15]
    <3>1. \A v \in -16..15 : v % 16 = IF v < 0 THEN v + 16 ELSE v
      OBVIOUS
    <3>2. 0 % 16 = 0 /\ (-1) % 16 = 15
      BY <3>1
    <3>3. QED
      BY <2>4, <3>2 DEF Pix
  <2>6. Position(p.mb_addr, p.x, p.y, 16)
            = <<Column(n) * 16 + 0, (Line(n) - 1) * (2 * 16) + RowOf(Field(above), 0, 15, 16)>>
    <3>1. Position(above, 0, 15, 16)
              = <<Column(n) * 16 + 0, (Line(n) - 1) * (2 * 16) + RowOf(Field(above), 0, 15, 16)>>
      BY <1>1, <2>1, <2>2, PositionIs
    <3>2. QED
      BY <2>5, <3>1
  <2>7. RowOf(Field(above), 0, 15, 16) = 30 /\ Row(n, 0, 16) = 0 /\ Tall(16) = 32
    BY <2>1 DEF RowOf, Row, Tall
  <2>8. step = 2
    BY <1>2, <2>1
  <2> DEFINE l == Line(n)
             c == Column(n)
  <2>9. /\ q = <<c * 16, l * 32 + 0>> /\ Position(p.mb_addr, p.x, p.y, 16) = <<c * 16 + 0, (l - 1) * (2 * 16) + 30>>
        /\ l \in Int /\ c \in Int
    BY <1>1, <1>3, <2>6, <2>7
  <2> HIDE DEF q, step, l, c
  <2>10. Position(p.mb_addr, p.x, p.y, 16) = <<q[1], q[2] - step>>
    <3>1. c * 16 + 0 = c * 16 /\ (l - 1) * (2 * 16) + 30 = (l * 32 + 0) - 2
      BY <2>9
    <3>2. QED
      BY <2>8, <2>9, <3>1
  <2>11. Field(p.mb_addr) = Field(up)
    BY <1>2, <2>1, <2>5
  <2>12. QED
    BY <2>10, <2>11 DEF q, step
<1>6. QED
  BY <1>4, <1>5

(* The second upper edge: from row 1 of a frame macroblock to the lower    *)
(* macroblock of the field pair above it.                                  *)
LEMMA SecondEdge ==
    ASSUME AllDecoded, NEW n \in Addresses, MbAt(Position(n, 0, -1, 16), 16) # -1,
           ~Field(n), Field(MbAt(Position(n, 0, -1, 16), 16))
    PROVE  LET q == Position(n, 0, 1, 16)
               p == getNeighbour(n, 0, 0, 16, 2)
           IN  Position(p.mb_addr, p.x, p.y, 16) = <<q[1], q[2] - 2>>
<1> DEFINE up == MbAt(Position(n, 0, -1, 16), 16)
           above == Units(Line(n) - 1, Column(n))
           q == Position(n, 0, 1, 16)
           p == getNeighbour(n, 0, 0, 16, 2)
<1>1. /\ NeighbourTypeOK /\ mbaff \in BOOLEAN /\ n \in Nat /\ n % 2 \in 0..1
      /\ Line(n) \in Lines /\ Line(n) \in Nat /\ Column(n) \in Columns /\ Column(n) \in Nat
      /\ \A x, y : Position(n, x, y, 16) = <<Column(n) * 16 + x, Line(n) * Tall(16) + Row(n, y, 16)>>
  BY Placed
<1>2. mbaff
  BY DEF Field
<1>3. ~Lower(n) /\ Line(n) # 0 /\ above \in Addresses /\ above \in Nat /\ Field(above) /\ n % 2 = 0
  <2>1. Lower(n) => mb_data[up] = mb_data[n]
    BY AboveWhich
  <2>2. ~Lower(n)
    BY <2>1 DEF Field
  <2>3. Line(n) # 0 /\ above \in Addresses /\ above \in Nat /\ Field(up) = Field(above)
    BY <2>2, AboveWhich
  <2>4. QED
    BY <1>1, <1>2, <2>2, <2>3 DEF Lower, Bottom
<1>4. Line(n) - 1 \in PairLines /\ Line(n) - 1 \in Int /\ Lines = PairLines
  BY <1>1, <1>2, <1>3, SizeIs DEF Lines, PairLines
<1>5. above = 2 * At(Line(n) - 1, Column(n)) /\ At(Line(n) - 1, Column(n)) \in Int
  <2>1. At(Line(n) - 1, Column(n)) \in Int
    BY <1>1, <1>2, <1>4, PairIsOne
  <2>2. QED
    BY <1>2, <2>1 DEF Units
<1>6. above + 1 = 2 * At(Line(n) - 1, Column(n)) + 1 /\ Field(above + 1)
  <2>1. mb_data[above + 1] = mb_data[above]
    BY <1>1, <1>2, <1>4, <1>5, PairIsOne
  <2>2. QED
    BY <1>3, <1>5, <2>1 DEF Field
<1>7. CheckAvailabilityOfNeighbors(n, "B", 2).addr = above
  <2>1. SideLine("B") = -1 /\ SideColumn("B") = 0 /\ Line(n) + (-1) = Line(n) - 1 /\ Column(n) + 0 = Column(n)
    BY <1>1 DEF SideLine, SideColumn
  <2>2. QED
    BY <1>1, <2>1, SideIs
<1>8. p = Pix(TRUE, above + 1, 0, 0 - 1, 16)
  <2>1. p = Pix(TRUE, CheckAvailabilityOfNeighbors(n, "B", 2).addr + 1, 0, 0 - 1, 16)
    BY <1>2 DEF getNeighbour, getAffNeighbour
  <2>2. QED
    BY <1>7, <2>1
<1>9. p = [available |-> TRUE, mb_addr |-> above + 1, x |-> 0, y |-> 15]
  <2>1. \A v \in -16..15 : v % 16 = IF v < 0 THEN v + 16 ELSE v
    OBVIOUS
  <2>2. 0 % 16 = 0 /\ (0 - 1) % 16 = 15
    BY <2>1
  <2>3. QED
    BY <1>8, <2>2 DEF Pix
<1>10. Position(p.mb_addr, p.x, p.y, 16)
           = <<Column(n) * 16 + 0, (Line(n) - 1) * (2 * 16) + RowOf(Field(above + 1), 1, 15, 16)>>
  <2>1. Position(above + 1, 0, 15, 16)
            = <<Column(n) * 16 + 0, (Line(n) - 1) * (2 * 16) + RowOf(Field(above + 1), 1, 15, 16)>>
    BY <1>1, <1>2, <1>4, <1>6, PositionIs
  <2>2. QED
    BY <1>9, <2>1
<1>11. RowOf(Field(above + 1), 1, 15, 16) = 31 /\ Row(n, 1, 16) = 1 /\ Tall(16) = 32
  BY <1>2, <1>3, <1>6 DEF RowOf, Row, Tall
<1> DEFINE l == Line(n)
           c == Column(n)
<1>12. /\ q = <<c * 16 + 0, l * 32 + 1>> /\ l \in Int /\ c \in Int
       /\ Position(p.mb_addr, p.x, p.y, 16) = <<c * 16 + 0, (l - 1) * (2 * 16) + 31>>
  BY <1>1, <1>10, <1>11
<1> HIDE DEF q, l, c
<1>13. (l - 1) * (2 * 16) + 31 = (l * 32 + 1) - 2
  BY <1>12
<1>14. Position(p.mb_addr, p.x, p.y, 16) = <<q[1], q[2] - 2>>
  BY <1>12, <1>13
<1>15. QED
  BY <1>14 DEF q

(* The flags decoding left for macroblock n say whether the one beside or  *)
(* above it is of the same slice, until the filter has passed it.          *)
FlagsOf(n) == /\ mbAvailA[n] <=> CheckAvailabilityOfNeighbors(n, "A", 0).avail
              /\ mbAvailB[n] <=> CheckAvailabilityOfNeighbors(n, "B", 0).avail

FlagsInv ==
    /\ mbAvailA \in [Addresses -> BOOLEAN] /\ mbAvailB \in [Addresses -> BOOLEAN]
    /\ \A m \in Addresses : mb_data[m].slice_nr # -1 /\ (filtering => current_mb_nr < m) => FlagsOf(m)

LEMMA FlagsStart == NeighboursInit => FlagsInv
  BY DEF NeighboursInit, FlagsInv

(* Where CheckAvailabilityOfNeighbors looks: before the macroblock.        *)
NeighbourOf(m, side) == IF mbaff THEN 2 * (m \div 2 - (IF side = "A" THEN 1 ELSE PicWidthInMbs))
                        ELSE m - (IF side = "A" THEN 1 ELSE PicWidthInMbs)

Inside(m, side) == IF side = "A" THEN (IF mbaff THEN m \div 2 ELSE m) % PicWidthInMbs # 0 ELSE TRUE

Looks ==
    mbaff \in BOOLEAN =>
        \A m \in Nat, side \in {"A", "B"} :
            /\ NeighbourOf(m, side) \in Int /\ NeighbourOf(m, side) < m
            /\ \A call : CheckAvailabilityOfNeighbors(m, side, call).avail \in BOOLEAN
            /\ CheckAvailabilityOfNeighbors(m, side, 0).avail
               <=> /\ NeighbourOf(m, side) \in Addresses
                   /\ mb_data[NeighbourOf(m, side)].slice_nr = mb_data[m].slice_nr
                   /\ Inside(m, side)

LEMMA LooksBefore == Looks
<1> SUFFICES ASSUME mbaff \in BOOLEAN, NEW m \in Nat, NEW side \in {"A", "B"}
             PROVE  /\ NeighbourOf(m, side) \in Int /\ NeighbourOf(m, side) < m
                    /\ \A call : CheckAvailabilityOfNeighbors(m, side, call).avail \in BOOLEAN
                    /\ CheckAvailabilityOfNeighbors(m, side, 0).avail
                       <=> /\ NeighbourOf(m, side) \in Addresses
                           /\ mb_data[NeighbourOf(m, side)].slice_nr = mb_data[m].slice_nr
                           /\ Inside(m, side)
  BY DEF Looks
<1>1. m \div 2 \in Nat /\ 2 * (m \div 2) <= m /\ PicWidthInMbs \in Nat \ {0}
  BY SizeAssumption
<1>2. NeighbourOf(m, side) \in Int /\ NeighbourOf(m, side) < m
  <2> DEFINE d == IF side = "A" THEN 1 ELSE PicWidthInMbs
             h == m \div 2
  <2>1. d \in Nat \ {0} /\ h \in Nat /\ 2 * h <= m
    BY <1>1
  <2>2. NeighbourOf(m, side) = IF mbaff THEN 2 * (h - d) ELSE m - d
    BY DEF NeighbourOf
  <2> HIDE DEF d, h
  <2>3. QED
    BY <2>1, <2>2
<1>3. ASSUME NEW call
      PROVE  /\ CheckAvailabilityOfNeighbors(m, side, call).avail \in BOOLEAN
             /\ CheckAvailabilityOfNeighbors(m, side, call).avail
                <=> mb_is_available(NeighbourOf(m, side), m, call) /\ Inside(m, side)
  <2> DEFINE k == IF mbaff THEN m \div 2 ELSE m
             w == PicWidthInMbs
             to == CASE side = "A" -> k - 1
                     [] side = "B" -> k - w
                     [] side = "C" -> k - w + 1
                     [] side = "D" -> k - w - 1
             inside == CASE side \in {"A", "D"} -> k % w # 0
                         [] side = "C" -> (k + 1) % w # 0
                         [] OTHER -> TRUE
             addr == IF mbaff THEN 2 * to ELSE to
             c == CheckAvailabilityOfNeighbors(m, side, call)
  <2>1. c = [addr |-> addr, avail |-> mb_is_available(addr, m, call) /\ inside]
    BY Zenon DEF CheckAvailabilityOfNeighbors
  <2>2. addr = NeighbourOf(m, side)
    BY DEF NeighbourOf
  <2>3. inside <=> Inside(m, side)
    BY DEF Inside
  <2> HIDE DEF addr, inside, c
  <2>4. (c.avail <=> mb_is_available(addr, m, call) /\ inside) /\ c.avail \in BOOLEAN
    BY <2>1, Zenon
  <2>5. QED
    BY <2>2, <2>3, <2>4 DEF c
<1>4. QED
  BY <1>2, <1>3 DEF mb_is_available

(* Decoding a macroblock leaves its flags right, and those of the others:  *)
(* the ones of its slice are before it, and look before themselves.        *)
LEMMA DecodingLeavesFlags ==
    ASSUME NeighbourInv, FlagsInv, ~filtering, NEW n, NEW k \in Nat, DecodeMacroblock(n, k),
           \A m \in Addresses : mb_data[m].slice_nr = k => m <= n
    PROVE  FlagsInv'
<1>1. /\ n \in Addresses /\ mb_data[n].slice_nr = -1 /\ mbaff' = mbaff /\ filtering' = filtering
      /\ mb_data'[n].slice_nr = k
      /\ \A m \in Addresses \ {n} : mb_data'[m] = mb_data[m]
  BY DecodedOne
<1>2. Addresses' = Addresses /\ mbaff \in BOOLEAN /\ \A m \in Addresses : m \in Nat
  BY SizeIs DEF Addresses, PicSizeInMbs, NeighbourInv, NeighbourTypeOK
<1>3. Looks /\ Looks'
  BY LooksBefore, PTL
<1>4. /\ mbAvailA' = [m \in Addresses |-> IF m = n THEN CheckAvailabilityOfNeighbors(m, "A", 0)'.avail ELSE mbAvailA[m]]
      /\ mbAvailB' = [m \in Addresses |-> IF m = n THEN CheckAvailabilityOfNeighbors(m, "B", 0)'.avail ELSE mbAvailB[m]]
  BY DEF DecodeMacroblock
<1>5. \A m \in Addresses : /\ CheckAvailabilityOfNeighbors(m, "A", 0)'.avail \in BOOLEAN
                           /\ CheckAvailabilityOfNeighbors(m, "B", 0)'.avail \in BOOLEAN
  BY <1>1, <1>2, <1>3 DEF Looks
<1>6. (mbAvailA \in [Addresses -> BOOLEAN] /\ mbAvailB \in [Addresses -> BOOLEAN])'
  BY <1>2, <1>4, <1>5 DEF FlagsInv
<1>7. ASSUME NEW m \in Addresses, mb_data'[m].slice_nr # -1
      PROVE  FlagsOf(m)'
  <2>1. CASE m = n
    BY <1>4, <2>1 DEF FlagsOf
  <2>2. CASE m # n
    <3>1. FlagsOf(m) /\ mb_data[m].slice_nr # -1 /\ mb_data'[m] = mb_data[m]
      BY <1>1, <1>7, <2>2 DEF FlagsInv
    <3>2. ASSUME NEW side \in {"A", "B"}
          PROVE  CheckAvailabilityOfNeighbors(m, side, 0)'.avail <=> CheckAvailabilityOfNeighbors(m, side, 0).avail
      <4> DEFINE b == NeighbourOf(m, side)
      <4>1. b \in Int /\ b < m /\ m \in Nat /\ n \in Nat
        BY <1>1, <1>2, <1>3 DEF Looks
      <4>2. CheckAvailabilityOfNeighbors(m, side, 0).avail
              <=> b \in Addresses /\ mb_data[b].slice_nr = mb_data[m].slice_nr /\ Inside(m, side)
        BY <1>2, <1>3 DEF Looks
      <4>3. CheckAvailabilityOfNeighbors(m, side, 0)'.avail
              <=> b \in Addresses /\ mb_data'[b].slice_nr = mb_data'[m].slice_nr /\ Inside(m, side)
        BY <1>1, <1>2, <1>3 DEF Looks, NeighbourOf, Inside
      <4>4. b = n => mb_data[b].slice_nr # mb_data[m].slice_nr /\ mb_data'[b].slice_nr # mb_data'[m].slice_nr
        BY <1>1, <3>1, <4>1
      <4>5. b \in Addresses /\ b # n => mb_data'[b] = mb_data[b]
        BY <1>1
      <4> HIDE DEF b
      <4>6. QED
        BY <3>1, <4>2, <4>3, <4>4, <4>5
    <3>3. mbAvailA'[m] = mbAvailA[m] /\ mbAvailB'[m] = mbAvailB[m]
      BY <1>4, <2>2
    <3>4. QED
      BY <3>1, <3>2, <3>3 DEF FlagsOf
  <2>3. QED
    BY <2>1, <2>2
<1>8. QED
  BY <1>2, <1>6, <1>7 DEF FlagsInv

(* The filter overwrites the flags of the macroblock it has done.          *)
LEMMA FilteringLeavesFlags == NeighbourInv /\ FlagsInv /\ DeblockPicture => FlagsInv'
<1> SUFFICES ASSUME NeighbourInv, FlagsInv, DeblockPicture PROVE FlagsInv'
  OBVIOUS
<1>1. PICK n : /\ n \in Addresses /\ current_mb_nr' = n /\ LeaveFlags(n) /\ mbaff' = mbaff /\ mb_data' = mb_data
               /\ filtering' = TRUE /\ (filtering => n = current_mb_nr + 1)
  BY DEF DeblockPicture
<1>2. Addresses' = Addresses /\ mbaff \in BOOLEAN /\ \A m \in Addresses : m \in Nat
  BY SizeIs DEF Addresses, PicSizeInMbs, NeighbourInv, NeighbourTypeOK
<1>3. Looks /\ Looks'
  BY LooksBefore, PTL
<1>4. /\ mbAvailA' \in [Addresses -> BOOLEAN] /\ mbAvailB' \in [Addresses -> BOOLEAN]
      /\ \A m \in Addresses \ {n} : mbAvailA'[m] = mbAvailA[m] /\ mbAvailB'[m] = mbAvailB[m]
  <2>1. /\ mbAvailA \in [Addresses -> BOOLEAN] /\ mbAvailB \in [Addresses -> BOOLEAN]
    BY DEF FlagsInv
  <2>2. /\ CheckAvailabilityOfNeighbors(n, "A", 1).avail \in BOOLEAN
        /\ CheckAvailabilityOfNeighbors(n, "B", 1).avail \in BOOLEAN
    BY <1>1, <1>2, <1>3 DEF Looks
  <2>3. CASE UNCHANGED <<mbAvailA, mbAvailB>>
    BY <2>1, <2>3
  <2>4. CASE /\ mbAvailA' = [mbAvailA EXCEPT ![n] = CheckAvailabilityOfNeighbors(n, "A", 1).avail]
             /\ mbAvailB' = [mbAvailB EXCEPT ![n] = CheckAvailabilityOfNeighbors(n, "B", 1).avail]
    <3> DEFINE a == CheckAvailabilityOfNeighbors(n, "A", 1).avail
               b == CheckAvailabilityOfNeighbors(n, "B", 1).avail
    <3>1. a \in BOOLEAN /\ b \in BOOLEAN /\ mbAvailA' = [mbAvailA EXCEPT ![n] = a] /\ mbAvailB' = [mbAvailB EXCEPT ![n] = b]
      BY <2>2, <2>4
    <3> HIDE DEF a, b
    <3>2. QED
      BY <1>1, <2>1, <3>1
  <2>5. QED
    BY <1>1, <2>3, <2>4 DEF LeaveFlags
<1>5. ASSUME NEW m \in Addresses, mb_data[m].slice_nr # -1, n < m PROVE FlagsOf(m)'
  <2>1. filtering => current_mb_nr < m
    <3>1. filtering => current_mb_nr \in Nat
      BY <1>2 DEF NeighbourInv, NoneLeft, NeighbourTypeOK
    <3>2. QED
      BY <1>1, <1>2, <1>5, <3>1
  <2>2. FlagsOf(m) /\ m # n
    BY <1>2, <1>5, <2>1 DEF FlagsInv
  <2>3. ASSUME NEW side \in {"A", "B"}
        PROVE  CheckAvailabilityOfNeighbors(m, side, 0)'.avail <=> CheckAvailabilityOfNeighbors(m, side, 0).avail
    BY <1>1, <1>2, <1>3 DEF Looks, NeighbourOf, Inside
  <2>4. QED
    BY <1>4, <2>2, <2>3 DEF FlagsOf
<1>6. QED
  BY <1>1, <1>2, <1>4, <1>5 DEF FlagsInv

LEMMA FlagsStep == NeighbourInv /\ FlagsInv /\ [NeighboursNext]_neighbourVars => FlagsInv'
<1> SUFFICES ASSUME NeighbourInv, FlagsInv, [NeighboursNext]_neighbourVars PROVE FlagsInv'
  OBVIOUS
<1>1. Addresses' = Addresses
  BY DEF Addresses, PicSizeInMbs
<1>2. CASE ChooseMbaff
  <2>1. /\ mb_data' = mb_data /\ mbAvailA' = mbAvailA /\ mbAvailB' = mbAvailB
        /\ \A m \in Addresses : mb_data[m].slice_nr = -1
    BY <1>2 DEF ChooseMbaff, NeighbourInv, NoneLeft, Begun
  <2>2. QED
    BY <1>1, <2>1 DEF FlagsInv
<1>3. CASE StartMbSlice
  <2>1. PICK n \in Addresses : DecodeMacroblock(n, Len(LFDisableIdc))
    BY <1>3 DEF StartMbSlice
  <2>2. ~filtering /\ Len(LFDisableIdc) \in Nat
    BY <1>3 DEF StartMbSlice, NeighbourInv, NeighbourTypeOK
  <2>3. \A m \in Addresses : mb_data[m].slice_nr # Len(LFDisableIdc)
    BY <2>2 DEF NeighbourInv, SliceNumbers
  <2> DEFINE k == Len(LFDisableIdc)
  <2>4. k \in Nat /\ DecodeMacroblock(n, k) /\ \A m \in Addresses : mb_data[m].slice_nr = k => m <= n
    BY <2>1, <2>2, <2>3
  <2> HIDE DEF k
  <2>5. QED
    BY <2>2, <2>4, DecodingLeavesFlags
<1>4. CASE start_macroblock
  <2> DEFINE n == current_mb_nr + 1
             k == Len(LFDisableIdc) - 1
  <2>1. ~filtering /\ current_mb_nr # -1 /\ DecodeMacroblock(n, k)
    BY <1>4 DEF start_macroblock
  <2>2. /\ current_mb_nr \in Addresses /\ Begun /\ Len(LFDisableIdc) \in Nat
        /\ \A m \in Addresses : m \in Nat
    BY <2>1, SizeIs DEF NeighbourInv, NeighbourTypeOK, Addresses
  <2>3. k \in Nat /\ \A m \in Addresses : mb_data[m].slice_nr = k => m <= n
    BY <2>1, <2>2 DEF Begun
  <2> HIDE DEF n, k
  <2>4. QED
    BY <2>1, <2>3, DecodingLeavesFlags
<1>5. CASE DeblockPicture
  BY <1>5, FilteringLeavesFlags
<1>6. CASE UNCHANGED neighbourVars
  <2>1. /\ mbaff' = mbaff /\ filtering' = filtering /\ mb_data' = mb_data /\ current_mb_nr' = current_mb_nr
        /\ mbAvailA' = mbAvailA /\ mbAvailB' = mbAvailB
    BY <1>6 DEF neighbourVars
  <2>2. Looks /\ Looks' /\ mbaff \in BOOLEAN /\ \A m \in Addresses : m \in Nat
    <3>1. mbaff \in BOOLEAN /\ \A m \in Addresses : m \in Nat
      BY SizeIs DEF NeighbourInv, NeighbourTypeOK, Addresses
    <3>2. Looks /\ Looks'
      BY LooksBefore, PTL
    <3>3. QED
      BY <3>1, <3>2
  <2>3. ASSUME NEW m \in Addresses, NEW side \in {"A", "B"}
        PROVE  CheckAvailabilityOfNeighbors(m, side, 0)'.avail <=> CheckAvailabilityOfNeighbors(m, side, 0).avail
    BY <1>1, <2>1, <2>2 DEF Looks, NeighbourOf, Inside
  <2>4. \A m \in Addresses : FlagsOf(m) => FlagsOf(m)'
    BY <2>1, <2>3 DEF FlagsOf
  <2>5. QED
    BY <1>1, <2>1, <2>4 DEF FlagsInv
<1>7. QED
  BY <1>2, <1>3, <1>4, <1>5, <1>6 DEF NeighboursNext

(* The edges of macroblock n that disable_deblocking_filter_idc, idc, lets *)
(* the filter smooth: what EdgesFiltered says of the current macroblock.   *)
Expecting(n, idc) ==
    LET Allowed(m) == m # -1 /\ idc # 1 /\ (idc = 2 => mb_data[m].slice_nr = mb_data[n].slice_nr)
        leftmost == MbAt(Position(n, -1, 0, 16), 16)
        up == MbAt(Position(n, 0, -1, 16), 16)
        fields == Field(n) \/ (up # -1 /\ Field(up))
        hidden == mbaff /\ Bottom(n) /\ ~Field(n) /\ idc = 2 /\ ~CheckAvailabilityOfNeighbors(n, "B", 0).avail
        step == IF fields THEN 2 ELSE 1
        Across(y, dx, dy) == LET q == Position(n, 0, y, 16) IN <<q, <<q[1] + dx, q[2] + dy>>>>
    IN  (IF Allowed(leftmost) THEN {Across(y, -1, 0) : y \in 0..15} ELSE {})
        \cup (IF Allowed(up) /\ ~hidden THEN {Across(0, 0, -step)} ELSE {})
        \cup (IF Allowed(up) /\ ~hidden /\ fields /\ ~Field(n) THEN {Across(1, 0, -step)} ELSE {})

LEMMA FilteredIs ==
    ASSUME AllDecoded, NEW n \in Addresses, NEW idc, FlagsOf(n)
    PROVE  Deblocked(n, idc) = Expecting(n, idc)
<1> DEFINE at == Position(n, 0, 0, 16)
           row == IF mbaff THEN 2 * ((n \div 2) \div PicWidthInMbs) + (n % 2) ELSE n \div PicWidthInMbs
           left == IF idc = 2 THEN mbAvailA[n] ELSE at[1] # 0
           top == IF idc = 2 THEN mbAvailB[n] ELSE row # 0 /\ ~(row = 1 /\ Field(n))
           Edge(q, pix) == <<Position(n, q[1], q[2], 16), Position(pix.mb_addr, pix.x, pix.y, 16)>>
           p == getNeighbour(n, 0, -1, 16, 1)
           mixed == ~Field(n) /\ Field(p.mb_addr)
           Allowed(m) == m # -1 /\ idc # 1 /\ (idc = 2 => mb_data[m].slice_nr = mb_data[n].slice_nr)
           leftmost == MbAt(Position(n, -1, 0, 16), 16)
           up == MbAt(Position(n, 0, -1, 16), 16)
           fields == Field(n) \/ (up # -1 /\ Field(up))
           hidden == mbaff /\ Bottom(n) /\ ~Field(n) /\ idc = 2 /\ ~CheckAvailabilityOfNeighbors(n, "B", 0).avail
           step == IF fields THEN 2 ELSE 1
           Across(y, dx, dy) == LET q == Position(n, 0, y, 16) IN <<q, <<q[1] + dx, q[2] + dy>>>>
           Lefts == {Edge(<<0, y>>, getNeighbour(n, -1, y, 16, 1)) : y \in 0..15}
           Second == Edge(<<0, 1>>, getNeighbour(n, 0, 0, 16, 2))
           Beside == {Across(y, -1, 0) : y \in 0..15}
<1>1. /\ mbaff \in BOOLEAN /\ n \in Nat /\ n % 2 \in 0..1 /\ Line(n) \in Nat /\ Column(n) \in Nat
      /\ \A x, y : Position(n, x, y, 16) = <<Column(n) * 16 + x, Line(n) * Tall(16) + Row(n, y, 16)>>
  BY Placed
<1>2. Deblocked(n, idc) = IF idc = 1 THEN {}
                          ELSE (IF left THEN Lefts ELSE {})
                               \cup (IF top THEN {Edge(<<0, 0>>, p)} ELSE {})
                               \cup (IF top /\ mixed THEN {Second} ELSE {})
  BY Zenon DEF Deblocked
<1>3. Expecting(n, idc) = (IF Allowed(leftmost) THEN Beside ELSE {})
                          \cup (IF Allowed(up) /\ ~hidden THEN {Across(0, 0, -step)} ELSE {})
                          \cup (IF Allowed(up) /\ ~hidden /\ fields /\ ~Field(n) THEN {Across(1, 0, -step)} ELSE {})
  BY Zenon DEF Expecting
<1>4. idc = 1 => Deblocked(n, idc) = {} /\ Expecting(n, idc) = {}
  <2> HIDE DEF left, top, mixed, p, leftmost, up, fields, hidden, step, Lefts, Second, Beside, Across, Edge
  <2>1. idc = 1 => ~Allowed(leftmost) /\ ~Allowed(up)
    OBVIOUS
  <2> HIDE DEF Allowed
  <2>2. QED
    BY <1>2, <1>3, <2>1
<1>5. ASSUME idc # 1 PROVE left <=> Allowed(leftmost)
  <2>1. /\ leftmost # -1 <=> at[1] # 0
        /\ mbAvailA[n] <=> leftmost # -1 /\ mb_data[leftmost].slice_nr = mb_data[n].slice_nr
    BY LeftEdge DEF FlagsOf
  <2> HIDE DEF leftmost, at
  <2>2. QED
    BY <1>5, <2>1
<1>6. ASSUME Allowed(leftmost) PROVE Lefts = Beside
  <2>1. ASSUME NEW y \in 0..15
        PROVE  Edge(<<0, y>>, getNeighbour(n, -1, y, 16, 1)) = Across(y, -1, 0)
    <3> DEFINE q == Position(n, 0, y, 16)
               pix == getNeighbour(n, -1, y, 16, 1)
    <3>1. Position(pix.mb_addr, pix.x, pix.y, 16) = <<q[1] - 1, q[2]>>
      BY <1>6, LeftEdge
    <3>2. q[1] \in Int /\ q[2] \in Int
      BY <1>1 DEF Tall, Row, RowOf
    <3> HIDE DEF q, pix
    <3>3. q[1] + (-1) = q[1] - 1 /\ q[2] + 0 = q[2]
      BY <3>2
    <3>4. <<q, Position(pix.mb_addr, pix.x, pix.y, 16)>> = <<q, <<q[1] + (-1), q[2] + 0>>>>
      BY <3>1, <3>3
    <3>5. QED
      BY <3>4 DEF q, pix
  <2> HIDE DEF Edge, Across
  <2>2. QED
    BY <2>1
<1>7. ASSUME idc # 1 PROVE top <=> Allowed(up) /\ ~hidden
  <2>1. /\ Lower(n) => up = n - 1 /\ mb_data[up] = mb_data[n]
        /\ ~Lower(n) => /\ up # -1 <=> Line(n) # 0
                        /\ Line(n) # 0 => mb_data[up] = mb_data[Units(Line(n) - 1, Column(n))]
        /\ CheckAvailabilityOfNeighbors(n, "B", 0).avail
               <=> Line(n) # 0 /\ mb_data[Units(Line(n) - 1, Column(n))].slice_nr = mb_data[n].slice_nr
    BY AboveWhich
  <2>f. mbAvailB[n] <=> CheckAvailabilityOfNeighbors(n, "B", 0).avail
    BY DEF FlagsOf
  <2>2. row = IF mbaff THEN 2 * Line(n) + (n % 2) ELSE Line(n)
    BY DEF Line, Unit
  <2>3. Lower(n) => n # 0
    BY DEF Lower, Bottom
  <2> HIDE DEF up, row
  <2>4. Lower(n) => up # -1
    BY <1>1, <2>1, <2>3
  <2>5. row # 0 /\ ~(row = 1 /\ Field(n)) <=> Lower(n) \/ Line(n) # 0
    <3>1. ~mbaff => ~Field(n)
      BY DEF Field
    <3>2. QED
      BY <1>1, <2>2, <3>1 DEF Lower, Bottom
  <2>6. hidden <=> Lower(n) /\ idc = 2 /\ ~CheckAvailabilityOfNeighbors(n, "B", 0).avail
    BY DEF Lower
  <2> HIDE DEF hidden
  <2>7. QED
    BY <1>7, <2>1, <2>f, <2>4, <2>5, <2>6
<1>8. ASSUME up # -1
      PROVE  /\ Edge(<<0, 0>>, p) = Across(0, 0, -step) /\ (mixed <=> fields /\ ~Field(n))
             /\ fields /\ ~Field(n) => Second = Across(1, 0, -step)
  <2>1. /\ Field(p.mb_addr) = Field(up)
        /\ Position(p.mb_addr, p.x, p.y, 16) = <<at[1], at[2] - step>>
    BY <1>8, UpperEdge
  <2>2. fields <=> Field(n) \/ Field(up)
    BY <1>8
  <2>3. \A y \in 0..1 : Position(n, 0, y, 16)[1] \in Int /\ Position(n, 0, y, 16)[2] \in Int
    BY <1>1 DEF Tall, Row, RowOf
  <2>4. step \in Int
    OBVIOUS
  <2>5. Edge(<<0, 0>>, p) = Across(0, 0, -step)
    <3>1. at[1] \in Int /\ at[2] \in Int
      BY <2>3
    <3> HIDE DEF at, step, p
    <3>2. at[1] + 0 = at[1] /\ at[2] + (-step) = at[2] - step
      BY <2>4, <3>1
    <3>3. <<at, Position(p.mb_addr, p.x, p.y, 16)>> = <<at, <<at[1] + 0, at[2] + (-step)>>>>
      BY <2>1, <3>2
    <3>4. QED
      BY <3>3 DEF at
  <2>6. mixed <=> fields /\ ~Field(n)
    <3> HIDE DEF p, up, fields
    <3>1. QED
      BY <2>1, <2>2
  <2>7. ASSUME fields, ~Field(n) PROVE Second = Across(1, 0, -step)
    <3> DEFINE q == Position(n, 0, 1, 16)
               pix == getNeighbour(n, 0, 0, 16, 2)
    <3>1. Position(pix.mb_addr, pix.x, pix.y, 16) = <<q[1], q[2] - 2>>
      BY <1>8, <2>2, <2>7, SecondEdge
    <3>2. step = 2
      BY <2>7
    <3>3. q[1] \in Int /\ q[2] \in Int
      BY <2>3
    <3> HIDE DEF q, pix, step
    <3>4. q[1] + 0 = q[1] /\ q[2] + (-step) = q[2] - 2
      BY <3>2, <3>3
    <3>5. <<q, Position(pix.mb_addr, pix.x, pix.y, 16)>> = <<q, <<q[1] + 0, q[2] + (-step)>>>>
      BY <3>1, <3>4
    <3>6. QED
      BY <3>5 DEF q, pix
  <2>8. QED
    BY <2>5, <2>6, <2>7
<1>9. ASSUME idc # 1 PROVE Deblocked(n, idc) = Expecting(n, idc)
  <2>1. Allowed(up) => up # -1
    OBVIOUS
  <2> HIDE DEF left, top, mixed, p, leftmost, up, fields, hidden, step, Lefts, Second, Beside, Across, Edge, Allowed
  <2>2. /\ left <=> Allowed(leftmost)
        /\ Allowed(leftmost) => Lefts = Beside
        /\ top <=> Allowed(up) /\ ~hidden
        /\ Allowed(up) => /\ Edge(<<0, 0>>, p) = Across(0, 0, -step) /\ (mixed <=> fields /\ ~Field(n))
                          /\ fields /\ ~Field(n) => Second = Across(1, 0, -step)
    BY <1>5, <1>6, <1>7, <1>8, <1>9, <2>1
  <2>3. QED
    BY <1>2, <1>3, <1>9, <2>2
<1>10. QED
  BY <1>4, <1>9

FilterInv == NeighbourInv /\ FlagsInv /\ EdgesFiltered

(* EdgesFiltered is what Expecting says of the macroblock filtered last.   *)
Meant == \A m, i : /\ m = current_mb_nr /\ i = LFDisableIdc[mb_data[m].slice_nr + 1] /\ edges = Expecting(m, i)
                   => EdgesFiltered

LEMMA FilteredMeans == Meant
<1> SUFFICES ASSUME edges = Expecting(current_mb_nr, LFDisableIdc[mb_data[current_mb_nr].slice_nr + 1])
             PROVE  EdgesFiltered
  BY DEF Meant
<1>1. QED
  BY Zenon DEF EdgesFiltered, Expecting

LEMMA FilteredSays ==
    ASSUME EdgesFiltered, filtering
    PROVE  edges = Expecting(current_mb_nr, LFDisableIdc[mb_data[current_mb_nr].slice_nr + 1])
BY Zenon DEF EdgesFiltered, Expecting

(* Whether there is a macroblock above to smooth with.                     *)
AboveAvailable ==
    \A m \in Addresses : CheckAvailabilityOfNeighbors(m, "B", 0).avail
                         <=> Line(m) # 0 /\ mb_data[Units(Line(m) - 1, Column(m))].slice_nr = mb_data[m].slice_nr

LEMMA AboveIsAvailable == AllDecoded => AboveAvailable
  BY AboveWhich DEF AboveAvailable

(* Where macroblocks lie does not change while the filter runs.            *)
LEMMA ExpectingSame ==
    ASSUME AllDecoded, AllDecoded', NEW n \in Addresses, NEW idc, mbaff' = mbaff, mb_data' = mb_data
    PROVE  Expecting(n, idc)' = Expecting(n, idc)
<1>1. Addresses' = Addresses /\ \A m : Bottom(m)' = Bottom(m) /\ Field(m)' = Field(m)
  BY DEF Addresses, PicSizeInMbs, Bottom, Field
<1>2. \A m, x, y, s : Position(m, x, y, s)' = Position(m, x, y, s)
  BY <1>1 DEF Position
<1>3. \A q, s : MbAt(q, s)' = MbAt(q, s)
  BY <1>1 DEF MbAt
<1>4. CheckAvailabilityOfNeighbors(n, "B", 0).avail' <=> CheckAvailabilityOfNeighbors(n, "B", 0).avail
  <2>1. AboveAvailable
    BY AboveIsAvailable
  <2>2. (AllDecoded => AboveAvailable)'
    BY AboveIsAvailable, PTL
  <2>3. AboveAvailable'
    BY <2>2
  <2>4. \A m : Line(m)' = Line(m) /\ Column(m)' = Column(m)
    BY DEF Line, Column, Unit
  <2>5. \A r, c : Units(r, c)' = Units(r, c)
    BY DEF Units, At
  <2>6. QED
    BY <1>1, <2>1, <2>3, <2>4, <2>5 DEF AboveAvailable
<1>5. QED
  BY <1>1, <1>2, <1>3, <1>4 DEF Expecting

(* A step of the filter keeps it, ...                                      *)
LEMMA FilterStep == NeighbourInv /\ FlagsInv /\ DeblockPicture => EdgesFiltered'
<1> SUFFICES ASSUME NeighbourInv, FlagsInv, DeblockPicture PROVE EdgesFiltered'
  OBVIOUS
<1>1. PICK n : /\ Decoded = Addresses /\ n \in Addresses /\ current_mb_nr' = n /\ edges' = DeblockMb(n)
               /\ mbaff' = mbaff /\ mb_data' = mb_data /\ LFDisableIdc' = LFDisableIdc
               /\ filtering' = TRUE /\ (filtering => n = current_mb_nr + 1)
  BY DEF DeblockPicture
<1>2. AllDecoded
  BY <1>1 DEF NeighbourInv, AllDecoded, Decoded
<1>f. FlagsOf(n)
  <2>1. filtering => current_mb_nr < n
    <3>1. filtering => current_mb_nr \in Nat
      BY SizeIs DEF NeighbourInv, NoneLeft, NeighbourTypeOK, Addresses
    <3>2. QED
      BY <1>1, <3>1
  <2>2. QED
    BY <1>1, <1>2, <2>1 DEF FlagsInv, AllDecoded
<1>3. PICK idc : idc = LFDisableIdc[mb_data[n].slice_nr + 1] /\ edges' = Expecting(n, idc)
  BY <1>1, <1>2, <1>f, FilteredIs DEF DeblockMb
<1>4. Addresses' = Addresses /\ \A m : Bottom(m)' = Bottom(m)
  BY DEF Addresses, PicSizeInMbs, Bottom
<1>5. AllDecoded'
  BY <1>1, <1>2, <1>4 DEF AllDecoded, NeighbourTypeOK, PairsAgree
<1>6. Expecting(n, idc)' = Expecting(n, idc)
  BY <1>1, <1>2, <1>5, ExpectingSame
<1>7. Meant'
  BY FilteredMeans, PTL
<1>8. (/\ n = current_mb_nr /\ idc = LFDisableIdc[mb_data[n].slice_nr + 1] /\ edges = Expecting(n, idc)
        => EdgesFiltered)'
  BY <1>7 DEF Meant
<1>9. (n = current_mb_nr /\ idc = LFDisableIdc[mb_data[n].slice_nr + 1] /\ edges = Expecting(n, idc))'
  BY <1>1, <1>3, <1>6
<1>10. QED
  BY <1>8, <1>9

(* ... and the other steps are taken before the filter begins.             *)
LEMMA FilterKept == FilterInv /\ [NeighboursNext]_neighbourVars => EdgesFiltered'
<1> SUFFICES ASSUME NeighbourInv, FlagsInv, EdgesFiltered, [NeighboursNext]_neighbourVars PROVE EdgesFiltered'
  BY DEF FilterInv
<1>1. CASE DeblockPicture
  BY <1>1, FilterStep
<1>2. CASE ChooseMbaff \/ StartMbSlice \/ start_macroblock
  <2>1. ~filtering /\ filtering' = filtering
    BY <1>2 DEF NeighbourInv, NoneLeft, ChooseMbaff, StartMbSlice, start_macroblock, DecodeMacroblock, InSlice
  <2>2. QED
    BY <2>1 DEF EdgesFiltered
<1>3. CASE UNCHANGED neighbourVars
  <2>1. /\ mbaff' = mbaff /\ filtering' = filtering /\ mb_data' = mb_data /\ edges' = edges
        /\ LFDisableIdc' = LFDisableIdc /\ current_mb_nr' = current_mb_nr
    BY <1>3 DEF neighbourVars
  <2>2. CASE ~filtering
    BY <2>1, <2>2 DEF EdgesFiltered
  <2>3. CASE filtering
    <3>1. PICK n : n = current_mb_nr /\ n \in Addresses
      BY <2>3 DEF NeighbourInv, NoneLeft, NeighbourTypeOK
    <3>2. PICK idc : idc = LFDisableIdc[mb_data[n].slice_nr + 1] /\ edges = Expecting(n, idc)
      BY <2>3, <3>1, FilteredSays
    <3>3. Addresses' = Addresses /\ \A m : Bottom(m)' = Bottom(m)
      BY DEF Addresses, PicSizeInMbs, Bottom
    <3>4. AllDecoded
      BY <2>3 DEF NeighbourInv, NoneLeft, AllDecoded
    <3>5. AllDecoded'
      BY <2>1, <3>3, <3>4 DEF AllDecoded, NeighbourTypeOK, PairsAgree
    <3>6. Expecting(n, idc)' = Expecting(n, idc)
      BY <2>1, <3>1, <3>4, <3>5, ExpectingSame
    <3>7. Meant'
      BY FilteredMeans, PTL
    <3>8. (/\ n = current_mb_nr /\ idc = LFDisableIdc[mb_data[n].slice_nr + 1] /\ edges = Expecting(n, idc)
           => EdgesFiltered)'
      BY <3>7 DEF Meant
    <3>9. (n = current_mb_nr /\ idc = LFDisableIdc[mb_data[n].slice_nr + 1] /\ edges = Expecting(n, idc))'
      BY <2>1, <3>1, <3>2, <3>6
    <3>10. QED
      BY <3>8, <3>9
  <2>4. QED
    BY <2>2, <2>3
<1>4. QED
  BY <1>1, <1>2, <1>3 DEF NeighboursNext

(***************************************************************************)
(* For every size of picture, with and without pairs, and whatever each    *)
(* slice says of its edges: the filter smooths across the edges of a       *)
(* macroblock with the samples that adjoin them, two rows apart where      *)
(* fields meet, and across no others (loopFilter.c 72-230).                *)
(***************************************************************************)
THEOREM EdgesAreFiltered == NeighboursSpec => []EdgesFiltered
<1>1. NeighboursInit => EdgesFiltered
  BY DEF NeighboursInit, EdgesFiltered
<1>2. NeighboursInit => FilterInv
  BY <1>1, NeighboursStart, FlagsStart DEF FilterInv
<1>3. FilterInv /\ [NeighboursNext]_neighbourVars => FilterInv'
  BY NeighboursStep, FlagsStep, FilterKept DEF FilterInv
<1>4. FilterInv => EdgesFiltered
  BY DEF FilterInv
<1>5. QED
  BY <1>2, <1>3, <1>4, PTL DEF NeighboursSpec

(***************************************************************************)
(* For every size of picture, with and without pairs, and any number of    *)
(* slices: the sample getNeighbour finds for prediction lies at the place  *)
(* asked for in the picture, in the slice being decoded (mb_access.c).     *)
(***************************************************************************)
THEOREM Adjoining == NeighboursSpec => []NeighboursAdjoin
<1>1. QED
  BY NeighboursStart, NeighboursStep, InvariantAdjoins, PTL DEF NeighboursSpec

(***************************************************************************)
(* Reference lists. What is used of sequences.                             *)
(***************************************************************************)
LEMMA ConcatIs ==
    ASSUME NEW V, NEW s \in Seq(V), NEW r \in Seq(V)
    PROVE  /\ s \o r \in Seq(V) /\ Len(s \o r) = Len(s) + Len(r) /\ Len(s) \in Nat /\ Len(r) \in Nat
           /\ \A i \in 1..Len(s) : (s \o r)[i] = s[i]
           /\ \A i \in 1..Len(r) : (s \o r)[Len(s) + i] = r[i]
OBVIOUS

LEMMA AppendIs ==
    ASSUME NEW V, NEW s \in Seq(V), NEW x \in V
    PROVE  /\ Append(s, x) \in Seq(V) /\ Len(Append(s, x)) = Len(s) + 1 /\ Len(s) \in Nat
           /\ \A i \in 1..Len(s) : Append(s, x)[i] = s[i]
           /\ Append(s, x)[Len(s) + 1] = x
OBVIOUS

LEMMA SubSeqIs ==
    ASSUME NEW V, NEW s \in Seq(V), NEW m \in Nat, m >= 1, NEW n \in Nat, n <= Len(s)
    PROVE  /\ SubSeq(s, m, n) \in Seq(V) /\ Len(SubSeq(s, m, n)) = (IF m <= n THEN n - m + 1 ELSE 0)
           /\ \A i \in 1..Len(SubSeq(s, m, n)) : SubSeq(s, m, n)[i] = s[m + i - 1]
OBVIOUS

LEMMA BeginningIs ==
    ASSUME NEW V, NEW s \in Seq(V), NEW n \in Nat, n <= Len(s)
    PROVE  SubSeq(s, 1, n) \in Seq(V) /\ Len(SubSeq(s, 1, n)) = n /\ \A i \in 1..n : SubSeq(s, 1, n)[i] = s[i]
OBVIOUS

LEMMA SameEntries ==
    ASSUME NEW V, NEW s \in Seq(V), NEW r \in Seq(V), Len(s) = Len(r), \A i \in 1..Len(s) : s[i] = r[i]
    PROVE  s = r
OBVIOUS

LEMMA GrownByOne ==
    ASSUME NEW V, NEW P, P \subseteq Seq(V), <<>> \in P, \A q \in P : \A x \in V : Append(q, x) \in P
    PROVE  P = Seq(V)
<1> DEFINE S == {n \in Nat : \A l \in Seq(V) : Len(l) = n => l \in P}
<1>1. 0 \in S
  <2>1. ASSUME NEW l \in Seq(V), Len(l) = 0 PROVE l = <<>>
    BY <2>1
  <2> QED BY <2>1
<1>2. ASSUME NEW n \in Nat, n \in S PROVE n + 1 \in S
  <2>1. ASSUME NEW l \in Seq(V), Len(l) = n + 1 PROVE l \in P
    <3> DEFINE q == SubSeq(l, 1, n)
    <3>1. q \in Seq(V) /\ Len(q) = n /\ l[n + 1] \in V /\ \A i \in 1..n : q[i] = l[i]
      <4>1. n <= Len(l) /\ n + 1 \in 1..Len(l)
        BY <2>1
      <4>2. q \in Seq(V) /\ Len(q) = n /\ \A i \in 1..n : q[i] = l[i]
        BY <4>1, BeginningIs
      <4>3. l[n + 1] \in V
        BY <4>1, ElementOfSeq
      <4> QED BY <4>1, <4>2, <4>3
    <3> HIDE DEF q
    <3>2. q \in P
      BY <1>2, <3>1
    <3>3. Append(q, l[n + 1]) = l
      <4> DEFINE x == l[n + 1]
                 a == Append(q, x)
      <4>0. x \in V /\ q \in Seq(V)
        BY <3>1
      <4> HIDE DEF x
      <4>1. /\ a \in Seq(V) /\ Len(a) = Len(q) + 1
            /\ \A i \in 1..Len(q) : a[i] = q[i]
            /\ a[Len(q) + 1] = x
        BY <4>0, AppendIs
      <4> USE DEF x
      <4> HIDE DEF a
      <4>2. ASSUME NEW i \in 1..Len(l) PROVE a[i] = l[i]
        <5>1. i = n + 1 \/ i \in 1..n
          BY <2>1
        <5> QED BY <3>1, <4>1, <5>1
      <4>3. a = l
        BY <2>1, <3>1, <4>1, <4>2, SameEntries
      <4> QED BY <4>3 DEF a
    <3> QED BY <3>1, <3>2, <3>3
  <2> QED BY <2>1
<1>3. S = Nat
  <2>1. S \subseteq Nat
    OBVIOUS
  <2> HIDE DEF S
  <2> QED BY <1>1, <1>2, <2>1, Induction
<1>4. ASSUME NEW l \in Seq(V) PROVE l \in P
  <2>1. Len(l) \in S
    BY <1>3
  <2> QED BY <2>1
<1> QED BY <1>4

(***************************************************************************)
(* The entries of a list that are in a set.                                *)
(***************************************************************************)
Selects(A, l, S) ==
    /\ A[0] = <<>>
    /\ \A k \in 1..Len(l) : A[k] = IF l[k] \in S THEN Append(A[k - 1], l[k]) ELSE A[k - 1]

LEMMA EntriesIs ==
    ASSUME NEW V, NEW l \in Seq(V), NEW S
    PROVE  \E A : Selects(A, l, S) /\ EntriesIn(l, S) = A[Len(l)]
<1> DEFINE n == Len(l)
           Is(f, m) == f = [k \in 0..m |-> IF k = 0 THEN <<>> ELSE IF l[k] \in S THEN Append(f[k - 1], l[k]) ELSE f[k - 1]]
           T == {m \in Nat : \E f : Is(f, m)}
<1>0. n \in Nat
  OBVIOUS
<1>1. 0 \in T
  <2> DEFINE f == [k \in 0..0 |-> <<>>]
  <2>1. Is(f, 0)
    OBVIOUS
  <2> QED BY <2>1
<1>2. ASSUME NEW m \in Nat, m \in T
      PROVE  m + 1 \in T
  <2>1. PICK f : Is(f, m)
    BY <1>2
  <2> DEFINE g == [k \in 0..m + 1 |-> IF k = 0 THEN <<>> ELSE IF l[k] \in S THEN Append(f[k - 1], l[k]) ELSE f[k - 1]]
  <2>2. \A k \in 0..m : g[k] = f[k]
    <3>1. \A k \in 0..m : k \in 0..m + 1
      OBVIOUS
    <3> QED BY <2>1, <3>1
  <2>3. \A k \in 0..m + 1 : k # 0 => g[k - 1] = f[k - 1]
    <3>1. \A k \in 0..m + 1 : k # 0 => k - 1 \in 0..m
      OBVIOUS
    <3> QED BY <2>2, <3>1
  <2>4. Is(g, m + 1)
    BY <2>3
  <2> HIDE DEF Is, g
  <2> QED BY <2>4
<1> HIDE DEF Is
<1>3. T = Nat
  <2>1. T \subseteq Nat
    OBVIOUS
  <2> HIDE DEF T
  <2> QED BY <1>1, <1>2, <2>1, Induction
<1>4. \E f : Is(f, n)
  BY <1>0, <1>3
<1> DEFINE A == CHOOSE f : Is(f, n)
<1>5. Is(A, n)
  BY <1>4
<1>6. EntriesIn(l, S) = A[n]
  BY DEF EntriesIn, Is
<1> HIDE DEF A
<1>7. A = [k \in 0..n |-> IF k = 0 THEN <<>> ELSE IF l[k] \in S THEN Append(A[k - 1], l[k]) ELSE A[k - 1]]
  BY <1>5 DEF Is
<1>8. 0 \in 0..n /\ \A k \in 1..n : k \in 0..n /\ k # 0
  BY <1>0
<1>9. Selects(A, l, S)
  <2>1. A[0] = <<>>
    BY <1>7, <1>8
  <2>2. \A k \in 1..n : A[k] = IF l[k] \in S THEN Append(A[k - 1], l[k]) ELSE A[k - 1]
    BY <1>7, <1>8
  <2> QED BY <2>1, <2>2 DEF Selects
<1> QED BY <1>6, <1>9

LEMMA EntriesEmpty == \A S : EntriesIn(<<>>, S) = <<>>
<1> SUFFICES ASSUME NEW S PROVE EntriesIn(<<>>, S) = <<>>
  OBVIOUS
<1>1. <<>> \in Seq({}) /\ Len(<<>>) = 0
  OBVIOUS
<1>2. PICK A : Selects(A, <<>>, S) /\ EntriesIn(<<>>, S) = A[Len(<<>>)]
  BY <1>1, EntriesIs
<1> QED BY <1>1, <1>2 DEF Selects

LEMMA EntriesAppend ==
    ASSUME NEW V, NEW q \in Seq(V), NEW x \in V, NEW S
    PROVE  EntriesIn(Append(q, x), S) = IF x \in S THEN Append(EntriesIn(q, S), x) ELSE EntriesIn(q, S)
<1> DEFINE l == Append(q, x)
           n == Len(q)
<1>1. l \in Seq(V) /\ Len(l) = n + 1 /\ n \in Nat /\ l[n + 1] = x /\ \A i \in 1..n : l[i] = q[i]
  BY AppendIs
<1> HIDE DEF l
<1>2. PICK A : Selects(A, l, S) /\ EntriesIn(l, S) = A[Len(l)]
  BY <1>1, EntriesIs
<1>3. PICK B : Selects(B, q, S) /\ EntriesIn(q, S) = B[n]
  BY EntriesIs
<1> DEFINE T == {k \in Nat : k <= n => A[k] = B[k]}
<1>4. 0 \in T
  BY <1>2, <1>3 DEF Selects
<1>5. ASSUME NEW k \in Nat, k \in T PROVE k + 1 \in T
  <2> SUFFICES ASSUME k + 1 <= n PROVE A[k + 1] = B[k + 1]
    OBVIOUS
  <2>1. k <= n /\ k + 1 \in 1..n /\ k + 1 \in 1..Len(l) /\ (k + 1) - 1 = k
    BY <1>1
  <2>2. A[k] = B[k]
    BY <1>5, <2>1
  <2>3. A[k + 1] = IF l[k + 1] \in S THEN Append(A[k], l[k + 1]) ELSE A[k]
    BY <1>2, <2>1 DEF Selects
  <2>4. B[k + 1] = IF q[k + 1] \in S THEN Append(B[k], q[k + 1]) ELSE B[k]
    BY <1>3, <2>1 DEF Selects
  <2> QED BY <1>1, <2>1, <2>2, <2>3, <2>4
<1>6. T = Nat
  <2>1. T \subseteq Nat
    OBVIOUS
  <2> HIDE DEF T
  <2> QED BY <1>4, <1>5, <2>1, Induction
<1>7. A[n] = B[n]
  <2>1. n \in T
    BY <1>1, <1>6
  <2> QED BY <1>1, <2>1
<1>8. n + 1 \in 1..Len(l) /\ (n + 1) - 1 = n
  BY <1>1
<1>9. A[n + 1] = IF x \in S THEN Append(A[n], x) ELSE A[n]
  BY <1>1, <1>2, <1>8 DEF Selects
<1>10. EntriesIn(l, S) = IF x \in S THEN Append(EntriesIn(q, S), x) ELSE EntriesIn(q, S)
  BY <1>1, <1>2, <1>3, <1>7, <1>9
<1> QED BY <1>10 DEF l

LEMMA EntriesType ==
    ASSUME NEW V, NEW S
    PROVE  \A l \in Seq(V) : EntriesIn(l, S) \in Seq(V) /\ Len(EntriesIn(l, S)) \in Nat /\ Len(EntriesIn(l, S)) <= Len(l)
<1> DEFINE P == {l \in Seq(V) : EntriesIn(l, S) \in Seq(V) /\ Len(EntriesIn(l, S)) <= Len(l)}
<1>1. <<>> \in P
  <2>1. <<>> \in Seq(V) /\ Len(<<>>) <= Len(<<>>)
    OBVIOUS
  <2>2. EntriesIn(<<>>, S) = <<>>
    BY EntriesEmpty
  <2>3. EntriesIn(<<>>, S) \in Seq(V) /\ Len(EntriesIn(<<>>, S)) <= Len(<<>>)
    BY <2>1, <2>2, Zenon
  <2> QED BY <2>1, <2>3
<1>2. ASSUME NEW q \in P, NEW x \in V PROVE Append(q, x) \in P
  <2> DEFINE w == EntriesIn(q, S)
             v == EntriesIn(Append(q, x), S)
  <2>1. v = IF x \in S THEN Append(w, x) ELSE w
    BY EntriesAppend
  <2>2. w \in Seq(V) /\ q \in Seq(V) /\ Len(w) \in Nat /\ Len(q) \in Nat /\ Len(w) <= Len(q)
    OBVIOUS
  <2> HIDE DEF v, w
  <2>3. Append(q, x) \in Seq(V) /\ Len(Append(q, x)) = Len(q) + 1 /\ Append(w, x) \in Seq(V) /\ Len(Append(w, x)) = Len(w) + 1
    BY <2>2, AppendIs
  <2>4. v \in Seq(V) /\ Len(v) <= Len(q) + 1
    BY <2>1, <2>2, <2>3
  <2> QED BY <2>3, <2>4 DEF v
<1>3. P = Seq(V)
  <2>1. P \subseteq Seq(V)
    OBVIOUS
  <2> HIDE DEF P
  <2> QED BY <1>1, <1>2, <2>1, GrownByOne
<1> QED BY <1>3

LEMMA EntriesTwice ==
    ASSUME NEW V, NEW S, NEW T
    PROVE  \A l \in Seq(V) : EntriesIn(EntriesIn(l, S), T) = EntriesIn(l, S \cap T)
<1> DEFINE P == {l \in Seq(V) : EntriesIn(EntriesIn(l, S), T) = EntriesIn(l, S \cap T)}
<1>1. <<>> \in P
  BY EntriesEmpty
<1>2. ASSUME NEW q \in P, NEW x \in V PROVE Append(q, x) \in P
  <2>1. Append(q, x) \in Seq(V) /\ q \in Seq(V) /\ EntriesIn(q, S) \in Seq(V)
    BY AppendIs, EntriesType
  <2>2. EntriesIn(Append(q, x), S) = IF x \in S THEN Append(EntriesIn(q, S), x) ELSE EntriesIn(q, S)
    BY <2>1, EntriesAppend
  <2>3. EntriesIn(Append(q, x), S \cap T) = IF x \in S \cap T THEN Append(EntriesIn(q, S \cap T), x) ELSE EntriesIn(q, S \cap T)
    BY <2>1, EntriesAppend
  <2>4. EntriesIn(Append(EntriesIn(q, S), x), T) = IF x \in T THEN Append(EntriesIn(EntriesIn(q, S), T), x) ELSE EntriesIn(EntriesIn(q, S), T)
    <3> DEFINE e == EntriesIn(q, S)
    <3>1. e \in Seq(V)
      BY <2>1
    <3> HIDE DEF e
    <3>2. EntriesIn(Append(e, x), T) = IF x \in T THEN Append(EntriesIn(e, T), x) ELSE EntriesIn(e, T)
      BY <3>1, EntriesAppend
    <3> QED BY <3>2 DEF e
  <2>5. EntriesIn(EntriesIn(q, S), T) = EntriesIn(q, S \cap T)
    OBVIOUS
  <2>6. EntriesIn(EntriesIn(Append(q, x), S), T) = EntriesIn(Append(q, x), S \cap T)
    <3>1. CASE x \in S /\ x \in T
      <4>1. EntriesIn(Append(q, x), S) = Append(EntriesIn(q, S), x)
        BY <2>2, <3>1
      <4> QED BY <2>3, <2>4, <2>5, <3>1, <4>1
    <3>2. CASE x \in S /\ x \notin T
      <4>1. EntriesIn(Append(q, x), S) = Append(EntriesIn(q, S), x)
        BY <2>2, <3>2
      <4> QED BY <2>3, <2>4, <2>5, <3>2, <4>1
    <3>3. CASE x \notin S
      BY <2>2, <2>3, <2>5, <3>3
    <3> QED BY <3>1, <3>2, <3>3
  <2> QED BY <2>1, <2>6
<1>3. P = Seq(V)
  <2>1. P \subseteq Seq(V)
    OBVIOUS
  <2> HIDE DEF P
  <2> QED BY <1>1, <1>2, <2>1, GrownByOne
<1> QED BY <1>3

LEMMA EntriesAll ==
    ASSUME NEW S
    PROVE  \A l \in Seq(S) : EntriesIn(l, S) = l
<1> DEFINE P == {l \in Seq(S) : EntriesIn(l, S) = l}
<1>1. <<>> \in P
  BY EntriesEmpty
<1>2. ASSUME NEW q \in P, NEW x \in S PROVE Append(q, x) \in P
  <2>1. q \in Seq(S) /\ Append(q, x) \in Seq(S) /\ EntriesIn(q, S) = q
    BY AppendIs
  <2>2. EntriesIn(Append(q, x), S) = Append(EntriesIn(q, S), x)
    BY <2>1, EntriesAppend
  <2> QED BY <2>1, <2>2
<1>3. P = Seq(S)
  <2>1. P \subseteq Seq(S)
    OBVIOUS
  <2> HIDE DEF P
  <2> QED BY <1>1, <1>2, <2>1, GrownByOne
<1> QED BY <1>3

\* p is the front of l.
Heads(p, l) == Len(p) <= Len(l) /\ \A i \in 1..Len(p) : l[i] = p[i]

LEMMA HeadsOfHeads ==
    ASSUME NEW V, NEW p \in Seq(V), NEW q \in Seq(V), NEW l \in Seq(V), Heads(p, q), Heads(q, l)
    PROVE  Heads(p, l)
<1>1. Len(p) \in Nat /\ Len(q) \in Nat /\ Len(l) \in Nat
  OBVIOUS
<1>2. \A i \in 1..Len(p) : i \in 1..Len(q)
  BY <1>1 DEF Heads
<1> QED BY <1>1, <1>2 DEF Heads

LEMMA EntriesGrows ==
    ASSUME NEW V, NEW q \in Seq(V), NEW x \in V, NEW S
    PROVE  Heads(EntriesIn(q, S), EntriesIn(Append(q, x), S))
<1> DEFINE w == EntriesIn(q, S)
<1>1. w \in Seq(V)
  BY EntriesType
<1>2. EntriesIn(Append(q, x), S) = IF x \in S THEN Append(w, x) ELSE w
  BY EntriesAppend
<1> HIDE DEF w
<1>3. Heads(w, w) /\ Heads(w, Append(w, x))
  <2>1. /\ Len(Append(w, x)) = Len(w) + 1 /\ Len(w) \in Nat
        /\ \A i \in 1..Len(w) : Append(w, x)[i] = w[i]
    BY <1>1, AppendIs
  <2> QED BY <2>1 DEF Heads
<1>4. Heads(w, EntriesIn(Append(q, x), S))
  BY <1>2, <1>3
<1> QED BY <1>4 DEF w

LEMMA EntriesFront ==
    ASSUME NEW V, NEW S
    PROVE  \A l \in Seq(V) : \A p \in Seq(V) : Heads(p, l) => Heads(EntriesIn(p, S), EntriesIn(l, S))
<1> DEFINE P == {l \in Seq(V) : \A p \in Seq(V) : Heads(p, l) => Heads(EntriesIn(p, S), EntriesIn(l, S))}
<1>0. \A q \in Seq(V) : Heads(q, q)
  BY DEF Heads
<1>1. <<>> \in P
  <2>1. <<>> \in Seq(V)
    OBVIOUS
  <2>2. ASSUME NEW p \in Seq(V), Heads(p, <<>>) PROVE p = <<>>
    BY <2>2 DEF Heads
  <2> QED BY <1>0, <2>1, <2>2, EntriesEmpty
<1>2. ASSUME NEW q \in P, NEW x \in V PROVE Append(q, x) \in P
  <2> DEFINE l == Append(q, x)
  <2>0. q \in Seq(V) /\ \A p \in Seq(V) : Heads(p, q) => Heads(EntriesIn(p, S), EntriesIn(q, S))
    OBVIOUS
  <2>1. l \in Seq(V) /\ Len(l) = Len(q) + 1 /\ Len(q) \in Nat /\ \A i \in 1..Len(q) : l[i] = q[i]
    BY <2>0, AppendIs
  <2>2. Heads(EntriesIn(q, S), EntriesIn(l, S))
    BY <2>0, EntriesGrows
  <2> HIDE DEF l
  <2>3. EntriesIn(q, S) \in Seq(V) /\ EntriesIn(l, S) \in Seq(V)
    BY <2>0, <2>1, EntriesType
  <2>4. ASSUME NEW p \in Seq(V), Heads(p, l) PROVE Heads(EntriesIn(p, S), EntriesIn(l, S))
    <3>1. Len(p) \in Nat /\ Len(p) <= Len(q) + 1 /\ \A i \in 1..Len(p) : l[i] = p[i]
      BY <2>1, <2>4 DEF Heads
    <3>2. CASE Len(p) = Len(q) + 1
      <4>1. p = l
        BY <2>1, <3>1, <3>2, SameEntries
      <4> QED BY <1>0, <2>3, <4>1
    <3>3. CASE Len(p) # Len(q) + 1
      <4>1. Len(p) <= Len(q) /\ \A i \in 1..Len(p) : i \in 1..Len(q)
        BY <2>1, <3>1, <3>3
      <4>2. Heads(p, q)
        BY <2>1, <3>1, <4>1 DEF Heads
      <4>3. Heads(EntriesIn(p, S), EntriesIn(q, S)) /\ EntriesIn(p, S) \in Seq(V)
        BY <2>0, <4>2, EntriesType
      <4> QED BY <2>2, <2>3, <4>3, HeadsOfHeads
    <3> QED BY <3>2, <3>3
  <2> QED BY <2>1, <2>4 DEF l
<1>3. P = Seq(V)
  <2>1. P \subseteq Seq(V)
    OBVIOUS
  <2> HIDE DEF P
  <2> QED BY <1>1, <1>2, <2>1, GrownByOne
<1> QED BY <1>3

\* Where the entries of w were in l.
Picks(g, w, l, S) ==
    /\ \A k \in 1..Len(w) : g[k] \in 1..Len(l) /\ w[k] = l[g[k]] /\ w[k] \in S
    /\ \A k, m \in 1..Len(w) : k < m => g[k] < g[m]
    /\ \A i \in 1..Len(l) : l[i] \in S => \E k \in 1..Len(w) : g[k] = i

LEMMA EntriesPicks ==
    ASSUME NEW V, NEW S
    PROVE  \A l \in Seq(V) : \E g : Picks(g, EntriesIn(l, S), l, S)
<1> DEFINE P == {l \in Seq(V) : \E g : Picks(g, EntriesIn(l, S), l, S)}
<1>1. <<>> \in P
  <2>1. <<>> \in Seq(V) /\ Len(<<>>) = 0 /\ EntriesIn(<<>>, S) = <<>>
    BY EntriesEmpty
  <2>2. Picks(<<>>, <<>>, <<>>, S)
    BY <2>1 DEF Picks
  <2> QED BY <2>1, <2>2
<1>2. ASSUME NEW q \in P, NEW x \in V PROVE Append(q, x) \in P
  <2> DEFINE l == Append(q, x)
             w == EntriesIn(q, S)
             v == EntriesIn(l, S)
             n == Len(q)
             h == Len(w)
  <2>0. q \in Seq(V)
    OBVIOUS
  <2>1. l \in Seq(V) /\ Len(l) = n + 1 /\ n \in Nat /\ l[n + 1] = x /\ \A i \in 1..n : l[i] = q[i]
    BY <2>0, AppendIs
  <2>2. v = IF x \in S THEN Append(w, x) ELSE w
    BY <2>0, EntriesAppend
  <2>3. w \in Seq(V) /\ h \in Nat
    BY <2>0, EntriesType
  <2>4. PICK g : Picks(g, w, q, S)
    OBVIOUS
  <2>5. /\ \A k \in 1..h : g[k] \in 1..n /\ w[k] = q[g[k]] /\ w[k] \in S
        /\ \A k, m \in 1..h : k < m => g[k] < g[m]
        /\ \A i \in 1..n : q[i] \in S => \E k \in 1..h : g[k] = i
    BY <2>4 DEF Picks
  <2> HIDE DEF l, v, w
  <2>6. CASE x \notin S
    <3>0. \A i \in 1..n : i \in 1..Len(l)
      BY <2>1
    <3>1. \A k \in 1..h : g[k] \in 1..Len(l) /\ w[k] = l[g[k]] /\ w[k] \in S
      BY <2>1, <2>5, <3>0
    <3>2. \A i \in 1..Len(l) : l[i] \in S => \E k \in 1..h : g[k] = i
      <4>1. \A i \in 1..Len(l) : i = n + 1 \/ i \in 1..n
        BY <2>1
      <4> QED BY <2>1, <2>5, <2>6, <4>1
    <3>3. Picks(g, w, l, S)
      BY <2>5, <3>1, <3>2 DEF Picks
    <3> QED BY <2>1, <2>2, <2>6, <3>3 DEF l, v
  <2>7. CASE x \in S
    <3>1. v \in Seq(V) /\ Len(v) = h + 1 /\ v[h + 1] = x /\ \A i \in 1..h : v[i] = w[i]
      BY <2>2, <2>3, <2>7, AppendIs
    <3> DEFINE f == [k \in 1..h + 1 |-> IF k = h + 1 THEN n + 1 ELSE g[k]]
    <3>2. /\ \A k \in 1..h : f[k] = g[k] /\ k \in 1..h + 1
          /\ f[h + 1] = n + 1 /\ h + 1 \in 1..h + 1
          /\ \A k \in 1..h + 1 : k = h + 1 \/ k \in 1..h
      BY <2>3
    <3> HIDE DEF f
    <3>3. \A k \in 1..Len(v) : f[k] \in 1..Len(l) /\ v[k] = l[f[k]] /\ v[k] \in S
      <4>1. \A i \in 1..n : i \in 1..Len(l)
        BY <2>1
      <4>2. ASSUME NEW k \in 1..h PROVE f[k] \in 1..Len(l) /\ v[k] = l[f[k]] /\ v[k] \in S
        <5>1. f[k] = g[k] /\ g[k] \in 1..n /\ w[k] = q[g[k]] /\ w[k] \in S /\ v[k] = w[k]
          BY <2>5, <3>1, <3>2
        <5> QED BY <2>1, <4>1, <5>1
      <4>3. n + 1 \in 1..Len(l)
        BY <2>1
      <4> QED BY <2>1, <2>7, <3>1, <3>2, <4>2, <4>3
    <3>4. \A k, m \in 1..Len(v) : k < m => f[k] < f[m]
      <4>1. ASSUME NEW k \in 1..h + 1, NEW m \in 1..h + 1, k < m PROVE f[k] < f[m]
        <5>1. k \in 1..h /\ g[k] \in 1..n /\ f[k] = g[k]
          BY <2>3, <2>5, <3>2, <4>1
        <5>2. CASE m = h + 1
          BY <2>1, <3>2, <5>1, <5>2
        <5>3. CASE m \in 1..h
          BY <2>5, <3>2, <4>1, <5>1, <5>3
        <5> QED BY <3>2, <5>2, <5>3
      <4> QED BY <3>1, <4>1
    <3>5. \A i \in 1..Len(l) : l[i] \in S => \E k \in 1..Len(v) : f[k] = i
      <4>1. ASSUME NEW i \in 1..Len(l), l[i] \in S PROVE \E k \in 1..h + 1 : f[k] = i
        <5>1. CASE i = n + 1
          BY <3>2, <5>1
        <5>2. CASE i \in 1..n
          <6>1. PICK k \in 1..h : g[k] = i
            BY <2>1, <2>5, <4>1, <5>2
          <6> QED BY <3>2, <6>1
        <5> QED BY <2>1, <5>1, <5>2
      <4> QED BY <3>1, <4>1
    <3>6. Picks(f, v, l, S)
      BY <3>3, <3>4, <3>5 DEF Picks
    <3> QED BY <2>1, <3>6 DEF l, v
  <2> QED BY <2>6, <2>7
<1>3. P = Seq(V)
  <2>1. P \subseteq Seq(V)
    OBVIOUS
  <2> HIDE DEF P
  <2> QED BY <1>1, <1>2, <2>1, GrownByOne
<1> QED BY <1>3

Different(l) == \A i, j \in 1..Len(l) : i < j => l[i] # l[j]

LEMMA EntriesDifferent ==
    ASSUME NEW V, NEW l \in Seq(V), Different(l), NEW S
    PROVE  Different(EntriesIn(l, S))
<1> DEFINE w == EntriesIn(l, S)
<1>1. PICK g : Picks(g, w, l, S)
  BY EntriesPicks
<1> HIDE DEF w
<1>2. ASSUME NEW k \in 1..Len(w), NEW m \in 1..Len(w), k < m PROVE w[k] # w[m]
  <2>1. g[k] \in 1..Len(l) /\ g[m] \in 1..Len(l) /\ g[k] < g[m] /\ w[k] = l[g[k]] /\ w[m] = l[g[m]]
    BY <1>1, <1>2 DEF Picks
  <2> QED BY <2>1 DEF Different
<1>3. Different(w)
  BY <1>2 DEF Different
<1> QED BY <1>3 DEF w

LEMMA EntriesLess ==
    ASSUME NEW V, NEW S, NEW r
    PROVE  \A l \in Seq(V) : Different(l) => Len(EntriesIn(l, S)) <= Len(EntriesIn(l, S \ {r})) + 1
<1> DEFINE P == {l \in Seq(V) : Different(l) =>
                    /\ Len(EntriesIn(l, S)) <= Len(EntriesIn(l, S \ {r})) + 1
                    /\ (\A i \in 1..Len(l) : l[i] # r) => EntriesIn(l, S) = EntriesIn(l, S \ {r})}
<1>1. <<>> \in P
  <2>1. <<>> \in Seq(V) /\ Len(<<>>) = 0
    OBVIOUS
  <2>2. EntriesIn(<<>>, S) = <<>> /\ EntriesIn(<<>>, S \ {r}) = <<>>
    BY EntriesEmpty
  <2> QED BY <2>1, <2>2
<1>2. ASSUME NEW q \in P, NEW x \in V PROVE Append(q, x) \in P
  <2> DEFINE l == Append(q, x)
             a == EntriesIn(q, S)
             b == EntriesIn(q, S \ {r})
             c == EntriesIn(l, S)
             d == EntriesIn(l, S \ {r})
  <2>0. q \in Seq(V)
    OBVIOUS
  <2>1. l \in Seq(V) /\ Len(l) = Len(q) + 1 /\ Len(q) \in Nat /\ l[Len(q) + 1] = x /\ \A i \in 1..Len(q) : l[i] = q[i]
    BY <2>0, AppendIs
  <2>2. c = IF x \in S THEN Append(a, x) ELSE a
    BY <2>0, EntriesAppend
  <2>3. d = IF x \in S \ {r} THEN Append(b, x) ELSE b
    BY <2>0, EntriesAppend
  <2>4. a \in Seq(V) /\ b \in Seq(V) /\ Len(a) \in Nat /\ Len(b) \in Nat
    BY <2>0, EntriesType
  <2>5. Different(q) => /\ Len(a) <= Len(b) + 1
                        /\ (\A i \in 1..Len(q) : q[i] # r) => a = b
    OBVIOUS
  <2> HIDE DEF l, a, b, c, d
  <2>6. Len(Append(a, x)) = Len(a) + 1 /\ Len(Append(b, x)) = Len(b) + 1
    BY <2>4, AppendIs
  <2>7. ASSUME Different(l)
        PROVE  /\ Len(c) <= Len(d) + 1
               /\ (\A i \in 1..Len(l) : l[i] # r) => c = d
    <3>1. \A i \in 1..Len(q) : i \in 1..Len(l) /\ i < Len(q) + 1 /\ Len(q) + 1 \in 1..Len(l)
      BY <2>1
    <3>2. Different(q)
      BY <2>1, <2>7, <3>1 DEF Different
    <3>3. \A i \in 1..Len(q) : q[i] # x
      BY <2>1, <2>7, <3>1 DEF Different
    <3>4. CASE x = r
      <4>1. a = b
        BY <2>5, <3>2, <3>3, <3>4
      <4>2. d = b
        BY <2>3, <3>4
      <4>3. Len(c) <= Len(d) + 1
        BY <2>2, <2>4, <2>6, <4>1, <4>2
      <4>4. Len(q) + 1 \in 1..Len(l) /\ l[Len(q) + 1] = r
        BY <2>1, <3>4
      <4> QED BY <4>3, <4>4
    <3>5. CASE x # r
      <4>1. Len(a) <= Len(b) + 1 /\ ((\A i \in 1..Len(q) : q[i] # r) => a = b)
        BY <2>5, <3>2
      <4>2. d = IF x \in S THEN Append(b, x) ELSE b
        BY <2>3, <3>5
      <4>3. Len(c) <= Len(d) + 1
        BY <2>2, <2>4, <2>6, <4>1, <4>2
      <4>4. ASSUME \A i \in 1..Len(l) : l[i] # r PROVE c = d
        <5>1. a = b
          BY <2>1, <3>1, <4>1, <4>4
        <5> QED BY <2>2, <4>2, <5>1
      <4> QED BY <4>3, <4>4
    <3> QED BY <3>4, <3>5
  <2> QED BY <2>1, <2>7 DEF c, d, l
<1>3. P = Seq(V)
  <2>1. P \subseteq Seq(V)
    OBVIOUS
  <2> HIDE DEF P
  <2> QED BY <1>1, <1>2, <2>1, GrownByOne
<1> QED BY <1>3

(***************************************************************************)
(* Sorting.                                                                *)
(***************************************************************************)
Enumerates(s, S) ==
    /\ s \in Seq(S)
    /\ Different(s)
    /\ \A x \in S : \E i \in 1..Len(s) : s[i] = x

LEMMA Enumerated ==
    ASSUME NEW S, NEW s, Enumerates(s, S), NEW i \in 1..Len(s)
    PROVE  s[i] \in S
BY DEF Enumerates

LEMMA LengthIsCardinality ==
    ASSUME NEW S, NEW s, Enumerates(s, S)
    PROVE  IsFiniteSet(S) /\ Cardinality(S) = Len(s)
<1>1. s \in [1..Len(s) -> S] /\ Len(s) \in Nat
  BY DEF Enumerates
<1>2. \A i, j \in 1..Len(s) : s[i] = s[j] => i = j
  <2>1. ASSUME NEW i \in 1..Len(s), NEW j \in 1..Len(s), i # j PROVE s[i] # s[j]
    <3>1. i < j \/ j < i
      BY <2>1
    <3> QED BY <3>1 DEF Enumerates, Different
  <2> QED BY <2>1
<1>3. ExistsBijection(1..Len(s), S)
  <2>1. s \in Bijection(1..Len(s), S)
    BY <1>1, <1>2 DEF Bijection, Injection, Surjection, IsInjective, Enumerates
  <2> QED BY <2>1 DEF ExistsBijection
<1>4. IsFiniteSet(S)
  BY <1>1, <1>3, FS_NatBijection
<1>5. Cardinality(S) = Len(s)
  BY <1>1, <1>3, FS_CountingElements
<1> QED BY <1>4, <1>5

LEMMA GreatestExists ==
    ASSUME NEW S, IsFiniteSet(S), NEW key \in [S -> Int]
    PROVE  \A T \in SUBSET S : T # {} => \E x \in T : \A y \in T : key[y] <= key[x]
<1> DEFINE N == {n \in Nat : \A T \in SUBSET S : T # {} /\ Cardinality(T) = n => \E x \in T : \A y \in T : key[y] <= key[x]}
<1>0. \A T \in SUBSET S : IsFiniteSet(T) /\ Cardinality(T) \in Nat
  BY FS_Subset, FS_CardinalityType
<1>1. 0 \in N
  <2>1. ASSUME NEW T \in SUBSET S, Cardinality(T) = 0 PROVE T = {}
    BY <1>0, <2>1, FS_EmptySet
  <2> QED BY <2>1
<1>2. ASSUME NEW n \in Nat, n \in N PROVE n + 1 \in N
  <2>1. ASSUME NEW T \in SUBSET S, T # {}, Cardinality(T) = n + 1
        PROVE  \E x \in T : \A y \in T : key[y] <= key[x]
    <3>1. PICK t \in T : TRUE
      BY <2>1
    <3> DEFINE R == T \ {t}
    <3>2. R \in SUBSET S /\ Cardinality(R) = n
      <4>1. IsFiniteSet(T)
        BY <1>0
      <4>2. Cardinality(R) = Cardinality(T) - 1
        BY <3>1, <4>1, FS_RemoveElement
      <4> QED BY <2>1, <4>2
    <3>3. CASE R = {}
      <4>1. \A y \in T : y = t /\ key[t] \in Int
        BY <3>3
      <4> QED BY <3>1, <4>1
    <3>4. CASE R # {}
      <4>1. PICK x \in R : \A y \in R : key[y] <= key[x]
        BY <1>2, <3>2, <3>4
      <4>2. x \in T /\ key[x] \in Int /\ key[t] \in Int /\ \A y \in T : key[y] \in Int /\ (y = t \/ y \in R)
        BY <4>1
      <4> HIDE DEF R
      <4>3. CASE key[t] <= key[x]
        BY <4>1, <4>2, <4>3
      <4>4. CASE key[x] <= key[t]
        <5>1. \A y \in T : key[y] <= key[t]
          BY <4>1, <4>2, <4>4
        <5> QED BY <3>1, <5>1
      <4> QED BY <4>2, <4>3, <4>4
    <3> QED BY <3>3, <3>4
  <2> QED BY <2>1
<1>3. N = Nat
  <2>1. N \subseteq Nat
    OBVIOUS
  <2> HIDE DEF N
  <2> QED BY <1>1, <1>2, <2>1, Induction
<1>4. ASSUME NEW T \in SUBSET S, T # {} PROVE \E x \in T : \A y \in T : key[y] <= key[x]
  <2>1. Cardinality(T) \in N
    BY <1>0, <1>3
  <2> QED BY <1>4, <2>1
<1> QED BY <1>4

SortedBy(s, S, key) ==
    /\ s \in [1..Cardinality(S) -> S]
    /\ \A i, j \in 1..Cardinality(S) : i < j => s[i] # s[j] /\ key[s[i]] <= key[s[j]]

LEMMA SortedExists ==
    ASSUME NEW S, IsFiniteSet(S), NEW key \in [S -> Int]
    PROVE  \E s : SortedBy(s, S, key)
<1> DEFINE N == {n \in Nat : \A T \in SUBSET S : Cardinality(T) = n => \E s : SortedBy(s, T, key)}
<1>0. \A T \in SUBSET S : IsFiniteSet(T) /\ Cardinality(T) \in Nat
  BY FS_Subset, FS_CardinalityType
<1>1. 0 \in N
  <2>1. ASSUME NEW T \in SUBSET S, Cardinality(T) = 0 PROVE SortedBy(<<>>, T, key)
    BY <2>1 DEF SortedBy
  <2> QED BY <2>1
<1>2. ASSUME NEW n \in Nat, n \in N PROVE n + 1 \in N
  <2>1. ASSUME NEW T \in SUBSET S, Cardinality(T) = n + 1
        PROVE  \E s : SortedBy(s, T, key)
    <3>1. T # {}
      BY <1>0, <2>1, FS_EmptySet
    <3>2. PICK x \in T : \A y \in T : key[y] <= key[x]
      BY <3>1, GreatestExists
    <3> DEFINE R == T \ {x}
    <3>3. R \in SUBSET S /\ Cardinality(R) = n
      <4>1. IsFiniteSet(T)
        BY <1>0
      <4>2. Cardinality(R) = Cardinality(T) - 1
        BY <3>2, <4>1, FS_RemoveElement
      <4> QED BY <2>1, <4>2
    <3>4. PICK s : SortedBy(s, R, key)
      BY <1>2, <3>3
    <3>5. /\ s \in [1..n -> R]
          /\ \A i, j \in 1..n : i < j => s[i] # s[j] /\ key[s[i]] <= key[s[j]]
      BY <3>3, <3>4 DEF SortedBy
    <3> DEFINE f == [i \in 1..n + 1 |-> IF i = n + 1 THEN x ELSE s[i]]
    <3>6. /\ \A i \in 1..n : f[i] = s[i] /\ s[i] \in T /\ s[i] # x
          /\ f[n + 1] = x /\ \A i \in 1..n + 1 : i = n + 1 \/ i \in 1..n
      BY <3>5
    <3>7. f \in [1..n + 1 -> T]
      BY <3>6
    <3> HIDE DEF f, R
    <3>8. ASSUME NEW i \in 1..n + 1, NEW j \in 1..n + 1, i < j
          PROVE  f[i] # f[j] /\ key[f[i]] <= key[f[j]]
      <4>1. i \in 1..n
        BY <3>8
      <4>2. CASE j = n + 1
        BY <3>2, <3>6, <4>1, <4>2
      <4>3. CASE j \in 1..n
        BY <3>5, <3>6, <3>8, <4>1, <4>3
      <4> QED BY <3>6, <4>2, <4>3
    <3>9. SortedBy(f, T, key)
      BY <2>1, <3>7, <3>8 DEF SortedBy
    <3> QED BY <3>9
  <2> QED BY <2>1
<1>3. N = Nat
  <2>1. N \subseteq Nat
    OBVIOUS
  <2> HIDE DEF N
  <2> QED BY <1>1, <1>2, <2>1, Induction
<1>4. Cardinality(S) \in N
  BY <1>0, <1>3
<1> QED BY <1>4

LEMMA SortedIs ==
    ASSUME NEW S, IsFiniteSet(S), NEW key \in [S -> Int]
    PROVE  LET s == Sorted(S, key)
           IN  /\ Enumerates(s, S)
               /\ \A i, j \in 1..Len(s) : i < j => key[s[i]] <= key[s[j]]
<1> DEFINE s == Sorted(S, key)
           n == Cardinality(S)
<1>0. n \in Nat
  BY FS_CardinalityType
<1>1. SortedBy(s, S, key)
  <2>1. PICK r : SortedBy(r, S, key)
    BY SortedExists
  <2>2. /\ r \in [1..n -> S]
        /\ \A i, j \in 1..n : i < j => r[i] # r[j] /\ key[r[i]] <= key[r[j]]
    BY <2>1 DEF SortedBy
  <2> QED BY <2>2 DEF SortedBy, Sorted
<1>2. /\ s \in [1..n -> S]
      /\ \A i, j \in 1..n : i < j => s[i] # s[j] /\ key[s[i]] <= key[s[j]]
  BY <1>1 DEF SortedBy
<1> HIDE DEF s
<1>3. s \in Seq(S) /\ Len(s) = n
  BY <1>0, <1>2
<1>4. Different(s)
  BY <1>2, <1>3 DEF Different
<1>5. \A x \in S : \E i \in 1..Len(s) : s[i] = x
  <2> DEFINE I == {s[i] : i \in 1..n}
  <2>1. I \in SUBSET S
    BY <1>2
  <2>2. Enumerates(s, I)
    <3>1. s \in Seq(I)
      BY <1>0, <1>2
    <3>2. \A x \in I : \E i \in 1..Len(s) : s[i] = x
      BY <1>3
    <3> HIDE DEF I
    <3> QED BY <1>4, <3>1, <3>2 DEF Enumerates
  <2>3. Cardinality(I) = n
    BY <1>3, <2>2, LengthIsCardinality
  <2>4. I = S
    BY <2>1, <2>3, FS_Subset
  <2> QED BY <1>3, <2>4
<1>6. Enumerates(s, S)
  BY <1>3, <1>4, <1>5 DEF Enumerates
<1> QED BY <1>2, <1>3, <1>6 DEF s

(***************************************************************************)
(* One list after another, and one between the entries of another.         *)
(***************************************************************************)
LEMMA JoinIs ==
    ASSUME NEW V, NEW p \in Seq(V), NEW q \in Seq(V)
    PROVE  /\ p \o q \in Seq(V) /\ Len(p \o q) = Len(p) + Len(q) /\ Len(p) \in Nat /\ Len(q) \in Nat
           /\ \A i \in 1..Len(p) : (p \o q)[i] = p[i] /\ i \in 1..Len(p \o q)
           /\ \A i \in 1..Len(q) : (p \o q)[Len(p) + i] = q[i] /\ Len(p) + i \in 1..Len(p \o q)
           /\ \A k \in 1..Len(p \o q) : k \in 1..Len(p) \/ (k > Len(p) /\ k - Len(p) \in 1..Len(q) /\ k = Len(p) + (k - Len(p)))
<1>1. /\ p \o q \in Seq(V) /\ Len(p \o q) = Len(p) + Len(q) /\ Len(p) \in Nat /\ Len(q) \in Nat
      /\ \A i \in 1..Len(p) : (p \o q)[i] = p[i]
      /\ \A i \in 1..Len(q) : (p \o q)[Len(p) + i] = q[i]
  BY ConcatIs
<1> DEFINE l == p \o q
<1> HIDE DEF l
<1>2. \A a, b \in Nat : /\ \A i \in 1..a : i \in 1..a + b
                        /\ \A i \in 1..b : a + i \in 1..a + b
                        /\ \A k \in 1..a + b : k \in 1..a \/ (k > a /\ k - a \in 1..b /\ k = a + (k - a))
  OBVIOUS
<1>3. Len(l) = Len(p) + Len(q)
  BY <1>1 DEF l
<1>4. /\ \A i \in 1..Len(p) : i \in 1..Len(l)
      /\ \A i \in 1..Len(q) : Len(p) + i \in 1..Len(l)
      /\ \A k \in 1..Len(l) : k \in 1..Len(p) \/ (k > Len(p) /\ k - Len(p) \in 1..Len(q) /\ k = Len(p) + (k - Len(p)))
  BY <1>1, <1>2, <1>3
<1> QED BY <1>1, <1>4 DEF l

LEMMA JoinDifferent ==
    ASSUME NEW V, NEW p \in Seq(V), NEW q \in Seq(V), Different(p), Different(q),
           \A i \in 1..Len(p) : \A j \in 1..Len(q) : p[i] # q[j]
    PROVE  Different(p \o q)
<1> DEFINE l == p \o q
<1>1. /\ Len(p) \in Nat /\ Len(q) \in Nat /\ Len(l) = Len(p) + Len(q)
      /\ \A i \in 1..Len(p) : l[i] = p[i]
      /\ \A i \in 1..Len(q) : l[Len(p) + i] = q[i]
      /\ \A k \in 1..Len(l) : k \in 1..Len(p) \/ (k > Len(p) /\ k - Len(p) \in 1..Len(q) /\ k = Len(p) + (k - Len(p)))
  BY JoinIs
<1> HIDE DEF l
<1>2. ASSUME NEW i \in 1..Len(l), NEW j \in 1..Len(l), i < j PROVE l[i] # l[j]
  <2>1. CASE i \in 1..Len(p) /\ j \in 1..Len(p)
    BY <1>1, <1>2, <2>1 DEF Different
  <2>2. CASE i \in 1..Len(p) /\ j > Len(p)
    <3>1. j - Len(p) \in 1..Len(q) /\ j = Len(p) + (j - Len(p))
      BY <1>1, <2>2
    <3>2. l[j] = q[j - Len(p)] /\ l[i] = p[i]
      BY <1>1, <2>2, <3>1
    <3> QED BY <2>2, <3>1, <3>2
  <2>3. CASE i > Len(p)
    <3>1. i - Len(p) \in 1..Len(q) /\ j - Len(p) \in 1..Len(q) /\ i - Len(p) < j - Len(p)
      BY <1>1, <1>2, <2>3
    <3>2. i = Len(p) + (i - Len(p)) /\ j = Len(p) + (j - Len(p))
      BY <1>1, <3>1
    <3>3. l[i] = q[i - Len(p)] /\ l[j] = q[j - Len(p)]
      BY <1>1, <3>1, <3>2
    <3> QED BY <3>1, <3>3 DEF Different
  <2> QED BY <1>1, <2>1, <2>2, <2>3
<1>3. Different(l)
  BY <1>2 DEF Different
<1> QED BY <1>3 DEF l

\* Where the entry k of gen_pic_list_from_frame_list comes from: from the
\* first of two lists of lengths a and b, and from which place.
Fewer(a, b) == IF a <= b THEN a ELSE b
FromFirst(k, a, b) == IF k > 2 * Fewer(a, b) THEN b < a ELSE k % 2 = 1
Source(k, a, b) == IF k > 2 * Fewer(a, b) THEN k - Fewer(a, b) ELSE (k + 1) \div 2

LEMMA SourceIs ==
    ASSUME NEW a \in Nat, NEW b \in Nat
    PROVE  /\ \A k \in 1..a + b : Source(k, a, b) \in 1..(IF FromFirst(k, a, b) THEN a ELSE b)
           /\ \A k, m \in 1..a + b : k < m /\ FromFirst(k, a, b) = FromFirst(m, a, b) => Source(k, a, b) < Source(m, a, b)
           /\ \A i \in 1..a : \E k \in 1..a + b : FromFirst(k, a, b) /\ Source(k, a, b) = i
           /\ \A i \in 1..b : \E k \in 1..a + b : ~FromFirst(k, a, b) /\ Source(k, a, b) = i
<1> DEFINE c == Fewer(a, b)
<1>1. c \in Nat /\ c <= a /\ c <= b /\ (c = a \/ c = b) /\ (b < a <=> c # a)
  BY DEF Fewer
<1> HIDE DEF c
<1>2. \A k \in 1..a + b : /\ FromFirst(k, a, b) = IF k > 2 * c THEN b < a ELSE k % 2 = 1
                          /\ Source(k, a, b) = IF k > 2 * c THEN k - c ELSE (k + 1) \div 2
  BY DEF FromFirst, Source, c
<1>3. ASSUME NEW k \in 1..a + b PROVE Source(k, a, b) \in 1..(IF FromFirst(k, a, b) THEN a ELSE b)
  <2>1. CASE k > 2 * c
    <3>1. k - c \in 1..(IF b < a THEN a ELSE b)
      BY <1>1, <2>1
    <3> QED BY <1>2, <2>1, <3>1
  <2>2. CASE ~(k > 2 * c)
    <3>1. (k + 1) \div 2 \in 1..c
      BY <1>1, <2>2
    <3>2. Source(k, a, b) \in 1..a /\ Source(k, a, b) \in 1..b
      BY <1>1, <1>2, <2>2, <3>1
    <3> QED BY <3>2
  <2> QED BY <2>1, <2>2
<1>4. ASSUME NEW k \in 1..a + b, NEW m \in 1..a + b, k < m, FromFirst(k, a, b) = FromFirst(m, a, b)
      PROVE  Source(k, a, b) < Source(m, a, b)
  <2>1. CASE k > 2 * c
    <3>1. m > 2 * c /\ k - c < m - c
      BY <1>1, <1>4, <2>1
    <3> QED BY <1>2, <2>1, <3>1
  <2>2. CASE ~(k > 2 * c) /\ m > 2 * c
    <3>1. (k + 1) \div 2 < m - c
      BY <1>1, <2>2
    <3> QED BY <1>2, <2>2, <3>1
  <2>3. CASE ~(m > 2 * c)
    <3>1. ~(k > 2 * c)
      BY <1>1, <1>4, <2>3
    <3>2. (k % 2 = 1) = (m % 2 = 1)
      BY <1>2, <1>4, <2>3, <3>1
    <3>3. (k + 1) \div 2 < (m + 1) \div 2
      BY <1>4, <3>2
    <3> QED BY <1>2, <2>3, <3>1, <3>3
  <2> QED BY <2>1, <2>2, <2>3
<1>5. ASSUME NEW i \in 1..a PROVE \E k \in 1..a + b : FromFirst(k, a, b) /\ Source(k, a, b) = i
  <2>1. CASE i <= c
    <3>1. 2 * i - 1 \in 1..a + b /\ ~(2 * i - 1 > 2 * c) /\ (2 * i - 1) % 2 = 1 /\ (2 * i - 1 + 1) \div 2 = i
      BY <1>1, <2>1
    <3> DEFINE k == 2 * i - 1
    <3> HIDE DEF k
    <3>2. FromFirst(k, a, b) /\ Source(k, a, b) = i
      BY <1>2, <3>1 DEF k
    <3> QED BY <3>1, <3>2 DEF k
  <2>2. CASE i > c
    <3>1. i + c \in 1..a + b /\ i + c > 2 * c /\ b < a /\ i + c - c = i
      BY <1>1, <2>2
    <3> DEFINE k == i + c
    <3> HIDE DEF k
    <3>2. k \in 1..a + b /\ k > 2 * c /\ k - c = i
      BY <1>1, <3>1 DEF k
    <3>3. FromFirst(k, a, b) /\ Source(k, a, b) = k - c
      BY <1>2, <3>1, <3>2
    <3> QED BY <3>2, <3>3
  <2> QED BY <1>1, <2>1, <2>2
<1>6. ASSUME NEW i \in 1..b PROVE \E k \in 1..a + b : ~FromFirst(k, a, b) /\ Source(k, a, b) = i
  <2>1. CASE i <= c
    <3>1. 2 * i \in 1..a + b /\ ~(2 * i > 2 * c) /\ (2 * i) % 2 # 1 /\ (2 * i + 1) \div 2 = i
      BY <1>1, <2>1
    <3> DEFINE k == 2 * i
    <3> HIDE DEF k
    <3>2. ~FromFirst(k, a, b) /\ Source(k, a, b) = i
      BY <1>2, <3>1 DEF k
    <3> QED BY <3>1, <3>2 DEF k
  <2>2. CASE i > c
    <3>1. i + c \in 1..a + b /\ i + c > 2 * c /\ ~(b < a) /\ i + c - c = i
      BY <1>1, <2>2
    <3> DEFINE k == i + c
    <3> HIDE DEF k
    <3>2. k \in 1..a + b /\ k > 2 * c /\ k - c = i
      BY <1>1, <3>1 DEF k
    <3>3. ~FromFirst(k, a, b) /\ Source(k, a, b) = k - c
      BY <1>2, <3>1, <3>2
    <3> QED BY <3>2, <3>3
  <2> QED BY <1>1, <2>1, <2>2
<1> QED BY <1>3, <1>4, <1>5, <1>6

(***************************************************************************)
(* The list of pictures that an order of frame stores gives.               *)
(***************************************************************************)
Structures == {"FRAME", "TOP", "BOTTOM"}
Parities == IF cur.structure = "FRAME" THEN {"FRAME"} ELSE {"TOP", "BOTTOM"}
SliceOK ==
    /\ cur.structure \in Structures /\ cur.type \in {"P", "B"} /\ cur.active \in Nat
    /\ fs \in Seq(Stores) /\ Buffer(fs, cur.structure)

PicturesOf(l, order, S) ==
    /\ l \in Seq(Refs)
    /\ Different(l)
    /\ \A r \in Refs : r[1] \in S => \E k \in 1..Len(l) : l[k] = r
    /\ \E u : /\ \A k \in 1..Len(l) : u[k] \in 1..Len(order) /\ l[k][1] = order[u[k]]
              /\ \A k, m \in 1..Len(l) : k < m /\ l[k][2] = l[m][2] => u[k] < u[m]

LEMMA RefIs ==
    ASSUME SliceOK
    PROVE  /\ \A r \in Refs : /\ r = <<r[1], r[2]>> /\ r[1] \in DOMAIN fs /\ r[2] \in Parities
                              /\ r[2] = "FRAME" => Whole(r[1])
                              /\ r[2] # "FRAME" => r[2] \in fs[r[1]].fields
           /\ cur.structure = "FRAME" => \A i \in DOMAIN fs : Whole(i) => <<i, "FRAME">> \in Refs
           /\ cur.structure # "FRAME" =>
                \A i \in DOMAIN fs : \A p \in {"TOP", "BOTTOM"} : p \in fs[i].fields <=> <<i, p>> \in Refs
BY DEF SliceOK, Refs, IsRef, Parities

LEMMA FramesAre ==
    ASSUME SliceOK, cur.structure = "FRAME", NEW S, S \subseteq {i \in DOMAIN fs : Whole(i)}, NEW order, Enumerates(order, S)
    PROVE  /\ PicturesOf(FramesOf(order), order, S)
           /\ Len(FramesOf(order)) = Len(order) /\ \A k \in 1..Len(order) : FramesOf(order)[k][1] = order[k]
<1> DEFINE l == FramesOf(order)
           n == Len(order)
<1>1. order \in [1..n -> S] /\ n \in Nat /\ order \in Seq(S)
  BY DEF Enumerates
<1>2. l = [k \in 1..n |-> <<order[k], "FRAME">>]
  BY <1>1 DEF FramesOf
<1>3. \A k \in 1..n : <<order[k], "FRAME">> \in Refs
  BY <1>1, RefIs
<1> HIDE DEF l
<1>4. l \in Seq(Refs) /\ Len(l) = n /\ \A k \in 1..n : l[k] = <<order[k], "FRAME">>
  BY <1>1, <1>2, <1>3
<1>5. \A k \in 1..n : l[k][1] = order[k] /\ l[k][2] = "FRAME"
  BY <1>4
<1>6. Different(l)
  BY <1>4, <1>5 DEF Different, Enumerates
<1>7. ASSUME NEW r \in Refs, r[1] \in S PROVE \E k \in 1..Len(l) : l[k] = r
  <2>1. r = <<r[1], "FRAME">>
    BY RefIs DEF Parities
  <2>2. PICK k \in 1..n : order[k] = r[1]
    BY <1>7 DEF Enumerates
  <2> QED BY <1>4, <2>1, <2>2
<1>8. \E u : /\ \A k \in 1..Len(l) : u[k] \in 1..n /\ l[k][1] = order[u[k]]
             /\ \A k, m \in 1..Len(l) : k < m /\ l[k][2] = l[m][2] => u[k] < u[m]
  <2> DEFINE u == [k \in 1..n |-> k]
  <2>1. \A k \in 1..n : u[k] = k
    OBVIOUS
  <2> HIDE DEF u
  <2> WITNESS u
  <2> QED BY <1>4, <1>5, <2>1
<1>9. PicturesOf(l, order, S)
  BY <1>4, <1>6, <1>7, <1>8 DEF PicturesOf
<1> QED BY <1>4, <1>5, <1>9 DEF l

FieldsFound(l, order, S, p) ==
    /\ l \in Seq(Refs)
    /\ \A k \in 1..Len(l) : l[k][2] = p
    /\ \A r \in Refs : r[1] \in S /\ r[2] = p => \E k \in 1..Len(l) : l[k] = r
    /\ \E u : /\ \A k \in 1..Len(l) : u[k] \in 1..Len(order) /\ l[k][1] = order[u[k]]
              /\ \A k, m \in 1..Len(l) : k < m => u[k] < u[m]

LEMMA FieldsAre ==
    ASSUME SliceOK, cur.structure # "FRAME", NEW S, S \subseteq DOMAIN fs, NEW order, Enumerates(order, S),
           NEW p \in {"TOP", "BOTTOM"}
    PROVE  FieldsFound(FieldsOf(order, p), order, S, p)
<1> DEFINE n == Len(order)
           V == (DOMAIN fs) \X {"TOP", "BOTTOM"}
           q == [k \in DOMAIN order |-> <<order[k], p>>]
           l == FieldsOf(order, p)
<1>1. order \in [1..n -> S] /\ n \in Nat /\ order \in Seq(S)
  BY DEF Enumerates
<1>2. \A k \in 1..n : <<order[k], p>> \in V
  BY <1>1
<1>3. q = [k \in 1..n |-> <<order[k], p>>]
  BY <1>1
<1> HIDE DEF q, V
<1>4. q \in Seq(V) /\ Len(q) = n /\ \A k \in 1..n : q[k] = <<order[k], p>>
  BY <1>1, <1>2, <1>3
<1>5. l = EntriesIn(q, Refs)
  BY DEF FieldsOf, q
<1>6. PICK g : Picks(g, l, q, Refs)
  BY <1>4, <1>5, EntriesPicks
<1>7. l \in Seq(V) /\ Len(l) \in Nat
  BY <1>4, <1>5, EntriesType
<1> HIDE DEF l
<1>8. /\ \A k \in 1..Len(l) : g[k] \in 1..n /\ l[k] = <<order[g[k]], p>> /\ l[k] \in Refs
      /\ \A k, m \in 1..Len(l) : k < m => g[k] < g[m]
      /\ \A i \in 1..n : <<order[i], p>> \in Refs => \E k \in 1..Len(l) : g[k] = i
  BY <1>4, <1>6 DEF Picks
<1>9. \A k \in 1..Len(l) : l[k][1] = order[g[k]] /\ l[k][2] = p
  BY <1>8
<1>10. l \in Seq(Refs)
  <2>1. l \in [1..Len(l) -> Refs]
    BY <1>7, <1>8
  <2> QED BY <1>7, <2>1
<1>11. ASSUME NEW r \in Refs, r[1] \in S, r[2] = p PROVE \E k \in 1..Len(l) : l[k] = r
  <2>1. r = <<r[1], p>>
    BY <1>11, RefIs
  <2>2. PICK i \in 1..n : order[i] = r[1]
    BY <1>11 DEF Enumerates
  <2>3. PICK k \in 1..Len(l) : g[k] = i
    BY <1>8, <2>1, <2>2
  <2> QED BY <1>8, <2>1, <2>2, <2>3
<1>12. \E u : /\ \A k \in 1..Len(l) : u[k] \in 1..n /\ l[k][1] = order[u[k]]
              /\ \A k, m \in 1..Len(l) : k < m => u[k] < u[m]
  BY <1>8, <1>9
<1>13. FieldsFound(l, order, S, p)
  BY <1>9, <1>10, <1>11, <1>12 DEF FieldsFound
<1> QED BY <1>13 DEF l

LEMMA GeneratedAre ==
    ASSUME SliceOK, cur.structure # "FRAME", NEW S, S \subseteq DOMAIN fs, NEW order, Enumerates(order, S)
    PROVE  PicturesOf(gen_pic_list_from_frame_list(order), order, S) /\ Alternates(gen_pic_list_from_frame_list(order))
<1> DEFINE mine == cur.structure
           opp == Opposite(cur.structure)
           same == FieldsOf(order, mine)
           other == FieldsOf(order, opp)
           a == Len(same)
           b == Len(other)
           l == gen_pic_list_from_frame_list(order)
<1>1. mine \in {"TOP", "BOTTOM"} /\ opp \in {"TOP", "BOTTOM"} /\ mine # opp /\ Parities = {mine, opp}
  BY DEF SliceOK, Structures, Opposite, Parities
<1>2. /\ same \in Seq(Refs)
      /\ \A k \in 1..a : same[k][2] = mine
      /\ \A r \in Refs : r[1] \in S /\ r[2] = mine => \E k \in 1..a : same[k] = r
      /\ \E u : /\ \A k \in 1..a : u[k] \in 1..Len(order) /\ same[k][1] = order[u[k]]
                /\ \A k, m \in 1..a : k < m => u[k] < u[m]
  <2>1. FieldsFound(same, order, S, mine)
    BY <1>1, FieldsAre
  <2> HIDE DEF same, mine
  <2> QED BY <2>1 DEF FieldsFound
<1>3. /\ other \in Seq(Refs)
      /\ \A k \in 1..b : other[k][2] = opp
      /\ \A r \in Refs : r[1] \in S /\ r[2] = opp => \E k \in 1..b : other[k] = r
      /\ \E u : /\ \A k \in 1..b : u[k] \in 1..Len(order) /\ other[k][1] = order[u[k]]
                /\ \A k, m \in 1..b : k < m => u[k] < u[m]
  <2>1. FieldsFound(other, order, S, opp)
    BY <1>1, FieldsAre
  <2> HIDE DEF other, opp
  <2> QED BY <2>1 DEF FieldsFound
<1>4. l = [k \in 1..(a + b) |->
             IF k > 2 * (IF a <= b THEN a ELSE b) THEN (IF a <= b THEN other ELSE same)[k - (IF a <= b THEN a ELSE b)]
             ELSE IF k % 2 = 1 THEN same[(k + 1) \div 2] ELSE other[k \div 2]]
  BY DEF gen_pic_list_from_frame_list
<1> HIDE DEF same, other, mine, opp, l
<1>5. a \in Nat /\ b \in Nat
  BY <1>2, <1>3
<1>6. ASSUME NEW k \in 1..a + b
      PROVE  l[k] = IF FromFirst(k, a, b) THEN same[Source(k, a, b)] ELSE other[Source(k, a, b)]
  <2> DEFINE c == IF a <= b THEN a ELSE b
  <2>1. l[k] = IF k > 2 * c THEN (IF a <= b THEN other ELSE same)[k - c]
               ELSE IF k % 2 = 1 THEN same[(k + 1) \div 2] ELSE other[k \div 2]
    BY <1>4
  <2>2. c = Fewer(a, b) /\ c \in Nat
    BY <1>5 DEF Fewer
  <2> HIDE DEF c
  <2>3. CASE k > 2 * c
    <3>1. FromFirst(k, a, b) = (b < a) /\ Source(k, a, b) = k - c
      BY <2>2, <2>3 DEF FromFirst, Source
    <3>2. CASE a <= b
      <4>1. ~(b < a)
        BY <1>5, <3>2
      <4> QED BY <2>1, <2>3, <3>1, <3>2, <4>1
    <3>3. CASE ~(a <= b)
      <4>1. b < a
        BY <1>5, <3>3
      <4> QED BY <2>1, <2>3, <3>1, <3>3, <4>1
    <3> QED BY <3>2, <3>3
  <2>4. CASE ~(k > 2 * c)
    <3>1. FromFirst(k, a, b) = (k % 2 = 1) /\ Source(k, a, b) = (k + 1) \div 2
      BY <2>2, <2>4 DEF FromFirst, Source
    <3>2. k % 2 # 1 => k \div 2 = (k + 1) \div 2
      BY <1>5
    <3>3. CASE k % 2 = 1
      BY <2>1, <2>4, <3>1, <3>3
    <3>4. CASE k % 2 # 1
      BY <2>1, <2>4, <3>1, <3>2, <3>4
    <3> QED BY <3>3, <3>4
  <2> QED BY <2>3, <2>4
<1>7. /\ \A k \in 1..a + b : Source(k, a, b) \in 1..(IF FromFirst(k, a, b) THEN a ELSE b)
      /\ \A k, m \in 1..a + b : k < m /\ FromFirst(k, a, b) = FromFirst(m, a, b) => Source(k, a, b) < Source(m, a, b)
      /\ \A i \in 1..a : \E k \in 1..a + b : FromFirst(k, a, b) /\ Source(k, a, b) = i
      /\ \A i \in 1..b : \E k \in 1..a + b : ~FromFirst(k, a, b) /\ Source(k, a, b) = i
  BY <1>5, SourceIs
<1>8. ASSUME NEW k \in 1..a + b
      PROVE  /\ l[k] \in Refs
             /\ FromFirst(k, a, b) => Source(k, a, b) \in 1..a /\ l[k] = same[Source(k, a, b)] /\ l[k][2] = mine
             /\ ~FromFirst(k, a, b) => Source(k, a, b) \in 1..b /\ l[k] = other[Source(k, a, b)] /\ l[k][2] = opp
  <2>1. CASE FromFirst(k, a, b)
    <3>1. Source(k, a, b) \in 1..a /\ l[k] = same[Source(k, a, b)]
      BY <1>6, <1>7, <2>1
    <3>2. \A i \in 1..a : same[i] \in Refs
      BY <1>2
    <3> QED BY <1>2, <2>1, <3>1, <3>2
  <2>2. CASE ~FromFirst(k, a, b)
    <3>1. Source(k, a, b) \in 1..b /\ l[k] = other[Source(k, a, b)]
      BY <1>6, <1>7, <2>2
    <3>2. \A i \in 1..b : other[i] \in Refs
      BY <1>3
    <3> QED BY <1>3, <2>2, <3>1, <3>2
  <2> QED BY <2>1, <2>2
<1>9. \A k, m \in 1..a + b : l[k][2] = l[m][2] <=> (FromFirst(k, a, b) <=> FromFirst(m, a, b))
  BY <1>1, <1>8
<1>10. l \in Seq(Refs) /\ Len(l) = a + b
  <2>1. DOMAIN l = 1..a + b /\ l = [k \in 1..a + b |-> l[k]]
    BY <1>4, Zenon
  <2> DEFINE n == a + b
  <2>2. n \in Nat
    BY <1>5
  <2> HIDE DEF n
  <2>3. \A k \in 1..n : l[k] \in Refs
    BY <1>8 DEF n
  <2>4. l \in [1..n -> Refs]
    BY <2>1, <2>3 DEF n
  <2>5. l \in Seq(Refs) /\ Len(l) = n
    BY <2>2, <2>4
  <2> QED BY <2>5 DEF n
<1>11. PICK u1 : /\ \A k \in 1..a : u1[k] \in 1..Len(order) /\ same[k][1] = order[u1[k]]
                 /\ \A k, m \in 1..a : k < m => u1[k] < u1[m]
  BY <1>2
<1>12. PICK u2 : /\ \A k \in 1..b : u2[k] \in 1..Len(order) /\ other[k][1] = order[u2[k]]
                 /\ \A k, m \in 1..b : k < m => u2[k] < u2[m]
  BY <1>3
<1> DEFINE u == [k \in 1..a + b |-> IF FromFirst(k, a, b) THEN u1[Source(k, a, b)] ELSE u2[Source(k, a, b)]]
<1>13. \A k \in 1..a + b : u[k] = IF FromFirst(k, a, b) THEN u1[Source(k, a, b)] ELSE u2[Source(k, a, b)]
  OBVIOUS
<1> HIDE DEF u
<1>14. ASSUME NEW k \in 1..a + b PROVE u[k] \in 1..Len(order) /\ l[k][1] = order[u[k]]
  <2>1. CASE FromFirst(k, a, b)
    <3>1. Source(k, a, b) \in 1..a /\ l[k] = same[Source(k, a, b)] /\ u[k] = u1[Source(k, a, b)]
      BY <1>8, <1>13, <2>1
    <3> QED BY <1>11, <3>1
  <2>2. CASE ~FromFirst(k, a, b)
    <3>1. Source(k, a, b) \in 1..b /\ l[k] = other[Source(k, a, b)] /\ u[k] = u2[Source(k, a, b)]
      BY <1>8, <1>13, <2>2
    <3> QED BY <1>12, <3>1
  <2> QED BY <2>1, <2>2
<1>15. ASSUME NEW k \in 1..a + b, NEW m \in 1..a + b, k < m, l[k][2] = l[m][2] PROVE u[k] < u[m]
  <2>0. FromFirst(k, a, b) <=> FromFirst(m, a, b)
    BY <1>9, <1>15
  <2>a. FromFirst(k, a, b) = FromFirst(m, a, b)
    BY <2>0 DEF FromFirst
  <2>b. Source(k, a, b) < Source(m, a, b)
    BY <1>7, <1>15, <2>a
  <2>1. CASE FromFirst(k, a, b)
    <3>1. Source(k, a, b) \in 1..a /\ u[k] = u1[Source(k, a, b)]
      BY <1>8, <1>13, <2>1
    <3>2. Source(m, a, b) \in 1..a /\ u[m] = u1[Source(m, a, b)]
      BY <1>8, <1>13, <2>0, <2>1
    <3> QED BY <1>11, <2>b, <3>1, <3>2
  <2>2. CASE ~FromFirst(k, a, b)
    <3>1. Source(k, a, b) \in 1..b /\ u[k] = u2[Source(k, a, b)]
      BY <1>8, <1>13, <2>2
    <3>2. Source(m, a, b) \in 1..b /\ u[m] = u2[Source(m, a, b)]
      BY <1>8, <1>13, <2>0, <2>2
    <3> QED BY <1>12, <2>b, <3>1, <3>2
  <2> QED BY <2>1, <2>2
<1>16. ASSUME NEW k \in 1..a + b, NEW m \in 1..a + b, k < m PROVE l[k] # l[m]
  <2> SUFFICES ASSUME l[k] = l[m] PROVE FALSE
    OBVIOUS
  <2>1. u[k] < u[m]
    BY <1>15, <1>16
  <2>2. order[u[k]] = order[u[m]] /\ u[k] \in 1..Len(order) /\ u[m] \in 1..Len(order)
    BY <1>14
  <2> QED BY <2>1, <2>2 DEF Enumerates, Different
<1>17. ASSUME NEW r \in Refs, r[1] \in S PROVE \E k \in 1..a + b : l[k] = r
  <2>1. CASE r[2] = mine
    <3>1. PICK i \in 1..a : same[i] = r
      BY <1>2, <1>17, <2>1
    <3>2. PICK k \in 1..a + b : FromFirst(k, a, b) /\ Source(k, a, b) = i
      BY <1>7
    <3> QED BY <1>8, <3>1, <3>2
  <2>2. CASE r[2] = opp
    <3>1. PICK i \in 1..b : other[i] = r
      BY <1>3, <1>17, <2>2
    <3>2. PICK k \in 1..a + b : ~FromFirst(k, a, b) /\ Source(k, a, b) = i
      BY <1>7
    <3> QED BY <1>8, <3>1, <3>2
  <2>3. r[2] \in Parities
    BY RefIs
  <2> QED BY <1>1, <2>1, <2>2, <2>3
<1>18. PicturesOf(l, order, S)
  <2>1. Different(l)
    BY <1>10, <1>16 DEF Different
  <2>2. /\ \A k \in 1..Len(l) : u[k] \in 1..Len(order) /\ l[k][1] = order[u[k]]
        /\ \A k, m \in 1..Len(l) : k < m /\ l[k][2] = l[m][2] => u[k] < u[m]
    BY <1>10, <1>14, <1>15
  <2>3. \A r \in Refs : r[1] \in S => \E k \in 1..Len(l) : l[k] = r
    BY <1>10, <1>17
  <2> QED BY <1>10, <2>1, <2>2, <2>3 DEF PicturesOf
<1>19. Alternates(l)
  <2> DEFINE c == Fewer(a, b)
  <2>1. c \in Nat /\ 2 * c <= a + b
    BY <1>5 DEF Fewer
  <2>2. c \in 0..(Len(l) \div 2)
    BY <1>5, <1>10, <2>1
  <2>3. /\ \A k \in 1..a + b : ~(k > 2 * c) => (FromFirst(k, a, b) <=> k % 2 = 1)
        /\ \A k \in 1..a + b : k > 2 * c => (FromFirst(k, a, b) <=> b < a)
    BY DEF FromFirst
  <2> HIDE DEF c
  <2>4. ASSUME NEW k \in 1..2 * c PROVE (l[k][2] = cur.structure) = (k % 2 = 1)
    <3>1. k \in 1..a + b /\ ~(k > 2 * c)
      BY <1>5, <2>1
    <3>2. FromFirst(k, a, b) <=> k % 2 = 1
      BY <2>3, <3>1
    <3>3. l[k][2] = mine <=> FromFirst(k, a, b)
      BY <1>1, <1>8, <3>1
    <3> QED BY <3>2, <3>3 DEF mine
  <2>5. ASSUME NEW k \in 2 * c + 1..Len(l), NEW m \in 2 * c + 1..Len(l) PROVE l[k][2] = l[m][2]
    <3>1. k \in 1..a + b /\ m \in 1..a + b /\ k > 2 * c /\ m > 2 * c
      BY <1>10, <2>1
    <3> QED BY <1>9, <2>3, <3>1
  <2> QED BY <2>2, <2>4, <2>5 DEF Alternates
<1> QED BY <1>18, <1>19 DEF l

(***************************************************************************)
(* The orders of the frame stores.                                         *)
(***************************************************************************)
Ordered(s, S) ==
    /\ Enumerates(s, S)
    /\ \A i, j \in 1..Len(s) : i < j => MayPrecede(s[i], s[j])

LEMMA StoreIs ==
    ASSUME SliceOK
    PROVE  /\ IsFiniteSet(DOMAIN fs)
           /\ \A i \in DOMAIN fs : /\ fs[i].frame_num \in 0..MaxNum - 1 /\ fs[i].poc \in Int /\ fs[i].idx \in Nat
                                   /\ fs[i].fields \subseteq {"TOP", "BOTTOM"} /\ fs[i].long \in BOOLEAN
                                   /\ frame_num_wrap(i) \in Int
           /\ MaxNum \in Nat /\ CurNum \in 0..MaxNum - 1 /\ CurPoc \in Int
<1>1. DOMAIN fs = 1..Len(fs) /\ Len(fs) \in Nat /\ \A i \in DOMAIN fs : fs[i] \in Stores
  BY DEF SliceOK
<1>2. IsFiniteSet(DOMAIN fs)
  <2>1. IsFiniteSet(1..Len(fs))
    BY <1>1, FS_Interval
  <2> QED BY <1>1, <2>1
<1>3. \A i \in DOMAIN fs : fs[i] \in [frame_num : 0..(MaxNum - 1), poc : Int, idx : Nat, fields : SUBSET {"TOP", "BOTTOM"}, long : BOOLEAN]
  BY <1>1, ListsAssumption
<1>4. MaxNum \in Nat /\ CurNum \in 0..MaxNum - 1 /\ CurPoc \in Int
  BY ListsAssumption
<1>5. \A i \in DOMAIN fs : /\ fs[i].frame_num \in 0..MaxNum - 1 /\ fs[i].poc \in Int /\ fs[i].idx \in Nat
                           /\ fs[i].fields \subseteq {"TOP", "BOTTOM"} /\ fs[i].long \in BOOLEAN
  BY <1>3
<1>6. \A i \in DOMAIN fs : frame_num_wrap(i) \in Int
  BY <1>4, <1>5 DEF frame_num_wrap
<1> QED BY <1>2, <1>4, <1>5, <1>6

LEMMA JoinEnumerates ==
    ASSUME NEW S, NEW T, S \cap T = {}, NEW p, Enumerates(p, S), NEW q, Enumerates(q, T)
    PROVE  Enumerates(p \o q, S \cup T)
<1> DEFINE V == S \cup T
           l == p \o q
<1>1. p \in Seq(V) /\ q \in Seq(V)
  BY DEF Enumerates
<1>2. /\ l \in Seq(V) /\ Len(l) = Len(p) + Len(q) /\ Len(p) \in Nat /\ Len(q) \in Nat
      /\ \A i \in 1..Len(p) : l[i] = p[i] /\ i \in 1..Len(l)
      /\ \A i \in 1..Len(q) : l[Len(p) + i] = q[i] /\ Len(p) + i \in 1..Len(l)
  BY <1>1, JoinIs
<1>3. Different(l)
  <2>1. \A i \in 1..Len(p) : p[i] \in S
    BY DEF Enumerates
  <2>2. \A i \in 1..Len(q) : q[i] \in T
    BY DEF Enumerates
  <2>3. \A i \in 1..Len(p) : \A j \in 1..Len(q) : p[i] # q[j]
    BY <2>1, <2>2
  <2>4. Different(p) /\ Different(q)
    BY DEF Enumerates
  <2> QED BY <1>1, <2>3, <2>4, JoinDifferent
<1> HIDE DEF l
<1>4. ASSUME NEW x \in V PROVE \E i \in 1..Len(l) : l[i] = x
  <2>1. CASE x \in S
    <3>1. PICK i \in 1..Len(p) : p[i] = x
      BY <2>1 DEF Enumerates
    <3> QED BY <1>2, <3>1
  <2>2. CASE x \in T
    <3>1. PICK i \in 1..Len(q) : q[i] = x
      BY <2>2 DEF Enumerates
    <3> QED BY <1>2, <3>1
  <2> QED BY <2>1, <2>2
<1>5. Enumerates(l, V)
  BY <1>2, <1>3, <1>4 DEF Enumerates
<1> QED BY <1>5 DEF l

LEMMA JoinOrdered ==
    ASSUME NEW S, NEW T, S \cap T = {}, NEW p, Ordered(p, S), NEW q, Ordered(q, T),
           \A x \in S : \A y \in T : MayPrecede(x, y)
    PROVE  Ordered(p \o q, S \cup T)
<1> DEFINE V == S \cup T
           l == p \o q
<1>0. /\ Enumerates(p, S) /\ \A i, j \in 1..Len(p) : i < j => MayPrecede(p[i], p[j])
      /\ Enumerates(q, T) /\ \A i, j \in 1..Len(q) : i < j => MayPrecede(q[i], q[j])
  BY DEF Ordered
<1>1. p \in Seq(V) /\ q \in Seq(V) /\ (\A i \in 1..Len(p) : p[i] \in S) /\ (\A i \in 1..Len(q) : q[i] \in T)
  BY <1>0 DEF Enumerates
<1>2. /\ Len(l) = Len(p) + Len(q) /\ Len(p) \in Nat /\ Len(q) \in Nat
      /\ \A i \in 1..Len(p) : l[i] = p[i]
      /\ \A i \in 1..Len(q) : l[Len(p) + i] = q[i]
      /\ \A k \in 1..Len(l) : k \in 1..Len(p) \/ (k > Len(p) /\ k - Len(p) \in 1..Len(q) /\ k = Len(p) + (k - Len(p)))
  BY <1>1, JoinIs
<1>3. Enumerates(l, V)
  BY <1>0, JoinEnumerates
<1> HIDE DEF l
<1>4. ASSUME NEW i \in 1..Len(l), NEW j \in 1..Len(l), i < j PROVE MayPrecede(l[i], l[j])
  <2>1. CASE i \in 1..Len(p) /\ j \in 1..Len(p)
    BY <1>0, <1>2, <1>4, <2>1
  <2>2. CASE i \in 1..Len(p) /\ j > Len(p)
    <3>1. j - Len(p) \in 1..Len(q) /\ l[j] = q[j - Len(p)] /\ l[i] = p[i]
      BY <1>2, <2>2
    <3>2. l[i] \in S /\ l[j] \in T
      BY <1>1, <2>2, <3>1
    <3> QED BY <3>2
  <2>3. CASE i > Len(p)
    <3>1. i - Len(p) \in 1..Len(q) /\ j - Len(p) \in 1..Len(q) /\ i - Len(p) < j - Len(p)
      BY <1>2, <1>4, <2>3
    <3>2. i = Len(p) + (i - Len(p)) /\ j = Len(p) + (j - Len(p))
      BY <1>2, <3>1
    <3>3. l[i] = q[i - Len(p)] /\ l[j] = q[j - Len(p)]
      BY <1>2, <3>1, <3>2
    <3> QED BY <1>0, <3>1, <3>3
  <2> QED BY <1>2, <2>1, <2>2, <2>3
<1>5. Ordered(l, V)
  BY <1>3, <1>4 DEF Ordered
<1> QED BY <1>5 DEF l

LEMMA NumberOrder ==
    ASSUME SliceOK, NEW S, S \subseteq ShortStores, cur.type = "P"
    PROVE  Ordered(ByNumber(S), S)
<1> DEFINE key == [i \in S |-> -frame_num_wrap(i)]
           s == ByNumber(S)
<1>1. S \subseteq DOMAIN fs /\ \A i \in S : ~fs[i].long
  BY DEF ShortStores
<1>2. IsFiniteSet(S) /\ key \in [S -> Int] /\ \A i \in S : key[i] = -frame_num_wrap(i) /\ frame_num_wrap(i) \in Int
  BY <1>1, StoreIs, FS_Subset
<1>3. s = Sorted(S, key)
  BY DEF ByNumber
<1> HIDE DEF key, s
<1>4. Enumerates(s, S) /\ \A i, j \in 1..Len(s) : i < j => key[s[i]] <= key[s[j]]
  BY <1>2, <1>3, SortedIs
<1>5. ASSUME NEW i \in 1..Len(s), NEW j \in 1..Len(s), i < j PROVE MayPrecede(s[i], s[j])
  <2>1. s[i] \in S /\ s[j] \in S /\ key[s[i]] <= key[s[j]]
    BY <1>4, <1>5, Enumerated
  <2>2. frame_num_wrap(s[i]) >= frame_num_wrap(s[j])
    BY <1>2, <2>1
  <2> QED BY <1>1, <2>1, <2>2 DEF MayPrecede
<1>6. Ordered(s, S)
  BY <1>4, <1>5 DEF Ordered
<1> QED BY <1>6 DEF s

LEMMA IndexOrder ==
    ASSUME SliceOK, NEW S, S \subseteq LongStores
    PROVE  Ordered(ByIndex(S), S)
<1> DEFINE key == [i \in S |-> fs[i].idx]
           s == ByIndex(S)
<1>1. S \subseteq DOMAIN fs /\ \A i \in S : fs[i].long
  BY DEF LongStores
<1>2. IsFiniteSet(S) /\ key \in [S -> Int] /\ \A i \in S : key[i] = fs[i].idx
  BY <1>1, StoreIs, FS_Subset
<1>3. s = Sorted(S, key)
  BY DEF ByIndex
<1> HIDE DEF key, s
<1>4. Enumerates(s, S) /\ \A i, j \in 1..Len(s) : i < j => key[s[i]] <= key[s[j]]
  BY <1>2, <1>3, SortedIs
<1>5. ASSUME NEW i \in 1..Len(s), NEW j \in 1..Len(s), i < j PROVE MayPrecede(s[i], s[j])
  <2>1. s[i] \in S /\ s[j] \in S /\ key[s[i]] <= key[s[j]]
    BY <1>4, <1>5, Enumerated
  <2> QED BY <1>1, <1>2, <2>1 DEF MayPrecede
<1>6. Ordered(s, S)
  BY <1>4, <1>5 DEF Ordered
<1> QED BY <1>6 DEF s

LEMMA CountOrders ==
    ASSUME SliceOK, NEW S, S \subseteq ShortStores, cur.type = "B"
    PROVE  /\ Ordered(Before(S) \o After(S), S)
           /\ Enumerates(After(S) \o Before(S), S)
<1> DEFINE past == {i \in S : IF cur.structure = "FRAME" THEN fs[i].poc < CurPoc ELSE fs[i].poc <= CurPoc}
           future == {i \in S : fs[i].poc > CurPoc}
           key == [i \in past |-> -fs[i].poc]
           yek == [i \in future |-> fs[i].poc]
           p == Before(S)
           q == After(S)
<1>1. S \subseteq DOMAIN fs /\ \A i \in S : ~fs[i].long /\ fs[i].poc \in Int
  BY StoreIs DEF ShortStores
<1>2. CurPoc \in Int
  BY StoreIs
<1>3. past \cap future = {} /\ past \cup future = S
  <2>1. cur.structure = "FRAME" => \A i \in S : fs[i].poc # CurPoc
    BY <1>1 DEF SliceOK, Buffer
  <2> QED BY <1>1, <1>2, <2>1
<1>4. /\ \A i \in past : fs[i].poc <= CurPoc
      /\ \A i \in future : CurPoc < fs[i].poc
  BY <1>1, <1>2
<1>5. IsFiniteSet(past) /\ IsFiniteSet(future)
  <2>1. past \subseteq DOMAIN fs /\ future \subseteq DOMAIN fs
    BY <1>1
  <2> QED BY <2>1, StoreIs, FS_Subset
<1>6. /\ key \in [past -> Int] /\ \A i \in past : key[i] = -fs[i].poc
      /\ yek \in [future -> Int] /\ \A i \in future : yek[i] = fs[i].poc
  BY <1>1
<1>7. p = Sorted(past, key) /\ q = Sorted(future, yek)
  BY DEF Before, After
<1>8. past \subseteq S /\ future \subseteq S
  OBVIOUS
<1> HIDE DEF past, future, key, yek, p, q
<1>9. Enumerates(p, past) /\ \A i, j \in 1..Len(p) : i < j => key[p[i]] <= key[p[j]]
  BY <1>5, <1>6, <1>7, SortedIs
<1>10. Enumerates(q, future) /\ \A i, j \in 1..Len(q) : i < j => yek[q[i]] <= yek[q[j]]
  BY <1>5, <1>6, <1>7, SortedIs
<1>11. Ordered(p, past)
  <2>1. ASSUME NEW i \in 1..Len(p), NEW j \in 1..Len(p), i < j PROVE MayPrecede(p[i], p[j])
    <3>1. p[i] \in past /\ p[j] \in past /\ key[p[i]] <= key[p[j]]
      BY <1>9, <2>1, Enumerated
    <3>2. fs[p[i]].poc \in Int /\ fs[p[j]].poc \in Int /\ ~fs[p[i]].long /\ fs[p[i]].poc <= CurPoc
      BY <1>1, <1>4, <1>8, <3>1
    <3>3. fs[p[i]].poc >= fs[p[j]].poc
      BY <1>6, <3>1, <3>2
    <3> QED BY <3>2, <3>3 DEF MayPrecede
  <2> QED BY <1>9, <2>1 DEF Ordered
<1>12. Ordered(q, future)
  <2>1. ASSUME NEW i \in 1..Len(q), NEW j \in 1..Len(q), i < j PROVE MayPrecede(q[i], q[j])
    <3>1. q[i] \in future /\ q[j] \in future /\ yek[q[i]] <= yek[q[j]]
      BY <1>10, <2>1, Enumerated
    <3>2. ~fs[q[i]].long /\ CurPoc < fs[q[i]].poc
      BY <1>1, <1>4, <1>8, <3>1
    <3>3. fs[q[i]].poc <= fs[q[j]].poc
      BY <1>6, <3>1
    <3> QED BY <3>2, <3>3 DEF MayPrecede
  <2> QED BY <1>10, <2>1 DEF Ordered
<1>13. ASSUME NEW x \in past, NEW y \in future PROVE MayPrecede(x, y)
  <2>1. ~fs[x].long /\ fs[x].poc <= CurPoc /\ ~(fs[y].poc <= CurPoc)
    BY <1>1, <1>2, <1>4, <1>8
  <2> QED BY <2>1 DEF MayPrecede
<1>14. Ordered(p \o q, past \cup future)
  BY <1>3, <1>11, <1>12, <1>13, JoinOrdered
<1>15. Enumerates(q \o p, future \cup past)
  BY <1>3, <1>9, <1>10, JoinEnumerates
<1> QED BY <1>3, <1>14, <1>15 DEF p, q

(***************************************************************************)
(* init_lists.                                                             *)
(***************************************************************************)
ShortRefs == IF cur.structure = "FRAME" THEN {i \in ShortStores : Whole(i)} ELSE ShortStores
LongRefs == IF cur.structure = "FRAME" THEN {i \in LongStores : Whole(i)} ELSE LongStores
ListOf(p, q) == IF cur.structure = "FRAME" THEN FramesOf(p \o q)
                ELSE gen_pic_list_from_frame_list(p) \o gen_pic_list_from_frame_list(q)

\* The three parts of ListsComplete.
HasAll(l) == l \in Seq(Refs) /\ Different(l) /\ \A r \in Refs : \E k \in 1..Len(l) : l[k] = r
InOrder(l) == \A k, m \in 1..Len(l) : k < m /\ l[k][2] = l[m][2] => MayPrecede(l[k][1], l[m][1])
LongLast(l) ==
    \E n \in 0..Len(l) :
        /\ \A k \in 1..Len(l) : fs[l[k][1]].long <=> k > n
        /\ cur.structure # "FRAME" => Alternates(SubSeq(l, 1, n)) /\ Alternates(SubSeq(l, n + 1, Len(l)))

LEMMA ShortOrLong ==
    ASSUME SliceOK
    PROVE  /\ ShortRefs \subseteq ShortStores /\ LongRefs \subseteq LongStores /\ ShortRefs \cap LongRefs = {}
           /\ ShortRefs \subseteq DOMAIN fs /\ LongRefs \subseteq DOMAIN fs
           /\ \A i \in ShortRefs : ~fs[i].long
           /\ \A i \in LongRefs : fs[i].long
           /\ \A i \in ShortRefs : \A j \in LongRefs : MayPrecede(i, j)
           /\ \A r \in Refs : r[1] \in ShortRefs \cup LongRefs
           /\ cur.structure = "FRAME" => ShortRefs \cup LongRefs \subseteq {i \in DOMAIN fs : Whole(i)}
<1>1. /\ ShortRefs \subseteq ShortStores /\ LongRefs \subseteq LongStores
      /\ ShortRefs \subseteq DOMAIN fs /\ LongRefs \subseteq DOMAIN fs
      /\ \A i \in ShortRefs : ~fs[i].long
      /\ \A i \in LongRefs : fs[i].long
      /\ cur.structure = "FRAME" => ShortRefs \cup LongRefs \subseteq {i \in DOMAIN fs : Whole(i)}
  BY DEF ShortRefs, LongRefs, ShortStores, LongStores
<1>2. \A i \in ShortRefs : \A j \in LongRefs : MayPrecede(i, j)
  BY <1>1 DEF MayPrecede
<1>3. ASSUME NEW r \in Refs PROVE r[1] \in ShortRefs \cup LongRefs
  <2>1. r[1] \in DOMAIN fs /\ r[2] \in Parities /\ (r[2] = "FRAME" => Whole(r[1]))
    BY RefIs
  <2>2. r[1] \in ShortStores \cup LongStores
    BY <2>1 DEF ShortStores, LongStores
  <2>3. cur.structure = "FRAME" => Whole(r[1])
    BY <2>1 DEF Parities
  <2> QED BY <2>2, <2>3 DEF ShortRefs, LongRefs
<1> QED BY <1>1, <1>2, <1>3

LEMMA FrameList ==
    ASSUME SliceOK, cur.structure = "FRAME", NEW p, Enumerates(p, ShortRefs), NEW q, Enumerates(q, LongRefs)
    PROVE  /\ HasAll(ListOf(p, q)) /\ LongLast(ListOf(p, q))
           /\ Ordered(p, ShortRefs) /\ Ordered(q, LongRefs) => InOrder(ListOf(p, q))
<1> DEFINE l == ListOf(p, q)
           o == p \o q
           S == ShortRefs \cup LongRefs
<1>1. /\ S \subseteq {i \in DOMAIN fs : Whole(i)} /\ ShortRefs \cap LongRefs = {}
      /\ \A i \in ShortRefs : ~fs[i].long
      /\ \A i \in LongRefs : fs[i].long
      /\ \A i \in ShortRefs : \A j \in LongRefs : MayPrecede(i, j)
      /\ \A r \in Refs : r[1] \in S
  BY ShortOrLong
<1>2. Enumerates(o, S)
  BY <1>1, JoinEnumerates
<1>3. p \in Seq(S) /\ q \in Seq(S) /\ (\A i \in 1..Len(p) : p[i] \in ShortRefs) /\ (\A i \in 1..Len(q) : q[i] \in LongRefs)
  BY DEF Enumerates
<1>4. /\ Len(o) = Len(p) + Len(q) /\ Len(p) \in Nat /\ Len(q) \in Nat
      /\ \A i \in 1..Len(p) : o[i] = p[i]
      /\ \A i \in 1..Len(q) : o[Len(p) + i] = q[i]
      /\ \A k \in 1..Len(o) : k \in 1..Len(p) \/ (k > Len(p) /\ k - Len(p) \in 1..Len(q) /\ k = Len(p) + (k - Len(p)))
  BY <1>3, JoinIs
<1>5. l = FramesOf(o)
  BY DEF ListOf
<1>6. Ordered(p, ShortRefs) /\ Ordered(q, LongRefs) => Ordered(o, S)
  BY <1>1, JoinOrdered
<1> HIDE DEF o, l, S
<1>7. /\ PicturesOf(l, o, S)
      /\ Len(l) = Len(o) /\ \A k \in 1..Len(o) : l[k][1] = o[k]
  <2>1. S \subseteq {i \in DOMAIN fs : Whole(i)}
    BY <1>1
  <2>2. /\ PicturesOf(FramesOf(o), o, S)
        /\ Len(FramesOf(o)) = Len(o) /\ \A k \in 1..Len(o) : FramesOf(o)[k][1] = o[k]
    BY <1>2, <2>1, FramesAre
  <2> QED BY <1>5, <2>2
<1>8. HasAll(l)
  BY <1>1, <1>7 DEF HasAll, PicturesOf
<1>9. LongLast(l)
  <2>1. Len(p) \in 0..Len(l)
    BY <1>4, <1>7
  <2>2. ASSUME NEW k \in 1..Len(l) PROVE fs[l[k][1]].long <=> k > Len(p)
    <3>1. l[k][1] = o[k] /\ k \in 1..Len(o)
      BY <1>7
    <3>2. CASE k \in 1..Len(p)
      <4>1. o[k] \in ShortRefs /\ ~(k > Len(p))
        BY <1>3, <1>4, <3>2
      <4> QED BY <1>1, <3>1, <4>1
    <3>3. CASE k > Len(p) /\ k - Len(p) \in 1..Len(q) /\ k = Len(p) + (k - Len(p))
      <4>1. o[k] = q[k - Len(p)]
        BY <1>4, <3>3
      <4>2. o[k] \in LongRefs
        BY <1>3, <3>3, <4>1
      <4> QED BY <1>1, <3>1, <3>3, <4>2
    <3> QED BY <1>4, <3>1, <3>2, <3>3
  <2> QED BY <2>1, <2>2 DEF LongLast
<1>10. ASSUME Ordered(p, ShortRefs), Ordered(q, LongRefs) PROVE InOrder(l)
  <2>1. Ordered(o, S)
    BY <1>6, <1>10
  <2>2. \A k, m \in 1..Len(o) : k < m => MayPrecede(o[k], o[m])
    BY <2>1 DEF Ordered
  <2> QED BY <1>7, <2>2 DEF InOrder
<1> QED BY <1>8, <1>9, <1>10 DEF l

LEMMA FieldList ==
    ASSUME SliceOK, cur.structure # "FRAME", NEW p, Enumerates(p, ShortRefs), NEW q, Enumerates(q, LongRefs)
    PROVE  /\ HasAll(ListOf(p, q)) /\ LongLast(ListOf(p, q))
           /\ Ordered(p, ShortRefs) /\ Ordered(q, LongRefs) => InOrder(ListOf(p, q))
<1> DEFINE l == ListOf(p, q)
           a == gen_pic_list_from_frame_list(p)
           b == gen_pic_list_from_frame_list(q)
<1>1. /\ ShortRefs \subseteq DOMAIN fs /\ LongRefs \subseteq DOMAIN fs
      /\ \A i \in ShortRefs : ~fs[i].long
      /\ \A i \in LongRefs : fs[i].long
      /\ \A i \in ShortRefs : \A j \in LongRefs : MayPrecede(i, j)
      /\ \A r \in Refs : r[1] \in ShortRefs \cup LongRefs
  BY ShortOrLong
<1>2. PicturesOf(a, p, ShortRefs) /\ Alternates(a)
  BY <1>1, GeneratedAre
<1>3. PicturesOf(b, q, LongRefs) /\ Alternates(b)
  BY <1>1, GeneratedAre
<1>4. l = a \o b
  BY DEF ListOf
<1> HIDE DEF a, b
<1>5. (\A i \in 1..Len(p) : p[i] \in ShortRefs) /\ (\A i \in 1..Len(q) : q[i] \in LongRefs)
  BY DEF Enumerates
<1>6. a \in Seq(Refs) /\ Different(a) /\ \A k \in 1..Len(a) : a[k][1] \in ShortRefs
  BY <1>2, <1>5 DEF PicturesOf
<1>7. b \in Seq(Refs) /\ Different(b) /\ \A k \in 1..Len(b) : b[k][1] \in LongRefs
  BY <1>3, <1>5 DEF PicturesOf
<1>8. \A i \in 1..Len(a) : \A j \in 1..Len(b) : a[i] # b[j]
  BY <1>1, <1>6, <1>7
<1>9. Different(l)
  BY <1>4, <1>6, <1>7, <1>8, JoinDifferent
<1>10. /\ l \in Seq(Refs) /\ Len(l) = Len(a) + Len(b) /\ Len(a) \in Nat /\ Len(b) \in Nat
       /\ \A i \in 1..Len(a) : l[i] = a[i] /\ i \in 1..Len(l)
       /\ \A i \in 1..Len(b) : l[Len(a) + i] = b[i] /\ Len(a) + i \in 1..Len(l)
       /\ \A k \in 1..Len(l) : k \in 1..Len(a) \/ (k > Len(a) /\ k - Len(a) \in 1..Len(b) /\ k = Len(a) + (k - Len(a)))
  BY <1>4, <1>6, <1>7, JoinIs
<1> HIDE DEF l
<1>11. HasAll(l)
  <2>1. ASSUME NEW r \in Refs PROVE \E k \in 1..Len(l) : l[k] = r
    <3>1. CASE r[1] \in ShortRefs
      <4>1. PICK k \in 1..Len(a) : a[k] = r
        BY <1>2, <3>1 DEF PicturesOf
      <4> QED BY <1>10, <4>1
    <3>2. CASE r[1] \in LongRefs
      <4>1. PICK k \in 1..Len(b) : b[k] = r
        BY <1>3, <3>2 DEF PicturesOf
      <4> QED BY <1>10, <4>1
    <3> QED BY <1>1, <3>1, <3>2
  <2> QED BY <1>9, <1>10, <2>1 DEF HasAll
<1>12. ASSUME NEW k \in 1..Len(l) PROVE fs[l[k][1]].long <=> k > Len(a)
  <2>1. CASE k \in 1..Len(a)
    <3>1. l[k][1] \in ShortRefs /\ ~(k > Len(a))
      BY <1>6, <1>10, <2>1
    <3> QED BY <1>1, <3>1
  <2>2. CASE k > Len(a) /\ k - Len(a) \in 1..Len(b) /\ k = Len(a) + (k - Len(a))
    <3>1. l[k] = b[k - Len(a)]
      BY <1>10, <2>2
    <3>2. l[k][1] \in LongRefs
      BY <1>7, <2>2, <3>1
    <3> QED BY <1>1, <2>2, <3>2
  <2> QED BY <1>10, <2>1, <2>2
<1>13. LongLast(l)
  <2>1. Len(a) \in 0..Len(l) /\ Len(a) <= Len(l) /\ Len(l) \in Nat
    BY <1>10
  <2>2. SubSeq(l, 1, Len(a)) = a
    <3> DEFINE s == SubSeq(l, 1, Len(a))
    <3>1. s \in Seq(Refs) /\ Len(s) = Len(a) /\ \A i \in 1..Len(a) : s[i] = l[i]
      BY <1>10, <2>1, BeginningIs
    <3> HIDE DEF s
    <3>2. \A i \in 1..Len(s) : s[i] = a[i]
      BY <1>10, <3>1
    <3>3. s = a
      BY <1>6, <3>1, <3>2, SameEntries
    <3> QED BY <3>3 DEF s
  <2>3. SubSeq(l, Len(a) + 1, Len(l)) = b
    <3> DEFINE m == Len(a) + 1
               s == SubSeq(l, m, Len(l))
    <3>0. m \in Nat /\ m >= 1 /\ Len(l) <= Len(l)
      BY <1>10, <2>1
    <3>1. s \in Seq(Refs) /\ Len(s) = (IF m <= Len(l) THEN Len(l) - m + 1 ELSE 0) /\ \A i \in 1..Len(s) : s[i] = l[m + i - 1]
      <4> HIDE DEF m
      <4> QED BY <1>10, <2>1, <3>0, SubSeqIs
    <3>2. Len(s) = Len(b)
      BY <1>10, <3>1
    <3> HIDE DEF s
    <3>3. \A i \in 1..Len(b) : m + i - 1 = Len(a) + i
      BY <1>10
    <3>4. \A i \in 1..Len(s) : s[i] = b[i]
      BY <1>10, <3>1, <3>2, <3>3
    <3>5. s = b
      BY <1>7, <3>1, <3>2, <3>4, SameEntries
    <3> QED BY <3>5 DEF s
  <2> QED BY <1>2, <1>3, <1>12, <2>1, <2>2, <2>3 DEF LongLast
<1>14. ASSUME Ordered(p, ShortRefs), Ordered(q, LongRefs) PROVE InOrder(l)
  <2>1. PICK u : /\ \A k \in 1..Len(a) : u[k] \in 1..Len(p) /\ a[k][1] = p[u[k]]
                 /\ \A k, m \in 1..Len(a) : k < m /\ a[k][2] = a[m][2] => u[k] < u[m]
    BY <1>2 DEF PicturesOf
  <2>2. PICK v : /\ \A k \in 1..Len(b) : v[k] \in 1..Len(q) /\ b[k][1] = q[v[k]]
                 /\ \A k, m \in 1..Len(b) : k < m /\ b[k][2] = b[m][2] => v[k] < v[m]
    BY <1>3 DEF PicturesOf
  <2>3. /\ \A i, j \in 1..Len(p) : i < j => MayPrecede(p[i], p[j])
        /\ \A i, j \in 1..Len(q) : i < j => MayPrecede(q[i], q[j])
    BY <1>14 DEF Ordered
  <2>4. ASSUME NEW k \in 1..Len(l), NEW m \in 1..Len(l), k < m, l[k][2] = l[m][2]
        PROVE  MayPrecede(l[k][1], l[m][1])
    <3>1. CASE m \in 1..Len(a)
      <4>1. k \in 1..Len(a)
        BY <1>10, <2>4, <3>1
      <4>2. l[k] = a[k] /\ l[m] = a[m]
        BY <1>10, <3>1, <4>1
      <4>3. u[k] < u[m] /\ u[k] \in 1..Len(p) /\ u[m] \in 1..Len(p)
        BY <2>1, <2>4, <3>1, <4>1, <4>2
      <4>4. MayPrecede(p[u[k]], p[u[m]])
        BY <2>3, <4>3
      <4>5. a[k][1] = p[u[k]] /\ a[m][1] = p[u[m]]
        BY <2>1, <3>1, <4>1
      <4> QED BY <4>2, <4>4, <4>5
    <3>2. CASE k \in 1..Len(a) /\ m > Len(a) /\ m - Len(a) \in 1..Len(b) /\ m = Len(a) + (m - Len(a))
      <4>1. l[k] = a[k] /\ l[m] = b[m - Len(a)]
        BY <1>10, <3>2
      <4>2. l[k][1] \in ShortRefs /\ l[m][1] \in LongRefs
        BY <1>6, <1>7, <3>2, <4>1
      <4> QED BY <1>1, <4>2
    <3>3. CASE /\ k > Len(a) /\ k - Len(a) \in 1..Len(b) /\ k = Len(a) + (k - Len(a))
               /\ m > Len(a) /\ m - Len(a) \in 1..Len(b) /\ m = Len(a) + (m - Len(a))
      <4> DEFINE x == k - Len(a)
                 y == m - Len(a)
      <4>1. l[k] = b[x] /\ l[m] = b[y] /\ x \in 1..Len(b) /\ y \in 1..Len(b)
        BY <1>10, <3>3
      <4>2. x < y
        BY <1>10, <2>4
      <4> HIDE DEF x, y
      <4>3. v[x] < v[y] /\ v[x] \in 1..Len(q) /\ v[y] \in 1..Len(q)
        BY <2>2, <2>4, <4>1, <4>2
      <4>4. MayPrecede(q[v[x]], q[v[y]])
        BY <2>3, <4>3
      <4>5. b[x][1] = q[v[x]] /\ b[y][1] = q[v[y]]
        BY <2>2, <4>1
      <4> QED BY <4>1, <4>4, <4>5
    <3>4. m \in 1..Len(a) \/ (m > Len(a) /\ m - Len(a) \in 1..Len(b) /\ m = Len(a) + (m - Len(a)))
      BY <1>10
    <3>5. k \in 1..Len(a) \/ (k > Len(a) /\ k - Len(a) \in 1..Len(b) /\ k = Len(a) + (k - Len(a)))
      BY <1>10
    <3> QED BY <3>1, <3>2, <3>3, <3>4, <3>5
  <2> QED BY <2>4 DEF InOrder
<1> QED BY <1>11, <1>13, <1>14 DEF l

LEMMA SwappedIs ==
    ASSUME NEW V, NEW l \in Seq(V), Different(l), Len(l) > 1
    PROVE  LET s == <<l[2], l[1]>> \o SubSeq(l, 3, Len(l))
           IN  s \in Seq(V) /\ Len(s) = Len(l) /\ ToSet(s) = ToSet(l) /\ s # l
<1> DEFINE n == Len(l)
           h == <<l[2], l[1]>>
           t == SubSeq(l, 3, n)
           s == h \o t
<1>1. n \in Nat /\ n > 1 /\ 1 \in 1..n /\ 2 \in 1..n
  OBVIOUS
<1>2. l[1] \in V /\ l[2] \in V /\ l[1] # l[2]
  BY <1>1, ElementOfSeq DEF Different
<1>3. h \in Seq(V) /\ Len(h) = 2 /\ h[1] = l[2] /\ h[2] = l[1]
  BY <1>2
<1>4. t \in Seq(V) /\ Len(t) = n - 2 /\ \A i \in 1..Len(t) : t[i] = l[3 + i - 1]
  <2> DEFINE m == 3
  <2>1. m \in Nat /\ m >= 1 /\ n <= Len(l)
    OBVIOUS
  <2>2. SubSeq(l, m, n) \in Seq(V) /\ Len(SubSeq(l, m, n)) = (IF m <= n THEN n - m + 1 ELSE 0)
        /\ \A i \in 1..Len(SubSeq(l, m, n)) : SubSeq(l, m, n)[i] = l[m + i - 1]
    <3> HIDE DEF m
    <3> QED BY <1>1, <2>1, SubSeqIs
  <2>3. t \in Seq(V) /\ Len(t) = (IF 3 <= n THEN n - 3 + 1 ELSE 0) /\ \A i \in 1..Len(t) : t[i] = l[3 + i - 1]
    BY <2>2, Zenon
  <2> HIDE DEF t, m, n
  <2>4. Len(t) = n - 2
    <3>1. CASE n = 2
      BY <2>3, <3>1
    <3>2. CASE n # 2
      <4>1. 3 <= n /\ n - 3 + 1 = n - 2
        BY <1>1, <3>2
      <4> QED BY <2>3, <4>1
    <3> QED BY <3>1, <3>2
  <2> QED BY <2>3, <2>4
<1> HIDE DEF h, t
<1>5. s \in Seq(V) /\ Len(s) = n /\ (\A i \in 1..2 : s[i] = h[i]) /\ (\A i \in 1..n - 2 : s[2 + i] = t[i])
  <2>1. s \in Seq(V) /\ Len(s) = Len(h) + Len(t) /\ (\A i \in 1..Len(h) : s[i] = h[i]) /\ (\A i \in 1..Len(t) : s[Len(h) + i] = t[i])
    <3>1. h \in Seq(V) /\ t \in Seq(V)
      BY <1>3, <1>4
    <3> QED BY <3>1, ConcatIs
  <2> HIDE DEF s
  <2> QED BY <1>1, <1>3, <1>4, <2>1
<1> HIDE DEF s
<1>6. s[1] = l[2] /\ s[2] = l[1] /\ \A k \in 3..n : s[k] = l[k]
  <2>1. s[1] = l[2] /\ s[2] = l[1]
    BY <1>3, <1>5
  <2>2. ASSUME NEW k \in 3..n PROVE s[k] = l[k]
    <3>1. k - 2 \in 1..n - 2 /\ 2 + (k - 2) = k /\ 3 + (k - 2) - 1 = k
      BY <1>1
    <3> DEFINE j == k - 2
    <3>2. j \in 1..n - 2 /\ 2 + j = k /\ 3 + j - 1 = k
      BY <3>1, Zenon
    <3> HIDE DEF j, n
    <3>3. s[2 + j] = t[j]
      BY <1>5, <3>2, Zenon
    <3>4. t[j] = l[3 + j - 1]
      BY <1>4, <3>2, Zenon
    <3> QED BY <3>2, <3>3, <3>4, Zenon
  <2> QED BY <2>1, <2>2
<1>7. s # l
  BY <1>2, <1>6
<1>8. DOMAIN s = 1..n /\ DOMAIN l = 1..n /\ \A k \in 1..n : k = 1 \/ k = 2 \/ k \in 3..n
  BY <1>1, <1>5
<1>9. ToSet(s) = ToSet(l)
  <2>1. ASSUME NEW k \in 1..n PROVE s[k] \in ToSet(l)
    BY <1>1, <1>6, <1>8 DEF ToSet
  <2>2. ASSUME NEW k \in 1..n PROVE l[k] \in ToSet(s)
    BY <1>1, <1>6, <1>8 DEF ToSet
  <2> QED BY <1>8, <2>1, <2>2 DEF ToSet
<1> QED BY <1>5, <1>7, <1>9 DEF s, h, t

LEMMA AllOnce ==
    ASSUME NEW l, HasAll(l)
    PROVE  ToSet(l) = Refs /\ Len(l) = Cardinality(Refs) /\ Different(l) /\ l \in Seq(Refs)
<1>1. Enumerates(l, Refs)
  BY DEF HasAll, Enumerates
<1>2. Len(l) = Cardinality(Refs)
  BY <1>1, LengthIsCardinality
<1>3. ToSet(l) = Refs
  <2>1. DOMAIN l = 1..Len(l) /\ \A k \in 1..Len(l) : l[k] \in Refs
    BY DEF HasAll
  <2> QED BY <2>1 DEF ToSet, HasAll
<1> QED BY <1>2, <1>3 DEF HasAll

\* What init_lists promises.
Initial(ls) ==
    /\ HasAll(ls[1]) /\ LongLast(ls[1]) /\ InOrder(ls[1])
    /\ cur.type = "B" => ToSet(ls[2]) = Refs /\ Len(ls[2]) = Len(ls[1]) /\ (Len(ls[1]) > 1 => ls[2] # ls[1])

LEMMA InitialIs ==
    ASSUME SliceOK
    PROVE  Initial(init_lists)
<1> DEFINE b == cur.type = "B"
           f == Before(ShortRefs) \o After(ShortRefs)
           g == After(ShortRefs) \o Before(ShortRefs)
           p == IF b THEN f ELSE ByNumber(ShortRefs)
           q == ByIndex(LongRefs)
           l0 == ListOf(p, q)
           l1 == IF b THEN ListOf(g, q) ELSE <<>>
           s == <<l1[2], l1[1]>> \o SubSeq(l1, 3, Len(l1))
<1>1. init_lists = <<l0, IF l0 = l1 /\ Len(l1) > 1 THEN s ELSE l1>>
  <2>1. CASE cur.structure = "FRAME"
    BY <2>1 DEF init_lists, ListOf, ShortRefs, LongRefs, B_TYPE
  <2>2. CASE cur.structure # "FRAME"
    BY <2>2 DEF init_lists, ListOf, ShortRefs, LongRefs, B_TYPE
  <2> QED BY <2>1, <2>2
<1>2. Ordered(q, LongRefs)
  BY ShortOrLong, IndexOrder
<1>3. Ordered(p, ShortRefs)
  <2>1. CASE b
    <3>1. Ordered(f, ShortRefs)
      BY <2>1, ShortOrLong, CountOrders
    <3> QED BY <2>1, <3>1
  <2>2. CASE ~b
    <3>1. cur.type = "P"
      BY <2>2 DEF SliceOK
    <3>2. Ordered(ByNumber(ShortRefs), ShortRefs)
      BY <3>1, ShortOrLong, NumberOrder
    <3> QED BY <2>2, <3>2
  <2> QED BY <2>1, <2>2
<1>4. b => Enumerates(g, ShortRefs)
  BY ShortOrLong, CountOrders
<1> HIDE DEF p, q, f, g
<1>5. Enumerates(p, ShortRefs) /\ Enumerates(q, LongRefs)
  BY <1>2, <1>3 DEF Ordered
<1>6. HasAll(l0) /\ LongLast(l0) /\ InOrder(l0)
  <2>1. CASE cur.structure = "FRAME"
    BY <1>2, <1>3, <1>5, <2>1, FrameList
  <2>2. CASE cur.structure # "FRAME"
    BY <1>2, <1>3, <1>5, <2>2, FieldList
  <2> QED BY <2>1, <2>2
<1>7. b => HasAll(l1)
  <2>1. b => HasAll(ListOf(g, q))
    <3>1. CASE cur.structure = "FRAME"
      BY <1>4, <1>5, <3>1, FrameList
    <3>2. CASE cur.structure # "FRAME"
      BY <1>4, <1>5, <3>2, FieldList
    <3> QED BY <3>1, <3>2
  <2> QED BY <2>1
<1> HIDE DEF l0, l1
<1> DEFINE l2 == IF l0 = l1 /\ Len(l1) > 1 THEN s ELSE l1
<1>8. ASSUME b PROVE ToSet(l2) = Refs /\ Len(l2) = Len(l0) /\ (Len(l0) > 1 => l2 # l0)
  <2>0. HasAll(l1)
    BY <1>7, <1>8
  <2>1. ToSet(l1) = Refs /\ Len(l1) = Len(l0) /\ Different(l1) /\ l1 \in Seq(Refs)
    BY <1>6, <2>0, AllOnce
  <2>2. CASE l0 = l1 /\ Len(l1) > 1
    <3>1. s \in Seq(Refs) /\ Len(s) = Len(l1) /\ ToSet(s) = ToSet(l1) /\ s # l1
      BY <2>1, <2>2, SwappedIs
    <3> QED BY <2>1, <2>2, <3>1
  <2>3. CASE ~(l0 = l1 /\ Len(l1) > 1)
    BY <2>1, <2>3
  <2> QED BY <2>2, <2>3
<1>9. init_lists[1] = l0 /\ init_lists[2] = l2
  BY <1>1
<1> HIDE DEF l2
<1> QED BY <1>6, <1>8, <1>9 DEF Initial

\* The lists do not change while the slice is decoded.
LEMMA SameSlice ==
    ASSUME fs' = fs, cur' = cur
    PROVE  SliceOK' = SliceOK /\ Refs' = Refs /\ init_lists' = init_lists
<1>1. SliceOK' = SliceOK
  BY DEF SliceOK
<1>2. Refs' = Refs
  BY DEF Refs, IsRef, Whole
<1>3. init_lists' = init_lists
  <2>1. ShortStores' = ShortStores /\ LongStores' = LongStores /\ \A i : Whole(i)' = Whole(i) /\ frame_num_wrap(i)' = frame_num_wrap(i)
    BY DEF ShortStores, LongStores, Whole, frame_num_wrap
  <2>2. ASSUME NEW S PROVE ByNumber(S)' = ByNumber(S)
    BY <2>1 DEF ByNumber
  <2>3. ASSUME NEW S PROVE Before(S)' = Before(S) /\ After(S)' = After(S) /\ ByIndex(S)' = ByIndex(S)
    BY DEF Before, After, ByIndex
  <2>4. ASSUME NEW order PROVE gen_pic_list_from_frame_list(order)' = gen_pic_list_from_frame_list(order)
    BY <1>2 DEF gen_pic_list_from_frame_list, FieldsOf
  <2>5. \A order : FramesOf(order)' = FramesOf(order)
    BY DEF FramesOf
  <2>6. CASE cur.structure = "FRAME"
    <3>1. CASE cur.type = "B"
      BY <2>1, <2>3, <2>5, <2>6, <3>1 DEF init_lists, B_TYPE
    <3>2. CASE cur.type # "B"
      BY <2>1, <2>2, <2>3, <2>5, <2>6, <3>2 DEF init_lists, B_TYPE
    <3> QED BY <3>1, <3>2
  <2>7. CASE cur.structure # "FRAME"
    <3>1. CASE cur.type = "B"
      <4> DEFINE f == gen_pic_list_from_frame_list(Before(ShortStores) \o After(ShortStores))
                 g == gen_pic_list_from_frame_list(After(ShortStores) \o Before(ShortStores))
                 q == gen_pic_list_from_frame_list(ByIndex(LongStores))
      <4>1. f' = f /\ g' = g /\ q' = q
        BY <2>1, <2>3, <2>4
      <4>2. init_lists = <<f \o q, IF f \o q = g \o q /\ Len(g \o q) > 1
                                   THEN <<(g \o q)[2], (g \o q)[1]>> \o SubSeq(g \o q, 3, Len(g \o q)) ELSE g \o q>>
        BY <2>7, <3>1 DEF init_lists, B_TYPE
      <4>3. cur'.structure # "FRAME" /\ cur'.type = "B"
        BY <2>7, <3>1
      <4>4. init_lists' = <<f' \o q', IF f' \o q' = g' \o q' /\ Len(g' \o q') > 1
                                      THEN <<(g' \o q')[2], (g' \o q')[1]>> \o SubSeq(g' \o q', 3, Len(g' \o q')) ELSE g' \o q'>>
        BY <4>3 DEF init_lists, B_TYPE
      <4> HIDE DEF f, g, q
      <4> QED BY <4>1, <4>2, <4>4
    <3>2. CASE cur.type # "B"
      BY <2>1, <2>2, <2>3, <2>4, <2>7, <3>2 DEF init_lists, B_TYPE
    <3> QED BY <3>1, <3>2
  <2> QED BY <2>6, <2>7
<1> QED BY <1>1, <1>2, <1>3

SliceInv ==
    /\ cur.active \in Nat
    /\ cur.active > 0 => SliceOK
    /\ lists # <<>> => cur.active > 0 /\ lists = init_lists

LEMMA SliceInvInit == ListsInit => SliceInv
BY DEF ListsInit, SliceInv

LEMMA SliceInvNext == SliceInv /\ [ListsNext]_listVars => SliceInv'
<1> SUFFICES ASSUME SliceInv, [ListsNext]_listVars PROVE SliceInv'
  OBVIOUS
<1>1. CASE NewSlice
  <2>1. lists = <<>> /\ lists' = <<>>
    BY <1>1 DEF NewSlice, SliceInv
  <2>2. cur' \in [structure : Structures, type : {"P", "B"}, active : Actives] /\ Actives \subseteq Nat
    BY <1>1, ListsAssumption DEF NewSlice, Structures
  <2>3. fs' \in Seq(Stores)
    <3>1. PICK m \in 0..MaxStores : fs' \in [1..m -> Stores]
      BY <1>1 DEF NewSlice, SeqOf
    <3> QED BY <3>1
  <2>4. Buffer(fs', cur'.structure)
    BY <1>1 DEF NewSlice
  <2>5. SliceOK'
    BY <2>2, <2>3, <2>4 DEF SliceOK
  <2> QED BY <2>1, <2>2, <2>5 DEF SliceInv
<1>2. ASSUME fs' = fs, cur' = cur, lists' = lists \/ (lists' = init_lists /\ cur.active > 0) PROVE SliceInv'
  BY <1>2, SameSlice DEF SliceInv
<1>3. CASE InitLists
  BY <1>2, <1>3 DEF InitLists
<1>4. CASE MoveShort
  BY <1>2, <1>4 DEF MoveShort
<1>5. CASE MoveLong
  BY <1>2, <1>5 DEF MoveLong
<1>6. CASE UNCHANGED listVars
  BY <1>2, <1>6 DEF listVars
<1> QED BY <1>1, <1>3, <1>4, <1>5, <1>6 DEF ListsNext

\* Every initial list that a slice begins with has every reference once, in the
\* order that its type asks for, long term references last and fields
\* alternating; list 1 of a B slice has the same references in another order.
THEOREM InitialListsAreComplete == ListsSpec => []ListsComplete
<1>1. ListsInit => SliceInv
  BY SliceInvInit
<1>2. SliceInv /\ [ListsNext]_listVars => SliceInv'
  BY SliceInvNext
<1>3. SliceInv => ListsComplete
  <2> SUFFICES ASSUME SliceInv, lists # <<>>
               PROVE  LET l == lists[1]
                      IN  /\ ToSet(l) = Refs
                          /\ \A k, m \in DOMAIN l : k < m => l[k] # l[m] /\ (l[k][2] = l[m][2] => MayPrecede(l[k][1], l[m][1]))
                          /\ \E n \in 0..Len(l) :
                                /\ \A k \in DOMAIN l : fs[l[k][1]].long <=> k > n
                                /\ cur.structure # "FRAME" => Alternates(SubSeq(l, 1, n)) /\ Alternates(SubSeq(l, n + 1, Len(l)))
                          /\ cur.type = "B" => /\ ToSet(lists[2]) = Refs /\ Len(lists[2]) = Len(l)
                                               /\ Len(l) > 1 => lists[2] # l
    BY DEF ListsComplete
  <2> DEFINE l == lists[1]
  <2>1. Initial(lists)
    BY InitialIs DEF SliceInv
  <2>2. /\ HasAll(l) /\ LongLast(l) /\ InOrder(l)
        /\ cur.type = "B" => ToSet(lists[2]) = Refs /\ Len(lists[2]) = Len(l) /\ (Len(l) > 1 => lists[2] # l)
    BY <2>1 DEF Initial
  <2> HIDE DEF l
  <2>3. ToSet(l) = Refs /\ Different(l) /\ DOMAIN l = 1..Len(l)
    <3>1. ToSet(l) = Refs /\ Different(l) /\ l \in Seq(Refs)
      BY <2>2, AllOnce
    <3> QED BY <3>1
  <2>4. \A k, m \in DOMAIN l : k < m => l[k] # l[m] /\ (l[k][2] = l[m][2] => MayPrecede(l[k][1], l[m][1]))
    BY <2>2, <2>3 DEF Different, InOrder
  <2>5. \E n \in 0..Len(l) :
            /\ \A k \in DOMAIN l : fs[l[k][1]].long <=> k > n
            /\ cur.structure # "FRAME" => Alternates(SubSeq(l, 1, n)) /\ Alternates(SubSeq(l, n + 1, Len(l)))
    BY <2>2, <2>3 DEF LongLast
  <2> QED BY <2>2, <2>3, <2>4, <2>5 DEF l
<1> QED BY <1>1, <1>2, <1>3, PTL DEF ListsSpec

(***************************************************************************)
(* reorder_ref_pic_list.                                                   *)
(***************************************************************************)
\* No two references of one kind have the same number, so that a command takes
\* out the picture that it moves and no other.
LEMMA NumbersDiffer ==
    ASSUME SliceOK, NEW r \in Refs, NEW e \in Refs
    PROVE  /\ ~fs[r[1]].long /\ ~fs[e[1]].long /\ pic_num(r) = pic_num(e) => r = e
           /\ fs[r[1]].long /\ fs[e[1]].long /\ long_term_pic_num(r) = long_term_pic_num(e) => r = e
<1> DEFINE i == r[1]
           j == e[1]
           w == frame_num_wrap(i)
           x == frame_num_wrap(j)
<1>1. r = <<i, r[2]>> /\ e = <<j, e[2]>> /\ i \in DOMAIN fs /\ j \in DOMAIN fs /\ r[2] \in Parities /\ e[2] \in Parities
  BY RefIs
<1>2. cur.structure \in Structures /\ Buffer(fs, cur.structure)
  BY DEF SliceOK
<1>3. /\ fs[i].frame_num \in 0..MaxNum - 1 /\ fs[j].frame_num \in 0..MaxNum - 1
      /\ fs[i].idx \in Nat /\ fs[j].idx \in Nat
      /\ MaxNum \in Nat /\ CurNum \in 0..MaxNum - 1 /\ w \in Int /\ x \in Int
  BY <1>1, StoreIs
<1>4. ~fs[i].long /\ ~fs[j].long /\ w = x => i = j
  <2>1. w = x => fs[i].frame_num = fs[j].frame_num
    BY <1>3 DEF frame_num_wrap
  <2> QED BY <1>1, <1>2, <2>1 DEF Buffer
<1>5. fs[i].long /\ fs[j].long /\ fs[i].idx = fs[j].idx => i = j
  BY <1>1, <1>2 DEF Buffer
<1> HIDE DEF i, j, w, x
<1>6. CASE cur.structure = "FRAME"
  <2>1. r[2] = "FRAME" /\ e[2] = "FRAME"
    BY <1>1, <1>6 DEF Parities
  <2>2. pic_num(r) = w /\ pic_num(e) = x /\ long_term_pic_num(r) = fs[i].idx /\ long_term_pic_num(e) = fs[j].idx
    BY <2>1 DEF pic_num, long_term_pic_num, i, j, w, x
  <2> QED BY <1>1, <1>4, <1>5, <2>1, <2>2 DEF i, j
<1>7. CASE cur.structure # "FRAME"
  <2> DEFINE b == IF r[2] = cur.structure THEN 1 ELSE 0
             c == IF e[2] = cur.structure THEN 1 ELSE 0
  <2>1. r[2] \in {"TOP", "BOTTOM"} /\ e[2] \in {"TOP", "BOTTOM"} /\ cur.structure \in {"TOP", "BOTTOM"}
    BY <1>1, <1>2, <1>7 DEF Parities, Structures
  <2>2. /\ pic_num(r) = 2 * w + b /\ pic_num(e) = 2 * x + c
        /\ long_term_pic_num(r) = 2 * fs[i].idx + b /\ long_term_pic_num(e) = 2 * fs[j].idx + c
    BY <2>1 DEF pic_num, long_term_pic_num, i, j, w, x
  <2>3. b \in 0..1 /\ c \in 0..1 /\ (b = c => r[2] = e[2])
    BY <2>1
  <2> HIDE DEF b, c
  <2>4. \A y, z \in Int : 2 * y + b = 2 * z + c => y = z /\ b = c
    BY <2>3
  <2>5. pic_num(r) = pic_num(e) => w = x /\ b = c
    BY <1>3, <2>2, <2>4
  <2>6. long_term_pic_num(r) = long_term_pic_num(e) => fs[i].idx = fs[j].idx /\ b = c
    BY <1>3, <2>2, <2>4 DEF i, j
  <2>7. i = j /\ b = c => r = e
    BY <1>1, <2>3
  <2> QED BY <1>4, <1>5, <2>5, <2>6, <2>7 DEF i, j
<1> QED BY <1>6, <1>7

LEMMA ShortFound ==
    ASSUME SliceOK, NEW n, get_short_term_pic(n) # NoRef
    PROVE  LET r == get_short_term_pic(n)
           IN  r \in Refs /\ {e \in Refs : ~fs[e[1]].long /\ pic_num(e) = n} = {r}
<1> DEFINE found == {e \in Refs : ~fs[e[1]].long /\ pic_num(e) = n}
           r == get_short_term_pic(n)
<1>1. r = IF found = {} THEN NoRef ELSE CHOOSE e \in found : TRUE
  BY DEF get_short_term_pic
<1>2. r \in found
  BY <1>1
<1> HIDE DEF r
<1>3. r \in Refs /\ \A e \in found : e = r
  BY <1>2, NumbersDiffer
<1> QED BY <1>2, <1>3 DEF r

LEMMA LongFound ==
    ASSUME SliceOK, NEW n \in {long_term_pic_num(r) : r \in {q \in Refs : fs[q[1]].long}}
    PROVE  LET r == get_long_term_pic(n)
           IN  r \in Refs /\ {e \in Refs : fs[e[1]].long /\ long_term_pic_num(e) = n} = {r}
<1> DEFINE found == {e \in Refs : fs[e[1]].long /\ long_term_pic_num(e) = n}
           r == get_long_term_pic(n)
<1>1. r = IF found = {} THEN NoRef ELSE CHOOSE e \in found : TRUE
  BY DEF get_long_term_pic
<1>2. r \in found
  <2>1. found # {}
    OBVIOUS
  <2> QED BY <1>1, <2>1
<1> HIDE DEF r
<1>3. r \in Refs /\ \A e \in found : e = r
  BY <1>2, NumbersDiffer
<1> QED BY <1>2, <1>3 DEF r

\* In l, the list of a slice with n entries and one more, done stands first and
\* rest follows as far as the entries reach.
InPlace(l, done, rest, n, R) ==
    /\ l \in Seq(R \cup {NoRef}) /\ Len(l) = n + 1
    /\ done \in Seq(R) /\ Len(done) <= n
    /\ \A k \in 1..Len(done) : l[k] = done[k]
    /\ \A k \in 1..Len(rest) : Len(done) + k <= n => l[Len(done) + k] = rest[k]

LEMMA ReorderIs ==
    ASSUME NEW n \in Nat, NEW l, NEW done, NEW rest \in Seq(Refs), Different(rest),
           InPlace(l, done, rest, n, Refs), Len(done) < n, NEW r \in Refs
    PROVE  InPlace(reorder(l, Len(done), r, {r}), Append(done, r), EntriesIn(rest, Refs \ {r}), n, Refs)
<1> DEFINE V == Refs \cup {NoRef}
           m == Len(done)
           front == SubSeq(l, 1, m)
           others == SubSeq(l, m + 1, Len(l) - 1)
           kept == EntriesIn(others, Refs \ {r})
           tail == SubSeq(others, Len(kept) + 1, Len(others))
           wanted == EntriesIn(rest, Refs \ {r})
           new == reorder(l, m, r, {r})
<1>1. /\ l \in Seq(V) /\ Len(l) = n + 1 /\ done \in Seq(Refs) /\ m \in Nat /\ m < n
      /\ \A k \in 1..m : l[k] = done[k]
      /\ \A k \in 1..Len(rest) : m + k <= n => l[m + k] = rest[k]
  BY DEF InPlace
<1>2. rest \in Seq(V) /\ Len(rest) \in Nat /\ r \in V /\ <<r>> \in Seq(V) /\ Len(<<r>>) = 1 /\ <<r>>[1] = r
  OBVIOUS
<1>3. front \in Seq(V) /\ Len(front) = m /\ \A k \in 1..m : front[k] = l[k]
  <2>1. m <= Len(l)
    BY <1>1
  <2> HIDE DEF V, m
  <2> QED BY <1>1, <2>1, BeginningIs
<1>4. others \in Seq(V) /\ Len(others) = n - m /\ \A k \in 1..n - m : others[k] = l[m + k]
  <2> DEFINE a == m + 1
             b == Len(l) - 1
             s == SubSeq(l, a, b)
  <2>1. a \in Nat /\ a >= 1 /\ b \in Nat /\ b <= Len(l) /\ b = n /\ a <= b /\ b - a + 1 = n - m
    BY <1>1
  <2> HIDE DEF a, b, V
  <2>2. s \in Seq(V) /\ Len(s) = (IF a <= b THEN b - a + 1 ELSE 0) /\ \A k \in 1..Len(s) : s[k] = l[a + k - 1]
    BY <1>1, <2>1, SubSeqIs
  <2> HIDE DEF s, m
  <2>3. Len(s) = n - m
    BY <2>1, <2>2
  <2>4. \A k \in 1..n - m : a + k - 1 = m + k
    BY <1>1 DEF a
  <2>5. \A k \in 1..n - m : s[k] = l[m + k]
    BY <2>2, <2>3, <2>4
  <2> QED BY <2>2, <2>3, <2>5 DEF s, a, b
<1> HIDE DEF others, front
<1>5. kept \in Seq(V) /\ Len(kept) \in Nat /\ Len(kept) <= n - m
  BY <1>4, EntriesType
<1>6. wanted \in Seq(V) /\ Len(wanted) \in Nat
  BY <1>2, EntriesType
<1>7. tail \in Seq(V) /\ Len(tail) = n - m - Len(kept)
  <2> DEFINE a == Len(kept) + 1
             b == Len(others)
             s == SubSeq(others, a, b)
  <2> HIDE DEF kept, V, m
  <2>1. a \in Nat /\ a >= 1 /\ b \in Nat /\ b <= Len(others) /\ b = n - m
    BY <1>1, <1>4, <1>5
  <2>1a. (IF a <= b THEN b - a + 1 ELSE 0) = n - m - Len(kept)
    BY <1>1, <1>5, <2>1
  <2> HIDE DEF a, b
  <2>2. s \in Seq(V) /\ Len(s) = (IF a <= b THEN b - a + 1 ELSE 0)
    BY <1>4, <2>1, SubSeqIs
  <2> QED BY <2>1a, <2>2 DEF s, a, b
<1>8. new = ((front \o <<r>>) \o kept) \o tail
  BY DEF reorder, front, others
<1> DEFINE f == front \o <<r>>
           g == f \o kept
<1> HIDE DEF kept, tail, wanted, new, V, m
<1>9. f \in Seq(V) /\ Len(f) = m + 1 /\ f[m + 1] = r /\ \A k \in 1..m : f[k] = done[k]
  <2>1. /\ f \in Seq(V) /\ Len(f) = Len(front) + Len(<<r>>)
        /\ (\A k \in 1..Len(front) : f[k] = front[k])
        /\ (\A k \in 1..Len(<<r>>) : f[Len(front) + k] = <<r>>[k])
    BY <1>2, <1>3, ConcatIs
  <2> HIDE DEF f
  <2> QED BY <1>1, <1>2, <1>3, <2>1
<1> HIDE DEF f
<1>10. /\ g \in Seq(V) /\ Len(g) = m + 1 + Len(kept)
       /\ \A k \in 1..m + 1 : g[k] = f[k]
       /\ \A k \in 1..Len(kept) : g[m + 1 + k] = kept[k]
  <2>1. /\ g \in Seq(V) /\ Len(g) = Len(f) + Len(kept)
        /\ (\A k \in 1..Len(f) : g[k] = f[k])
        /\ (\A k \in 1..Len(kept) : g[Len(f) + k] = kept[k])
    <3>1. f \in Seq(V) /\ kept \in Seq(V)
      BY <1>5, <1>9
    <3> QED BY <3>1, ConcatIs
  <2> HIDE DEF g
  <2> QED BY <1>9, <2>1
<1> HIDE DEF g
<1>11. /\ new \in Seq(V) /\ Len(new) = n + 1
       /\ \A k \in 1..m + 1 + Len(kept) : new[k] = g[k]
  <2>1. /\ g \o tail \in Seq(V) /\ Len(g \o tail) = Len(g) + Len(tail)
        /\ (\A k \in 1..Len(g) : (g \o tail)[k] = g[k])
    <3>1. g \in Seq(V) /\ tail \in Seq(V)
      BY <1>7, <1>10
    <3> QED BY <3>1, ConcatIs
  <2>2. new = g \o tail
    BY <1>8 DEF g, f
  <2>3. Len(g) + Len(tail) = n + 1
    BY <1>1, <1>5, <1>7, <1>10
  <2> QED BY <1>10, <2>1, <2>2, <2>3
<1>12. /\ \A k \in 1..m : new[k] = done[k]
       /\ new[m + 1] = r
       /\ \A k \in 1..Len(kept) : new[m + 1 + k] = kept[k]
  <2>1. ASSUME NEW k \in 1..m PROVE new[k] = done[k]
    <3>1. k \in 1..m + 1 /\ k \in 1..m + 1 + Len(kept)
      BY <1>1, <1>5
    <3> QED BY <1>9, <1>10, <1>11, <3>1
  <2>2. new[m + 1] = r
    <3>1. m + 1 \in 1..m + 1 /\ m + 1 \in 1..m + 1 + Len(kept)
      BY <1>1, <1>5
    <3> QED BY <1>9, <1>10, <1>11, <3>1
  <2>3. ASSUME NEW k \in 1..Len(kept) PROVE new[m + 1 + k] = kept[k]
    <3>1. m + 1 + k \in 1..m + 1 + Len(kept)
      BY <1>1, <1>5
    <3> QED BY <1>10, <1>11, <3>1
  <2> QED BY <2>1, <2>2, <2>3
<1>13. ASSUME NEW k \in 1..Len(wanted), m + 1 + k <= n PROVE k \in 1..Len(kept) /\ kept[k] = wanted[k]
  <2>1. CASE Len(rest) <= n - m
    <3>1. Heads(rest, others)
      <4>1. ASSUME NEW j \in 1..Len(rest) PROVE others[j] = rest[j]
        <5>1. j \in 1..n - m /\ m + j <= n
          BY <1>1, <1>2, <2>1
        <5> QED BY <1>1, <1>4, <5>1
      <4> QED BY <1>4, <2>1, <4>1 DEF Heads
    <3>2. Heads(wanted, kept)
      BY <1>2, <1>4, <3>1, EntriesFront DEF wanted, kept
    <3> QED BY <1>5, <1>6, <3>2 DEF Heads
  <2>2. CASE ~(Len(rest) <= n - m)
    <3>1. \A j \in 1..n - m : others[j] = rest[j] /\ rest[j] \in Refs
      <4>1. ASSUME NEW j \in 1..n - m PROVE others[j] = rest[j] /\ rest[j] \in Refs
        <5>1. j \in 1..Len(rest) /\ m + j <= n
          BY <1>1, <1>2, <2>2
        <5> QED BY <1>1, <1>4, <5>1, ElementOfSeq
      <4> QED BY <4>1
    <3>2. Heads(others, rest)
      BY <1>1, <1>2, <1>4, <2>2, <3>1 DEF Heads
    <3>3. Heads(kept, wanted)
      BY <1>2, <1>4, <3>2, EntriesFront DEF wanted, kept
    <3>4. others \in Seq(Refs) /\ Different(others)
      <4>1. others \in Seq(Refs)
        <5>1. others \in Seq(V) /\ \A j \in 1..Len(others) : others[j] \in Refs
          BY <1>4, <3>1
        <5>2. others \in [1..Len(others) -> Refs] /\ Len(others) \in Nat
          BY <5>1
        <5> QED BY <5>2
      <4>2. ASSUME NEW i \in 1..n - m, NEW j \in 1..n - m, i < j PROVE others[i] # others[j]
        <5>1. i \in 1..Len(rest) /\ j \in 1..Len(rest)
          BY <1>1, <1>2, <2>2
        <5> QED BY <3>1, <4>2, <5>1 DEF Different
      <4> QED BY <1>4, <4>1, <4>2 DEF Different
    <3>5. Len(EntriesIn(others, Refs)) <= Len(kept) + 1
      BY <3>4, EntriesLess DEF kept
    <3>6. n - m <= Len(kept) + 1
      BY <1>4, <3>4, <3>5, EntriesAll
    <3>7. k \in 1..Len(kept)
      BY <1>1, <1>5, <1>6, <1>13, <3>6
    <3> QED BY <3>3, <3>7 DEF Heads
  <2> QED BY <2>1, <2>2
<1>14. /\ Append(done, r) \in Seq(Refs) /\ Len(Append(done, r)) = m + 1
       /\ Append(done, r)[m + 1] = r /\ \A k \in 1..m : Append(done, r)[k] = done[k]
  <2>1. done \in Seq(Refs)
    BY <1>1
  <2> QED BY <2>1, AppendIs DEF m
<1> DEFINE now == Append(done, r)
<1> HIDE DEF now
<1>15. \A k \in 1..m + 1 : new[k] = now[k]
  <2>1. \A k \in 1..m + 1 : k \in 1..m \/ k = m + 1
    BY <1>1
  <2> QED BY <1>12, <1>14, <2>1 DEF now
<1>16. \A k \in 1..Len(wanted) : Len(now) + k <= n => new[Len(now) + k] = wanted[k]
  BY <1>12, <1>13, <1>14 DEF now
<1>17. InPlace(new, now, wanted, n, Refs)
  BY <1>1, <1>11, <1>14, <1>15, <1>16 DEF InPlace, V, now
<1> QED BY <1>17 DEF new, now, wanted, m

\* The beginning of the initial list that the slice uses.
First == SubSeq(lists[1], 1, IF cur.active <= Len(lists[1]) THEN cur.active ELSE Len(lists[1]))

ReorderInv ==
    /\ lists = <<>> => moved = <<>>
    /\ lists # <<>> => InPlace(list, moved, EntriesIn(First, Refs \ ToSet(moved)), cur.active, Refs)

LEMMA FirstIs ==
    ASSUME SliceInv, lists # <<>>
    PROVE  /\ SliceOK /\ cur.active \in Nat
           /\ First \in Seq(Refs) /\ Different(First)
           /\ Len(First) <= cur.active /\ Len(First) <= Len(lists[1])
           /\ \A k \in 1..Len(First) : First[k] = lists[1][k]
<1> DEFINE l == lists[1]
           n == IF cur.active <= Len(l) THEN cur.active ELSE Len(l)
           s == SubSeq(l, 1, n)
<1>1. SliceOK /\ cur.active \in Nat
  BY DEF SliceInv
<1>2. l \in Seq(Refs) /\ Different(l)
  <2>1. Initial(lists)
    BY InitialIs DEF SliceInv
  <2>2. HasAll(l)
    BY <2>1 DEF Initial
  <2> HIDE DEF l
  <2> QED BY <2>2 DEF HasAll
<1>3. First = s
  BY DEF First
<1> HIDE DEF l
<1>4. n \in Nat /\ n <= Len(l) /\ n <= cur.active /\ Len(l) \in Nat
  BY <1>1, <1>2
<1> HIDE DEF n
<1>5. s \in Seq(Refs) /\ Len(s) = n /\ \A k \in 1..n : s[k] = l[k]
  BY <1>2, <1>4, BeginningIs
<1> HIDE DEF s
<1>6. Different(s)
  <2>1. \A k \in 1..n : k \in 1..Len(l)
    BY <1>4
  <2> QED BY <1>2, <1>5, <2>1 DEF Different
<1> QED BY <1>1, <1>3, <1>4, <1>5, <1>6 DEF l

LEMMA MoveKeeps ==
    ASSUME SliceInv, ReorderInv, lists # <<>>, Len(moved) < cur.active, NEW r \in Refs,
           moved' = Append(moved, r), list' = reorder(list, Len(moved), r, {r}),
           UNCHANGED <<fs, cur, lists>>
    PROVE  ReorderInv'
<1> DEFINE rest == EntriesIn(First, Refs \ ToSet(moved))
           next == EntriesIn(First, Refs \ ToSet(moved'))
<1>1. SliceOK /\ cur.active \in Nat /\ First \in Seq(Refs) /\ Different(First)
  BY FirstIs
<1>2. InPlace(list, moved, rest, cur.active, Refs)
  BY DEF ReorderInv
<1>3. rest \in Seq(Refs) /\ Different(rest)
  BY <1>1, EntriesType, EntriesDifferent
<1>4. EntriesIn(rest, Refs \ {r}) = next
  <2>1. moved \in Seq(Refs)
    BY <1>2 DEF InPlace
  <2>2. ToSet(moved') = ToSet(moved) \cup {r}
    <3>1. /\ moved' \in Seq(Refs) /\ Len(moved') = Len(moved) + 1 /\ Len(moved) \in Nat
          /\ \A i \in 1..Len(moved) : moved'[i] = moved[i]
          /\ moved'[Len(moved) + 1] = r
      BY <2>1, AppendIs
    <3>2. DOMAIN moved = 1..Len(moved) /\ DOMAIN moved' = 1..Len(moved) + 1
      BY <2>1, <3>1
    <3>3. \A i \in 1..Len(moved) + 1 : i \in 1..Len(moved) \/ i = Len(moved) + 1
      BY <3>1
    <3>4. \A i \in 1..Len(moved) : i \in 1..Len(moved) + 1
      BY <3>1
    <3>5. Len(moved) + 1 \in 1..Len(moved) + 1
      BY <3>1
    <3>6. ASSUME NEW x \in ToSet(moved') PROVE x \in ToSet(moved) \cup {r}
      BY <3>1, <3>2, <3>3 DEF ToSet
    <3>7. ASSUME NEW x \in ToSet(moved) \cup {r} PROVE x \in ToSet(moved')
      BY <3>1, <3>2, <3>4, <3>5 DEF ToSet
    <3> QED BY <3>6, <3>7
  <2>3. (Refs \ ToSet(moved)) \cap (Refs \ {r}) = Refs \ ToSet(moved')
    BY <2>2
  <2>4. EntriesIn(rest, Refs \ {r}) = EntriesIn(First, (Refs \ ToSet(moved)) \cap (Refs \ {r}))
    BY <1>1, EntriesTwice
  <2> QED BY <2>3, <2>4
<1> HIDE DEF rest
<1>5. InPlace(reorder(list, Len(moved), r, {r}), Append(moved, r), EntriesIn(rest, Refs \ {r}), cur.active, Refs)
  BY <1>1, <1>2, <1>3, ReorderIs
<1>6. InPlace(list', moved', next, cur.active, Refs)
  BY <1>4, <1>5
<1>7. Refs' = Refs /\ First' = First
  BY SameSlice DEF First
<1> QED BY <1>6, <1>7 DEF ReorderInv

LEMMA ReorderInvNext == SliceInv /\ ReorderInv /\ [ListsNext]_listVars => ReorderInv'
<1> SUFFICES ASSUME SliceInv, ReorderInv, [ListsNext]_listVars PROVE ReorderInv'
  OBVIOUS
<1>1. CASE NewSlice
  <2>1. lists = <<>> /\ lists' = <<>> /\ moved' = moved
    BY <1>1 DEF NewSlice, SliceInv
  <2> QED BY <2>1 DEF ReorderInv
<1>2. CASE InitLists
  <2>1. /\ lists = <<>> /\ lists' = init_lists /\ fs' = fs /\ cur' = cur /\ moved' = <<>> /\ cur.active \in Nat
        /\ list' = [k \in 1..(cur.active + 1) |->
                        IF k <= cur.active /\ k <= Len(init_lists[1]) THEN init_lists[1][k] ELSE NoRef]
    BY <1>2 DEF InitLists, SliceInv, ReorderInv
  <2>2. SliceInv'
    BY SliceInvNext
  <2>3. lists' # <<>>
    BY <2>1 DEF init_lists
  <2> DEFINE l == init_lists[1]
             n == cur.active
             f == SubSeq(l, 1, IF n <= Len(l) THEN n ELSE Len(l))
  <2>4. SliceOK
    BY <1>2 DEF InitLists, SliceInv
  <2>5. l \in Seq(Refs)
    <3>1. Initial(init_lists)
      BY <2>4, InitialIs
    <3>2. HasAll(l)
      BY <3>1 DEF Initial
    <3> HIDE DEF l
    <3> QED BY <3>2 DEF HasAll
  <2>6. Refs' = Refs /\ First' = f
    BY <2>1, SameSlice DEF First
  <2>7. list' = [k \in 1..(n + 1) |-> IF k <= n /\ k <= Len(l) THEN l[k] ELSE NoRef]
    BY <2>1
  <2>8. n \in Nat
    BY <2>1
  <2> HIDE DEF l, n
  <2>9. f \in Seq(Refs) /\ Len(f) <= n /\ Len(f) <= Len(l) /\ Len(l) \in Nat /\ \A k \in 1..Len(f) : f[k] = l[k]
    <3> DEFINE m == IF n <= Len(l) THEN n ELSE Len(l)
               s == SubSeq(l, 1, m)
    <3>1. m \in Nat /\ m <= Len(l) /\ m <= n /\ Len(l) \in Nat
      BY <2>5, <2>8
    <3> HIDE DEF m
    <3>2. s \in Seq(Refs) /\ Len(s) = m /\ \A k \in 1..m : s[k] = l[k]
      BY <2>5, <3>1, BeginningIs
    <3> HIDE DEF s
    <3>3. s = f
      BY DEF s, m
    <3> QED BY <3>1, <3>2, <3>3
  <2> HIDE DEF f
  <2>10. ToSet(<<>>) = {} /\ <<>> \in Seq(Refs) /\ Len(<<>>) = 0
    BY DEF ToSet
  <2>11. EntriesIn(f, Refs \ ToSet(<<>>)) = f
    <3>1. Refs \ ToSet(<<>>) = Refs
      BY <2>10
    <3>2. EntriesIn(f, Refs) = f
      BY <2>9, EntriesAll
    <3> QED BY <3>1, <3>2
  <2>12. list' \in Seq(Refs \cup {NoRef}) /\ Len(list') = n + 1
    <3>1. ASSUME NEW k \in 1..n + 1, k <= Len(l) PROVE l[k] \in Refs
      <4>1. k \in 1..Len(l)
        BY <2>8, <2>9, <3>1
      <4> QED BY <2>5, <4>1, ElementOfSeq
    <3> DEFINE m == n + 1
    <3>2. m \in Nat
      BY <2>8
    <3> HIDE DEF m
    <3>3. list' \in [1..m -> Refs \cup {NoRef}]
      BY <2>7, <3>1 DEF m
    <3>4. list' \in Seq(Refs \cup {NoRef}) /\ Len(list') = m
      BY <3>2, <3>3
    <3> QED BY <3>4 DEF m
  <2>13. ASSUME NEW k \in 1..Len(f) PROVE list'[k] = f[k]
    <3>1. k \in 1..n + 1 /\ k <= n /\ k <= Len(l)
      BY <2>8, <2>9
    <3> QED BY <2>7, <2>9, <3>1
  <2>14. InPlace(list', <<>>, f, n, Refs)
    <3>1. \A k \in 1..Len(f) : 0 + k = k
      BY <2>9
    <3> QED BY <2>8, <2>10, <2>12, <2>13, <3>1 DEF InPlace
  <2>15. InPlace(list', moved', EntriesIn(First', Refs' \ ToSet(moved')), cur'.active, Refs')
    BY <2>1, <2>6, <2>11, <2>14 DEF n
  <2> QED BY <2>3, <2>15 DEF ReorderInv
<1>3. CASE MoveShort
  <2>1. /\ lists # <<>> /\ Len(moved) < cur.active /\ UNCHANGED <<fs, cur, lists>>
        /\ \E op \in 0..1, abs_diff \in 1..MaxPicNum :
              LET n == NoWrap(op, abs_diff)
                  r == get_short_term_pic(PicNumLX(n))
              IN  /\ r # NoRef
                  /\ moved' = Append(moved, r)
                  /\ list' = reorder(list, Len(moved), r, {e \in Refs : ~fs[e[1]].long /\ pic_num(e) = PicNumLX(n)})
    BY <1>3 DEF MoveShort
  <2>2. PICK n : LET r == get_short_term_pic(n)
                 IN  /\ r # NoRef
                     /\ moved' = Append(moved, r)
                     /\ list' = reorder(list, Len(moved), r, {e \in Refs : ~fs[e[1]].long /\ pic_num(e) = n})
    BY <2>1
  <2> DEFINE r == get_short_term_pic(n)
  <2>3. SliceOK
    BY <2>1 DEF SliceInv
  <2>4. r \in Refs /\ {e \in Refs : ~fs[e[1]].long /\ pic_num(e) = n} = {r}
    BY <2>2, <2>3, ShortFound
  <2>5. moved' = Append(moved, r) /\ list' = reorder(list, Len(moved), r, {r})
    BY <2>2, <2>4
  <2> HIDE DEF r
  <2> QED BY <2>1, <2>4, <2>5, MoveKeeps
<1>4. CASE MoveLong
  <2>1. /\ lists # <<>> /\ Len(moved) < cur.active /\ UNCHANGED <<fs, cur, lists>>
        /\ \E n \in {long_term_pic_num(r) : r \in {q \in Refs : fs[q[1]].long}} :
              LET r == get_long_term_pic(n)
              IN  /\ moved' = Append(moved, r)
                  /\ list' = reorder(list, Len(moved), r, {e \in Refs : fs[e[1]].long /\ long_term_pic_num(e) = n})
    BY <1>4 DEF MoveLong
  <2>2. PICK n \in {long_term_pic_num(r) : r \in {q \in Refs : fs[q[1]].long}} :
              LET r == get_long_term_pic(n)
              IN  /\ moved' = Append(moved, r)
                  /\ list' = reorder(list, Len(moved), r, {e \in Refs : fs[e[1]].long /\ long_term_pic_num(e) = n})
    BY <2>1
  <2> DEFINE r == get_long_term_pic(n)
  <2>3. SliceOK
    BY <2>1 DEF SliceInv
  <2>4. r \in Refs /\ {e \in Refs : fs[e[1]].long /\ long_term_pic_num(e) = n} = {r}
    BY <2>3, LongFound
  <2>5. moved' = Append(moved, r) /\ list' = reorder(list, Len(moved), r, {r})
    BY <2>2, <2>4
  <2> HIDE DEF r
  <2> QED BY <2>1, <2>4, <2>5, MoveKeeps
<1>5. CASE UNCHANGED listVars
  <2>1. /\ fs' = fs /\ cur' = cur /\ lists' = lists /\ list' = list /\ moved' = moved
    BY <1>5 DEF listVars
  <2>2. Refs' = Refs /\ First' = First
    BY <2>1, SameSlice DEF First
  <2> QED BY <2>1, <2>2 DEF ReorderInv
<1> QED BY <1>1, <1>2, <1>3, <1>4, <1>5 DEF ListsNext

\* After any commands the pictures that they named stand first, in the order in
\* which they were named, and what remains of the initial list follows in its
\* own order, as far as the slice's list reaches.
THEOREM NamedPicturesComeFirst == ListsSpec => []MovedToFront
<1> DEFINE Inv == SliceInv /\ ReorderInv
<1>1. ListsInit => Inv
  BY SliceInvInit DEF ListsInit, ReorderInv
<1>2. Inv /\ [ListsNext]_listVars => Inv'
  BY SliceInvNext, ReorderInvNext
<1>3. Inv => MovedToFront
  <2> SUFFICES ASSUME SliceInv, ReorderInv, lists # <<>>
               PROVE  LET wanted == moved \o EntriesIn(First, Refs \ ToSet(moved))
                      IN  \A k \in 1..cur.active : k <= Len(wanted) => list[k] = wanted[k]
    BY DEF MovedToFront, First
  <2> DEFINE rest == EntriesIn(First, Refs \ ToSet(moved))
             wanted == moved \o rest
  <2>1. InPlace(list, moved, rest, cur.active, Refs) /\ cur.active \in Nat
    BY DEF ReorderInv, SliceInv
  <2>2. rest \in Seq(Refs)
    BY FirstIs, EntriesType
  <2> HIDE DEF rest
  <2>3. /\ moved \in Seq(Refs)
        /\ \A k \in 1..Len(moved) : list[k] = moved[k]
        /\ \A k \in 1..Len(rest) : Len(moved) + k <= cur.active => list[Len(moved) + k] = rest[k]
    BY <2>1 DEF InPlace
  <2>4. /\ Len(wanted) = Len(moved) + Len(rest) /\ Len(moved) \in Nat /\ Len(rest) \in Nat
        /\ \A i \in 1..Len(moved) : wanted[i] = moved[i]
        /\ \A i \in 1..Len(rest) : wanted[Len(moved) + i] = rest[i]
    BY <2>2, <2>3, ConcatIs
  <2> HIDE DEF wanted
  <2>5. ASSUME NEW k \in 1..cur.active, k <= Len(wanted) PROVE list[k] = wanted[k]
    <3>1. CASE k \in 1..Len(moved)
      BY <2>3, <2>4, <3>1
    <3>2. CASE k \notin 1..Len(moved)
      <4> DEFINE i == k - Len(moved)
      <4>1. i \in 1..Len(rest) /\ k = Len(moved) + i /\ Len(moved) + i <= cur.active
        BY <2>1, <2>4, <2>5, <3>2
      <4> HIDE DEF i
      <4> QED BY <2>3, <2>4, <4>1
    <3> QED BY <3>1, <3>2
  <2> QED BY <2>5 DEF wanted, rest
<1> HIDE DEF Inv
<1>4. ListsSpec => []Inv
  BY <1>1, <1>2, PTL DEF ListsSpec
<1> QED BY <1>3, <1>4, PTL
=============================================================================
