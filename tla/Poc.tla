--------------------------------- MODULE Poc ---------------------------------
(***************************************************************************)
(* decode_poc of the H.264 decoder (ldecod/src/header.c) for frames: how   *)
(* the picture order count is recovered from the few bits a slice header   *)
(* sends of it.  The stream keeps the complete counts; the decoder keeps   *)
(* its own, and must arrive at the same.  The offsets within a picture     *)
(* (delta_pic_order_cnt) are 0.                                            *)
(***************************************************************************)
EXTENDS Integers, Sequences

CONSTANTS
    Types,                      \* values of pic_order_cnt_type the stream uses
    MaxFrameNum,                \* frame_num counts modulo this
    MaxPicOrderCntLsb,          \* the low part of an order count is below this
    Unsigned,                   \* unsigned int counts modulo this; 2^32 in the program
    offset_for_ref_frame,       \* type 1: the cycle of the expected steps
    offset_for_non_ref_pic,     \* type 1
    Mmco5Types,                 \* those for which a picture may carry command 5
    NonRefAtWrap,               \* type 2: may a non-reference picture have frame_num 0?
    MaxAbs,                     \* bound: reference pictures between two resets
    MaxMsb                      \* bound: multiples of MaxPicOrderCntLsb reached

ASSUME TypesAssumption == Types \subseteq {0, 1, 2} /\ Mmco5Types \subseteq Types
ASSUME FrameNumAssumption == MaxFrameNum \in Nat /\ MaxFrameNum > 1
ASSUME LsbAssumption == MaxPicOrderCntLsb \in Nat \ {0} /\ MaxPicOrderCntLsb % 2 = 0
ASSUME UnsignedAssumption == Unsigned \in Nat /\ Unsigned > 2 * MaxPicOrderCntLsb
ASSUME OffsetsAssumption == offset_for_ref_frame \in Seq(Int) /\ offset_for_non_ref_pic \in Int
ASSUME BoundsAssumption == {MaxAbs, MaxMsb} \subseteq Nat
ASSUME FlagAssumption == NonRefAtWrap \in BOOLEAN

VARIABLES
    pic_order_cnt_type,             \* of the active sequence parameter set
    frame_num, abs, ref,            \* of the last picture: modulo, complete, reference?
    msb, lsb,                       \* order count of the last reference picture, in two parts
    intended,                       \* order count the stream gives the last picture
    PreviousFrameNum, PreviousFrameNumOffset,
    PrevPicOrderCntMsb, PrevPicOrderCntLsb,
    last_has_mmco_5, toppoc, framepoc

stream == <<pic_order_cnt_type, frame_num, abs, ref, msb, lsb, intended>>
decoder == <<PreviousFrameNum, PreviousFrameNumOffset, PrevPicOrderCntMsb, PrevPicOrderCntLsb,
             last_has_mmco_5, toppoc, framepoc>>
pocVars == <<stream, decoder>>

Half == MaxPicOrderCntLsb \div 2
Cycle == Len(offset_for_ref_frame)

-----------------------------------------------------------------------------
(* Type 0: the high part that brings the low part nearest to the last one. *)
Msb_half_is_lost(l, prevMsb, prevLsb) ==
    IF l < prevLsb /\ prevLsb - l > Half THEN prevMsb + MaxPicOrderCntLsb
    ELSE IF l > prevLsb /\ l - prevLsb > Half THEN prevMsb - MaxPicOrderCntLsb
    ELSE prevMsb

Msb(l, prevMsb, prevLsb) ==
    IF l < prevLsb /\ prevLsb - l >= Half THEN prevMsb + MaxPicOrderCntLsb
    ELSE IF l > prevLsb /\ l - prevLsb > Half THEN prevMsb - MaxPicOrderCntLsb
    ELSE prevMsb

(* Types 1 and 2: frame_num has wrapped if it is less than before.         *)
Offset(n, prevOffset, prevNum) ==
    IF n < prevNum THEN prevOffset + MaxFrameNum ELSE prevOffset

(* Type 1: the steps of whole cycles, then those of the one begun.         *)
SumTo[k \in 0..Cycle] == IF k = 0 THEN 0 ELSE SumTo[k - 1] + offset_for_ref_frame[k]

Expected(absFrameNum, disposable) ==
    LET counted == IF Cycle = 0 THEN 0 ELSE absFrameNum
        a == IF disposable /\ counted > 0 THEN counted - 1 ELSE counted
    IN  (IF a = 0 THEN 0
         ELSE ((a - 1) \div Cycle) * SumTo[Cycle] + SumTo[((a - 1) % Cycle) + 1])
        + (IF disposable THEN offset_for_non_ref_pic ELSE 0)

(* What the stream means by type 1, step by step.                          *)
Ideal[n \in Nat] == IF n = 0 \/ Cycle = 0 THEN 0
                    ELSE Ideal[n - 1] + offset_for_ref_frame[((n - 1) % Cycle) + 1]

PocInit == /\ pic_order_cnt_type \in Types
        /\ frame_num = 0 /\ abs = 0 /\ ref = TRUE /\ msb = 0 /\ lsb = 0 /\ intended = 0
        /\ PreviousFrameNum = 0 /\ PreviousFrameNumOffset = 0
        /\ PrevPicOrderCntMsb = 0 /\ PrevPicOrderCntLsb = 0
        /\ last_has_mmco_5 = FALSE /\ toppoc = 0 /\ framepoc = 0

(* An IDR picture with order count 0, which may bring another type.  Only  *)
(* what the new type uses is reset.                                        *)
Idr == /\ pic_order_cnt_type' \in Types
       /\ frame_num' = 0 /\ abs' = 0 /\ ref' = TRUE /\ msb' = 0 /\ lsb' = 0 /\ intended' = 0
       /\ PreviousFrameNum' = 0
       /\ IF pic_order_cnt_type' = 0
          THEN PrevPicOrderCntMsb' = 0 /\ PrevPicOrderCntLsb' = 0 /\ UNCHANGED PreviousFrameNumOffset
          ELSE PreviousFrameNumOffset' = 0 /\ UNCHANGED <<PrevPicOrderCntMsb, PrevPicOrderCntLsb>>
       /\ last_has_mmco_5' = FALSE /\ toppoc' = 0 /\ framepoc' = 0

-----------------------------------------------------------------------------
(* What decode_poc finds for a picture, and remembers of it.               *)
Poc0(n, l, r) ==
    LET prevMsb == IF last_has_mmco_5 THEN 0 ELSE PrevPicOrderCntMsb
        prevLsb == IF last_has_mmco_5 THEN toppoc % Unsigned ELSE PrevPicOrderCntLsb
        found == Msb(l, prevMsb, prevLsb)
    IN  /\ toppoc' = found + l
        /\ PrevPicOrderCntMsb' = IF r THEN found ELSE prevMsb
        /\ PrevPicOrderCntLsb' = IF r THEN l ELSE prevLsb
        /\ PreviousFrameNum' = n /\ UNCHANGED PreviousFrameNumOffset

PreviousOffset == IF last_has_mmco_5 THEN 0 ELSE PreviousFrameNumOffset
PreviousNum == IF last_has_mmco_5 THEN 0 ELSE PreviousFrameNum

Poc1(n, r) ==
    LET offset == Offset(n, PreviousOffset, PreviousNum)
    IN  /\ toppoc' = Expected(offset + n, ~r)
        /\ PreviousFrameNum' = n /\ PreviousFrameNumOffset' = offset
        /\ UNCHANGED <<PrevPicOrderCntMsb, PrevPicOrderCntLsb>>

Poc2(n, r) ==
    LET offset == Offset(n, PreviousOffset, PreviousNum)
    IN  /\ toppoc' = IF r THEN 2 * (offset + n) ELSE 2 * (offset + n) - 1
        /\ PreviousFrameNum' = IF r THEN n ELSE PreviousNum
        /\ PreviousFrameNumOffset' = offset
        /\ UNCHANGED <<PrevPicOrderCntMsb, PrevPicOrderCntLsb>>

decode_poc(n, l, r) == \/ pic_order_cnt_type = 0 /\ Poc0(n, l, r)
                       \/ pic_order_cnt_type = 1 /\ Poc1(n, r)
                       \/ pic_order_cnt_type = 2 /\ Poc2(n, r)

(* adaptive_memory_management: command 5 of a frame sets framepoc to 0 and *)
(* leaves toppoc.                                                          *)
EndOfPicture(m) == /\ last_has_mmco_5' = m
                   /\ framepoc' = IF m THEN 0 ELSE toppoc'

(* What a legal stream may send next.  Its order counts: type 0 moves by   *)
(* less than half the range from the last reference picture, types 1 and 2 *)
(* follow from the number; type 2 has no two non-reference pictures in a   *)
(* row.                                                                    *)
NextNumber == IF ~ref THEN frame_num ELSE IF frame_num + 1 = MaxFrameNum THEN 0 ELSE frame_num + 1
NextAbs == IF ref THEN abs + 1 ELSE abs

NextPoc(h, l, r) ==
    CASE pic_order_cnt_type = 0 -> h + l
      [] pic_order_cnt_type = 1 -> IF r THEN Ideal[NextAbs]
                                   ELSE Ideal[NextAbs - 1] + offset_for_non_ref_pic
      [] pic_order_cnt_type = 2 -> IF r THEN 2 * NextAbs ELSE 2 * NextAbs - 1

LegalCounts(h, l, r) ==
    /\ NextAbs <= MaxAbs
    /\ IF pic_order_cnt_type = 0
       THEN /\ h + l - (msb + lsb) \in 1 - Half..Half
            /\ h \in -(MaxMsb * MaxPicOrderCntLsb)..MaxMsb * MaxPicOrderCntLsb
       ELSE h = 0 /\ l = 0
    /\ (pic_order_cnt_type = 2 /\ ~r) => (ref /\ (NextNumber = 0 => NonRefAtWrap))

Picture(h, l, r, m) ==
    /\ LegalCounts(h, l, r) /\ (m => r /\ pic_order_cnt_type \in Mmco5Types)
    /\ UNCHANGED pic_order_cnt_type
    /\ decode_poc(NextNumber, l, r) /\ EndOfPicture(m)
    /\ IF m THEN /\ frame_num' = 0 /\ abs' = 0 /\ ref' = TRUE
                 /\ msb' = 0 /\ lsb' = 0 /\ intended' = 0
       ELSE /\ frame_num' = NextNumber /\ abs' = NextAbs /\ ref' = r
            /\ msb' = (IF r THEN h ELSE msb) /\ lsb' = (IF r THEN l ELSE lsb)
            /\ intended' = NextPoc(h, l, r)

PocNext == \/ Idr
        \/ \E h \in {msb - MaxPicOrderCntLsb, msb, msb + MaxPicOrderCntLsb},
              l \in 0..MaxPicOrderCntLsb - 1, r, m \in BOOLEAN :
              Picture(IF pic_order_cnt_type = 0 THEN h ELSE 0, IF pic_order_cnt_type = 0 THEN l ELSE 0, r, m)

PocSpec == PocInit /\ [][PocNext]_pocVars

-----------------------------------------------------------------------------
(* The order count the decoder computes is the one the stream means.       *)
PocCorrect == framepoc = intended
=============================================================================
