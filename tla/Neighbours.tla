------------------------------ MODULE Neighbours ------------------------------
(***************************************************************************)
(* Where the samples next to a macroblock are (mb_access.c, the same in    *)
(* the decoder and the encoder), and which edges the deblocking filter     *)
(* smooths with them (loopFilter.c).                                       *)
(*                                                                         *)
(* With macroblock adaptive frame field coding the macroblocks 2k and      *)
(* 2k + 1 are a pair of 2 * maxWH rows, which they share as upper and      *)
(* lower half or as even and odd rows; neighbours are found pair by pair.  *)
(***************************************************************************)
EXTENDS Integers, Sequences

CONSTANTS
    PicWidthInMbs,
    PicHeight,      \* in macroblocks, even
    MaxSliceNr,     \* number of the last slice
    LFDisableIdcs   \* values of disable_deblocking_filter_idc

ASSUME SizeAssumption == PicWidthInMbs \in Nat \ {0} /\ PicHeight \in Nat /\ PicHeight % 2 = 0

VARIABLES
    mbaff,          \* MbaffFrameFlag
    mb_data,        \* by address: [slice_nr, mb_field]; slice -1 is not decoded
    mbAvailA,       \* by address: what CheckAvailabilityOfNeighbors has left of the left side
    mbAvailB,       \* and of the upper one
    LFDisableIdc,   \* by slice
    current_mb_nr,  \* -1 before the first
    filtering,      \* DeblockPicture has begun
    edges           \* the pairs of samples <<q, p>> that DeblockMb has filtered across

neighbourVars == <<mbaff, mb_data, mbAvailA, mbAvailB, LFDisableIdc, current_mb_nr, filtering, edges>>

PicSizeInMbs == PicWidthInMbs * PicHeight
Addresses == 0..(PicSizeInMbs - 1)
Bottom(n) == n % 2 = 1
Field(n) == mbaff /\ mb_data[n].mb_field

NeighboursInit ==
    /\ mbaff = FALSE
    /\ mb_data = [n \in Addresses |-> [slice_nr |-> -1, mb_field |-> FALSE]]
    /\ mbAvailA = [n \in Addresses |-> FALSE] /\ mbAvailB = [n \in Addresses |-> FALSE]
    /\ LFDisableIdc = <<>>
    /\ current_mb_nr = -1
    /\ filtering = FALSE
    /\ edges = {}

----------------------------------------------------------------------------
(* mb_access.c. call is DeblockCall: 0 while decoding, 1 and 2 while        *)
(* filtering, when slices do not matter.                                    *)

mb_is_available(m, n, call) ==
    m \in Addresses /\ (call # 0 \/ mb_data[m].slice_nr = mb_data[n].slice_nr)

\* mbAddrA to mbAddrD and mbAvailA to mbAvailD: of a pair, its first macroblock.
CheckAvailabilityOfNeighbors(n, side, call) ==
    LET k == IF mbaff THEN n \div 2 ELSE n
        to == CASE side = "A" -> k - 1
                [] side = "B" -> k - PicWidthInMbs
                [] side = "C" -> k - PicWidthInMbs + 1
                [] side = "D" -> k - PicWidthInMbs - 1
        addr == IF mbaff THEN 2 * to ELSE to
        inside == CASE side \in {"A", "D"} -> k % PicWidthInMbs # 0
                    [] side = "C" -> (k + 1) % PicWidthInMbs # 0
                    [] OTHER -> TRUE
    IN  [addr |-> addr, avail |-> mb_is_available(addr, n, call) /\ inside]

NoPix == [available |-> FALSE]
Pix(available, mb_addr, x, y, maxWH) ==
    IF available THEN [available |-> TRUE, mb_addr |-> mb_addr, x |-> x % maxWH, y |-> y % maxWH] ELSE NoPix

getNonAffNeighbour(n, xN, yN, maxWH, call) ==
    LET In(k) == k \in 0..(maxWH - 1)
        To(side) == LET m == CheckAvailabilityOfNeighbors(n, side, call)
                    IN  Pix(m.avail, m.addr, xN, yN, maxWH)
    IN  IF xN < 0 /\ yN < 0             THEN To("D")
        ELSE IF xN < 0 /\ In(yN)        THEN To("A")
        ELSE IF In(xN) /\ yN < 0        THEN To("B")
        ELSE IF In(xN) /\ In(yN)        THEN Pix(TRUE, n, xN, yN, maxWH)
        ELSE IF xN >= maxWH /\ yN < 0   THEN To("C")
        ELSE NoPix

\* Mutant: the lower macroblock starts at the upper half of a field pair again.
Left_from_the_top(n, pair, yN, maxWH) ==
    IF Field(n) = Field(pair) THEN <<pair + (n % 2), yN>>
    ELSE IF Field(pair) THEN <<pair + (yN % 2), yN \div 2>>
    ELSE LET row == 2 * yN + (n % 2) IN <<pair + row \div maxWH, row % maxWH>>

\* The macroblock and its row, left of row yN: in the pair's first macroblock
\* or its second.
Left(n, pair, yN, maxWH) ==
    IF Field(n) = Field(pair) THEN <<pair + (n % 2), yN>>
    ELSE IF Field(pair)
    THEN <<pair + (yN % 2), (IF Bottom(n) THEN yN + maxWH ELSE yN) \div 2>>
    ELSE IF yN < maxWH \div 2 THEN <<pair, 2 * yN + (n % 2)>>
    ELSE <<pair + 1, 2 * yN + (n % 2) - maxWH>>

\* Above row 0, in the pair above, to its left or to its right.
Above(n, pair, yN) ==
    IF ~Field(n) \/ Bottom(n) THEN <<pair + 1, yN>>
    ELSE IF Field(pair) THEN <<pair, yN>> ELSE <<pair + 1, 2 * yN>>

\* Left of the row above a lower frame macroblock: half way down the pair.
LeftAbove(pair, yN, maxWH) ==
    IF Field(pair) THEN <<pair + 1, (yN + maxWH) \div 2>> ELSE <<pair, yN>>

getAffNeighbour(n, xN, yN, maxWH, call) ==
    LET m(side) == CheckAvailabilityOfNeighbors(n, side, call)
        To(side, at) == IF m(side).avail THEN Pix(TRUE, at[1], xN, at[2], maxWH) ELSE NoPix
        Up(side) == To(side, Above(n, m(side).addr, yN))
        lower == ~Field(n) /\ Bottom(n)
        inner == xN \in 0..(maxWH - 1)
    IN  IF yN >= maxWH \/ (xN >= maxWH /\ yN >= 0) THEN NoPix
        ELSE IF xN < 0
        THEN IF yN >= 0 THEN To("A", Left(n, m("A").addr, yN, maxWH))
             ELSE IF lower THEN To("A", LeftAbove(m("A").addr, yN, maxWH))
             ELSE Up("D")
        ELSE IF inner /\ yN >= 0
        THEN IF yN = 0 /\ call = 2 THEN Pix(TRUE, m("B").addr + 1, xN, yN - 1, maxWH)
             ELSE Pix(TRUE, n, xN, yN, maxWH)
        ELSE IF lower THEN (IF inner THEN Pix(TRUE, n - 1, xN, yN, maxWH) ELSE NoPix)
        ELSE IF ~inner THEN Up("C")
        ELSE IF call = 1 /\ ~Field(n) /\ m("B").avail /\ Field(m("B").addr) THEN To("B", <<m("B").addr, yN>>)
        ELSE Up("B")

getNeighbour(n, xN, yN, maxWH, call) ==
    IF mbaff THEN getAffNeighbour(n, xN, yN, maxWH, call) ELSE getNonAffNeighbour(n, xN, yN, maxWH, call)

----------------------------------------------------------------------------
(* loopFilter.c. *)

\* Where a sample of a macroblock lies in the picture.
Position(n, x, y, maxWH) ==
    LET k == IF mbaff THEN n \div 2 ELSE n
        row == IF ~mbaff THEN y ELSE IF Field(n) THEN 2 * y + (n % 2) ELSE (n % 2) * maxWH + y
    IN  <<(k % PicWidthInMbs) * maxWH + x,
          (k \div PicWidthInMbs) * (IF mbaff THEN 2 * maxWH ELSE maxWH) + row>>

\* The edges of the macroblock itself, a row of samples for the left one and a
\* column for the upper one. Between a frame macroblock and a field pair above
\* it there are two, and the second one begins in row 1. For idc 2 the flags are
\* those that decoding left.
Deblocked(n, idc) ==
    LET at == Position(n, 0, 0, 16)
        row == IF mbaff THEN 2 * ((n \div 2) \div PicWidthInMbs) + (n % 2) ELSE n \div PicWidthInMbs
        left == IF idc = 2 THEN mbAvailA[n] ELSE at[1] # 0
        top == IF idc = 2 THEN mbAvailB[n] ELSE row # 0 /\ ~(row = 1 /\ Field(n))
        Edge(q, pix) == <<Position(n, q[1], q[2], 16), Position(pix.mb_addr, pix.x, pix.y, 16)>>
        p == getNeighbour(n, 0, -1, 16, 1)
        mixed == ~Field(n) /\ Field(p.mb_addr)
    IN  IF idc = 1 THEN {}
        ELSE (IF left THEN {Edge(<<0, y>>, getNeighbour(n, -1, y, 16, 1)) : y \in 0..15} ELSE {})
             \cup (IF top THEN {Edge(<<0, 0>>, p)} ELSE {})
             \cup (IF top /\ mixed THEN {Edge(<<0, 1>>, getNeighbour(n, 0, 0, 16, 2))} ELSE {})

DeblockMb(n) == Deblocked(n, LFDisableIdc[mb_data[n].slice_nr + 1])

----------------------------------------------------------------------------
(* The macroblocks of a picture, slice by slice. *)

Decoded == {n \in Addresses : mb_data[n].slice_nr # -1}

ChooseMbaff ==
    /\ current_mb_nr = -1 /\ ~mbaff
    /\ mbaff' = TRUE
    /\ UNCHANGED <<mb_data, mbAvailA, mbAvailB, LFDisableIdc, current_mb_nr, filtering, edges>>

InSlice(n, slice_nr) ==
    /\ n \in Addresses \ Decoded
    /\ \E field \in BOOLEAN :
        /\ field => mbaff
        /\ mbaff /\ Bottom(n) => field = mb_data[n - 1].mb_field
        /\ mb_data' = [mb_data EXCEPT ![n] = [slice_nr |-> slice_nr, mb_field |-> field]]
    /\ current_mb_nr' = n
    /\ UNCHANGED <<mbaff, filtering, edges>>

\* Mutant: the neighbours are looked for before the macroblock has its slice.
DecodeMacroblock_looks_first(n, slice_nr) ==
    /\ InSlice(n, slice_nr)
    /\ mbAvailA' = [mbAvailA EXCEPT ![n] = CheckAvailabilityOfNeighbors(n, "A", 0).avail]
    /\ mbAvailB' = [mbAvailB EXCEPT ![n] = CheckAvailabilityOfNeighbors(n, "B", 0).avail]

\* The macroblock gets its slice, and then CheckAvailabilityOfNeighbors looks for
\* those of the same slice.
DecodeMacroblock(n, slice_nr) ==
    /\ InSlice(n, slice_nr)
    /\ mbAvailA' = [m \in Addresses |-> IF m = n THEN CheckAvailabilityOfNeighbors(m, "A", 0)'.avail ELSE mbAvailA[m]]
    /\ mbAvailB' = [m \in Addresses |-> IF m = n THEN CheckAvailabilityOfNeighbors(m, "B", 0)'.avail ELSE mbAvailB[m]]

\* The first macroblock of a slice: anywhere, but with MBAFF at the next pair.
StartMbSlice ==
    /\ ~filtering /\ Len(LFDisableIdc) <= MaxSliceNr
    /\ \E idc \in LFDisableIdcs : LFDisableIdc' = Append(LFDisableIdc, idc)
    /\ \E n \in Addresses :
        /\ mbaff => n = current_mb_nr + 1 /\ ~Bottom(n)
        /\ DecodeMacroblock(n, Len(LFDisableIdc))

\* The next one of the slice.
start_macroblock ==
    /\ ~filtering /\ current_mb_nr # -1
    /\ DecodeMacroblock(current_mb_nr + 1, Len(LFDisableIdc) - 1)
    /\ UNCHANGED LFDisableIdc

\* Once its edges are known DeblockMb looks for the neighbours of any slice, and
\* leaves the flags so.
LeaveFlags(n) ==
    IF LFDisableIdc[mb_data[n].slice_nr + 1] = 1 THEN UNCHANGED <<mbAvailA, mbAvailB>>
    ELSE /\ mbAvailA' = [mbAvailA EXCEPT ![n] = CheckAvailabilityOfNeighbors(n, "A", 1).avail]
         /\ mbAvailB' = [mbAvailB EXCEPT ![n] = CheckAvailabilityOfNeighbors(n, "B", 1).avail]

\* The next macroblock of DeblockPicture.
DeblockPicture ==
    /\ Decoded = Addresses
    /\ LET n == IF filtering THEN current_mb_nr + 1 ELSE 0
       IN  /\ n \in Addresses
           /\ current_mb_nr' = n
           /\ edges' = DeblockMb(n)
           /\ LeaveFlags(n)
    /\ filtering' = TRUE
    /\ UNCHANGED <<mbaff, mb_data, LFDisableIdc>>

NeighboursNext == ChooseMbaff \/ StartMbSlice \/ start_macroblock \/ DeblockPicture

NeighboursSpec == NeighboursInit /\ [][NeighboursNext]_neighbourVars

----------------------------------------------------------------------------
\* The macroblock that holds the sample at p, if p is in the picture.
MbAt(p, maxWH) ==
    LET col == p[1] \div maxWH
        row == p[2] \div maxWH
        pair == 2 * ((row \div 2) * PicWidthInMbs + col)
    IN  IF col \notin 0..(PicWidthInMbs - 1) \/ row \notin 0..(PicHeight - 1) THEN -1
        ELSE IF ~mbaff THEN row * PicWidthInMbs + col
        ELSE IF Field(pair) THEN pair + (p[2] % 2) ELSE pair + (row % 2)

\* getNeighbour leads to the sample that lies at the place asked for, in the
\* frame or in the field of the macroblock, whether the pairs are of frames or
\* of fields; and it is available just when it is decoded and of the same slice.
NeighboursAdjoin ==
    current_mb_nr # -1 /\ ~filtering =>
        \A maxWH \in {8, 16} : \A xN \in {-1, 3, maxWH}, yN \in {-1, 0, 1, maxWH \div 2 - 1, maxWH \div 2, maxWH - 1} :
            LET n == current_mb_nr
                pix == getNeighbour(n, xN, yN, maxWH, 0)
                p == Position(n, xN, yN, maxWH)
                m == MbAt(p, maxWH)
            IN  /\ pix.available <=> m # -1 /\ mb_data[m].slice_nr = mb_data[n].slice_nr
                /\ pix.available => pix.mb_addr = m /\ Position(m, pix.x, pix.y, maxWH) = p

\* The filter smooths across every edge with a decoded macroblock next to it,
\* of any slice or only of its own, between samples that adjoin in the frame,
\* or in a field where one of the two is a field macroblock. Only the edge inside
\* a pair is left out too when the pair above is of another slice.
EdgesFiltered ==
    filtering =>
        LET n == current_mb_nr
            idc == LFDisableIdc[mb_data[n].slice_nr + 1]
            Allowed(m) == m # -1 /\ idc # 1 /\ (idc = 2 => mb_data[m].slice_nr = mb_data[n].slice_nr)
            leftmost == MbAt(Position(n, -1, 0, 16), 16)
            up == MbAt(Position(n, 0, -1, 16), 16)
            fields == Field(n) \/ (up # -1 /\ Field(up))
            hidden == mbaff /\ Bottom(n) /\ ~Field(n) /\ idc = 2 /\ ~CheckAvailabilityOfNeighbors(n, "B", 0).avail
            step == IF fields THEN 2 ELSE 1
            Across(y, dx, dy) == LET q == Position(n, 0, y, 16) IN <<q, <<q[1] + dx, q[2] + dy>>>>
        IN  edges = (IF Allowed(leftmost) THEN {Across(y, -1, 0) : y \in 0..15} ELSE {})
                    \cup (IF Allowed(up) /\ ~hidden THEN {Across(0, 0, -step)} ELSE {})
                    \cup (IF Allowed(up) /\ ~hidden /\ fields /\ ~Field(n) THEN {Across(1, 0, -step)} ELSE {})
=============================================================================
