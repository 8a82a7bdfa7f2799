---------------------------- MODULE MacroblockLayout ----------------------------
(***************************************************************************)
(* What the encoder and the decoder both know of macroblocks (defines.h,   *)
(* mb_access.c, blc_size and BLOCK_STEP): their types, their blocks, which *)
(* ones are next to each other. Pictures of frame macroblocks, MbsPerRow   *)
(* in a row. M is a function from addresses to macroblocks; a place is     *)
(* <<address, block>>, of address None where there is no macroblock of the *)
(* same slice.                                                             *)
(***************************************************************************)
EXTENDS VariableLength

CONSTANT MbsPerRow

P8x8 == 8
I4MB == 9
I16MB == 10
IBLOCK == 11
None == -1

Intra(mb) == mb.mb_type \in {I4MB, I16MB}
IS_INTERMV(mb) == mb.mb_type \notin {0, I4MB, I16MB}

One(condition) == IF condition THEN 1 ELSE 0
Magnitude(v) == IF v < 0 THEN -v ELSE v
HasBit(v, k) == (v \div 2^k) % 2 = 1

MbLeft(M, n) == IF n % MbsPerRow # 0 /\ M[n - 1].slice_nr = M[n].slice_nr THEN n - 1 ELSE None
MbUp(M, n) == IF n >= MbsPerRow /\ M[n - MbsPerRow].slice_nr = M[n].slice_nr THEN n - MbsPerRow ELSE None

\* How many of the two neighbours of macroblock n are of a kind.
Beside(M, n, kind) == Cardinality({k \in {<<"left", MbLeft(M, n)>>, <<"up", MbUp(M, n)>>} : k[2] \in kind})

\* getLuma4x4Neighbour and getChroma4x4Neighbour: of block b, of w * w in raster order.
PlaceLeft(M, n, b, w) == IF b % w # 0 THEN <<n, b - 1>> ELSE <<MbLeft(M, n), b + w - 1>>
PlaceUp(M, n, b, w) == IF b >= w THEN <<n, b - w>> ELSE <<MbUp(M, n), b + w * (w - 1)>>

\* The 8x8 block with a 4x4 block; the 4x4 blocks of all the 8x8 blocks in the order they are coded.
B8(b) == 2 * (b \div 8) + ((b % 4) \div 2)
ByB8 == [k \in 1..16 |-> LET b8 == (k - 1) \div 4
                             b4 == (k - 1) % 4
                         IN  8 * (b8 \div 2) + 2 * (b8 % 2) + 4 * (b4 \div 2) + (b4 % 2)]

\* Width and height of a partition, in 4x4 blocks, by its mode.
BLOCK_STEP == <<<<4, 4>>, <<4, 2>>, <<2, 4>>, <<2, 2>>, <<2, 1>>, <<1, 2>>, <<1, 1>>>>

\* The blocks at which the partitions of such a size begin, in an area of blocks that begins at b.
Starts(b, area, step) ==
    LET Begins(i, j) == i \in 0..(area[1] - 1) /\ j \in 0..(area[2] - 1) /\ i % step[1] = 0 /\ j % step[2] = 0
    IN  SelectSeq([k \in 1..16 |-> k - 1], LAMBDA c : Begins((c % 4) - (b % 4), (c \div 4) - (b \div 4)))
Covered(b, step) == {b + 4 * j + i : i \in 0..(step[1] - 1), j \in 0..(step[2] - 1)}

OfMacroblock == [m \in 1..4 |-> Starts(0, <<4, 4>>, BLOCK_STEP[m])]
PartitionMode(mb) == IF mb.mb_type = P8x8 THEN 4 ELSE mb.mb_type

\* The partitions of the macroblock that have a reference in a list, and the blocks where their vectors begin.
HasVector(mb, l, b) == mb.b8pdir[B8(b)] \in {l, 2} /\ mb.b8mode[B8(b)] # 0
Partitions(mb, l) == SelectSeq(OfMacroblock[PartitionMode(mb)], LAMBDA b : HasVector(mb, l, b))
SubPartitions(mb, b) == Starts(b, BLOCK_STEP[PartitionMode(mb)], BLOCK_STEP[mb.b8mode[B8(b)]])

\* A block of coefficients: its type, the bit of cbp_bits it has (first + b), its place in w * w blocks.
Coefficients(type, first, b, w) == [type |-> type, first |-> first, b |-> b, w |-> w]
Luma16DC == Coefficients(0, 0, 0, 1)
Luma16AC(b) == Coefficients(1, 1, b, 4)
Luma4x4(b) == Coefficients(5, 1, b, 4)
ChromaDC(uv) == Coefficients(6, 17 + uv, 0, 1)
ChromaAC(uv, b) == Coefficients(7, 19 + 4 * uv, b, 2)

\* By the type of a block: its number of coefficients, and whether the first is the constant one.
maxpos(type) == CASE type \in {0, 5} -> 16 [] type \in {1, 7} -> 15 [] type = 6 -> 4
c1isdc(type) == type \notin {1, 7}

\* Without CABAC, the coefficients of a partitioned slice are in partitions of their own, the rest in partition 0.
assignSE2partition(mb, s) == IF ~s.partitioned THEN 0 ELSE IF Intra(mb) THEN 1 ELSE 2

\* From few coefficients around a block to many.
TableOf(nnz) == CASE nnz < 2 -> 0 [] nnz \in 2..3 -> 1 [] nnz \in 4..7 -> 2 [] OTHER -> 3

\* The table of the next level, by the greatest level that leaves it the same; that of the first level is not kept.
incVlc == <<0, 3, 6, 12, 24, 48, 32768>>
NextTable(vlcnum, levabs, first) == IF first /\ levabs > 3 THEN 2 ELSE vlcnum + One(levabs > incVlc[vlcnum + 1])

\* The tables of the first level and of a run.
FirstTable(numcoeff, trailing) == One(numcoeff > 10 /\ trailing < 3)
RunTable(zerosleft) == Min({zerosleft, 7}) - 1

\* Is the first level, that would have been a trailing one if it were one, coded as one less?
level_two_or_higher(numcoeff, trailing) == ~(numcoeff > 3 /\ trailing = 3)
=============================================================================
