---------------------------- MODULE MacroblockWriter ----------------------------
(***************************************************************************)
(* How the encoder writes a macroblock (lencod: macroblock.c, cabac.c,     *)
(* vlc.c): with CABAC, the decisions of its syntax elements in their       *)
(* order, each in a context that depends on the neighbours; without        *)
(* (CAVLC), their code words, each with the number of its partition. M has *)
(* the macroblocks of the picture up to the one that is written, n; s has  *)
(* the slice type, the sizes of the two reference lists, and whether       *)
(* CAVLC is used, the slice partitioned, intra prediction constrained.     *)
(***************************************************************************)
EXTENDS MacroblockLayout

\* An element other than a block of coefficients, in either way.
Element(s, bits, decisions) == IF s.cavlc THEN <<<<0, bits>>>> ELSE decisions

I16Offset(cbp, i16mode) == (IF cbp % 16 # 0 THEN 13 ELSE 1) + i16mode + 4 * (cbp \div 16)

Dir2Offset == <<<<0, 4, 8>>, <<6, 2, 10>>, <<12, 14, 16>>>>

ZeroRef(mb) == \A b \in 0..15 : mb.ref[0][b] = 0

MBType2Value(mb, s) ==
    LET type == s.type
        intra == CASE type = "I" -> 0 [] type = "P" -> 6 [] type = "B" -> 23
        pair == Dir2Offset[mb.b8pdir[0] + 1][mb.b8pdir[3] + 1]
    IN  CASE mb.mb_type = I4MB -> intra
          [] mb.mb_type = I16MB -> intra + I16Offset(mb.cbp, mb.i16mode)
          [] mb.mb_type = P8x8 -> IF type = "B" THEN 22 ELSE IF s.cavlc /\ ZeroRef(mb) THEN 5 ELSE 4
          [] mb.mb_type = 0 -> 0
          [] mb.mb_type \in 1..3 /\ type = "P" -> mb.mb_type
          [] mb.mb_type = 1 /\ type = "B" -> 1 + mb.b8pdir[0]
          [] mb.mb_type \in 2..3 /\ type = "B" -> 2 + mb.mb_type + pair

B8Mode2Value(mode, pdir, type) ==
    CASE type = "P" -> mode - 4
      [] type = "B" /\ mode = 0 -> 0
      [] type = "B" /\ mode # 0 -> <<1, 4, 5, 10>>[mode - 3] + <<1, 2, 2, 1>>[mode - 3] * pdir

----------------------------------------------------------------------------
(* The header. *)

\* skip_flag is 0 when a macroblock is skipped.
writeMB_skip_flagInfo_CABAC(M, n, type) ==
    LET around == Beside(M, n, {m \in DOMAIN M : M[m].skip_flag # 0})
        place == IF type = "B" THEN <<2, 7 + around>> ELSE <<1, around>>
    IN  Coded("mb_type", place[1], <<<<place[2], 1 - M[n].skip_flag>>>>)

writeMB_typeInfo_CABAC(M, n, type, v) ==
    CASE type = "I" -> IntraMbType(Beside(M, n, {m \in DOMAIN M : M[m].mb_type # I4MB}), v)
      [] type = "P" -> PMbType(v)
      [] type = "B" -> BMbType(Beside(M, n, {m \in DOMAIN M : M[m].mb_type # 0}), v)

writeB8Type(mb, b8, s) ==
    LET v == B8Mode2Value(mb.b8mode[b8], mb.b8pdir[b8], s.type)
    IN  Element(s, ue_linfo(v), IF s.type = "B" THEN BB8Type(v) ELSE PB8Type(v))

\* The mode of a neighbour, of which the lower one is the most probable; the sixteen modes relative to it.
NeighbourMode(M, place, constrained) ==
    IF place[1] = None \/ (constrained /\ ~Intra(M[place[1]])) THEN None ELSE M[place[1]].ipredmode[place[2]]

intra_pred_modes(M, n, b, constrained) ==
    LET two == {NeighbourMode(M, PlaceLeft(M, n, b, 4), constrained), NeighbourMode(M, PlaceUp(M, n, b, 4), constrained)}
        mostProbable == IF None \in two THEN 2 ELSE Min(two)
        best == M[n].ipredmode[b]
    IN  IF best = mostProbable THEN -1 ELSE IF best < mostProbable THEN best ELSE best - 1

writeIntraPredMode_CABAC(v) ==
    Coded("ipr", 0, IF v = -1 THEN <<<<0, 1>>>> ELSE <<<<0, 0>>, <<1, Bit(v, 0)>>, <<1, Bit(v, 1)>>, <<1, Bit(v, 2)>>>>)

writeIntra4x4Modes(M, n, s) ==
    LET Mode(v) == Element(s, IF v = -1 THEN <<1>> ELSE Codeword(4, v), writeIntraPredMode_CABAC(v))
    IN  FlattenSeq([k \in 1..16 |->
            IF M[n].b8mode[(k - 1) \div 4] = IBLOCK THEN Mode(intra_pred_modes(M, n, ByB8[k], s.constrained)) ELSE <<>>])

writeCIPredMode_CABAC(M, n) ==
    LET ctx == Beside(M, n, {m \in DOMAIN M : M[m].c_ipred_mode # 0})
        v == M[n].c_ipred_mode
    IN  Coded("cipr", 0, <<<<ctx, One(v # 0)>>>>)
            \o IF v = 0 THEN <<>> ELSE unary_bin_encode(<<<<"cipr", 0, 3>>>>, v - 1, 2)

\* One bit stands for the run of skipped macroblocks of CAVLC, which is SliceCoding's. The type is one less in P slices then.
HeaderOfMb(M, n, s) ==
    LET mb == M[n]
        skipped == mb.mb_type = 0 /\ (s.type = "B" => mb.cbp = 0)
        v == MBType2Value(mb, s)
    IN  (IF s.type = "I" THEN <<>> ELSE Element(s, <<One(~skipped)>>, writeMB_skip_flagInfo_CABAC(M, n, s.type)))
        \o (IF skipped THEN <<>> ELSE Element(s, ue_linfo(v - One(s.type = "P")), writeMB_typeInfo_CABAC(M, n, s.type, v)))
        \o (IF mb.mb_type = P8x8 THEN FlattenSeq([k \in 1..4 |-> writeB8Type(mb, k - 1, s)]) ELSE <<>>)
        \o writeIntra4x4Modes(M, n, s)
        \o (IF Intra(mb) THEN Element(s, ue_linfo(mb.c_ipred_mode), writeCIPredMode_CABAC(M, n)) ELSE <<>>)

----------------------------------------------------------------------------
(* References and vectors. *)

\* Is the reference at a place, of a macroblock or block that is not direct, not the first one?
LaterReference(M, place, l, type) ==
    /\ place[1] # None
    /\ type = "B" => M[place[1]].mb_type # 0 /\ M[place[1]].b8mode[B8(place[2])] # 0
    /\ M[place[1]].ref[l][place[2]] > 0

writeRefFrame_CABAC(M, n, l, b, type) ==
    LET ctx == One(LaterReference(M, PlaceLeft(M, n, b, 4), l, type))
               + 2 * One(LaterReference(M, PlaceUp(M, n, b, 4), l, type))
        v == M[n].ref[l][b]
    IN  Coded("ref_no", 0, <<<<ctx, One(v # 0)>>>>)
            \o IF v = 0 THEN <<>> ELSE unary_bin_encode(<<<<"ref_no", 0, 4>>, <<"ref_no", 0, 5>>>>, v - 1, v)

\* Of two references, one bit says which.
writeReferenceFrame(M, n, l, b, s) ==
    LET ref == M[n].ref[l][b]
    IN  IF s.listXsize[l] = 1 THEN <<>>
        ELSE Element(s, IF s.listXsize[l] = 2 THEN <<1 - ref>> ELSE ue_linfo(ref), writeRefFrame_CABAC(M, n, l, b, s.type))

absMvd(M, place, l, k) == IF place[1] = None THEN 0 ELSE Magnitude(M[place[1]].mvd[l][place[2]][k + 1])

writeMVD_CABAC(M, n, l, b, k) ==
    LET sum == absMvd(M, PlaceLeft(M, n, b, 4), l, k) + absMvd(M, PlaceUp(M, n, b, 4), l, k)
        ctx == 5 * k + (IF sum < 3 THEN 0 ELSE IF sum > 32 THEN 3 ELSE 2)
        v == M[n].mvd[l][b][k + 1]
    IN  Coded("mv_res", 0, <<<<ctx, One(v # 0)>>>>)
            \o IF v = 0 THEN <<>>
               ELSE unary_exp_golomb_mv_encode([c \in 1..4 |-> <<"mv_res", 1, 5 * k + c - 1>>], Magnitude(v) - 1)
                        \o <<<<Equal, One(v < 0)>>>>

writeMotionVector8x8(M, n, l, b, s) ==
    LET begins == SubPartitions(M[n], b)
        Component(c, k) == Element(s, se_linfo(M[n].mvd[l][c][k + 1]), writeMVD_CABAC(M, n, l, c, k))
    IN  FlattenSeq([i \in DOMAIN begins |-> Component(begins[i], 0) \o Component(begins[i], 1)])

writeMotionInfo2NAL(M, n, s) ==
    LET Ref(l) == LET p == Partitions(M[n], l) IN FlattenSeq([i \in DOMAIN p |-> writeReferenceFrame(M, n, l, p[i], s)])
        Mv(l) == LET p == Partitions(M[n], l) IN FlattenSeq([i \in DOMAIN p |-> writeMotionVector8x8(M, n, l, p[i], s)])
        inType == s.cavlc /\ s.type = "P" /\ M[n].mb_type = P8x8 /\ ZeroRef(M[n])   \* the type says that they are all the first
    IN  IF IS_INTERMV(M[n])
        THEN (IF inType THEN <<>> ELSE Ref(0) \o Ref(1)) \o Mv(0) \o (IF s.type = "B" THEN Mv(1) ELSE <<>>) ELSE <<>>

----------------------------------------------------------------------------
(* The coded block pattern, the change of the quantiser, the coefficients. *)

\* Is there a macroblock at the place whose 8x8 block is not coded?
NotCoded(M, place) == place[1] # None /\ ~HasBit(M[place[1]].cbp, place[2])

writeCBP_BIT_CABAC(M, n, b8) ==
    <<One(NotCoded(M, PlaceLeft(M, n, b8, 2))) + 2 * One(NotCoded(M, PlaceUp(M, n, b8, 2))), Bit(M[n].cbp, b8)>>

\* One for the left neighbour of a kind, two for the upper one.
LeftAndUp(M, n, kind) == One(MbLeft(M, n) \in kind) + 2 * One(MbUp(M, n) \in kind)

writeCBP_CABAC(M, n) ==
    LET cbp == M[n].cbp
    IN  Coded("cbp", 0, [k \in 1..4 |-> writeCBP_BIT_CABAC(M, n, k - 1)])
        \o Coded("cbp", 1, <<<<LeftAndUp(M, n, {m \in DOMAIN M : M[m].cbp > 15}), One(cbp > 15)>>>>)
        \o (IF cbp > 15
            THEN Coded("cbp", 2, <<<<LeftAndUp(M, n, {m \in DOMAIN M : M[m].cbp \div 16 = 2}), One(cbp \div 16 = 2)>>>>)
            ELSE <<>>)

\* prev_delta_qp is the change at the macroblock before (start_macroblock).
writeDquant_CABAC(M, n) ==
    LET prev_delta_qp == IF n = 0 THEN 0 ELSE M[n - 1].delta_qp
        v == M[n].delta_qp
        sym == 2 * Magnitude(v) + One(v <= 0) - 1
    IN  Coded("delta_qp", 0, <<<<One(prev_delta_qp # 0), One(sym # 0)>>>>)
            \o IF sym = 0 THEN <<>> ELSE unary_bin_encode(<<<<"delta_qp", 0, 2>>, <<"delta_qp", 0, 3>>>>, sym - 1, sym)

\* is_intra_block counts where there is no neighbour.
HasCoefficients(M, place, block, is_intra_block) ==
    IF place[1] = None THEN is_intra_block ELSE block.first + place[2] \in M[place[1]].cbp_bits

write_and_store_CBP_block_bit(M, n, block, is_intra_block) ==
    LET Has(place) == One(HasCoefficients(M, place, block, is_intra_block))
        ctx == 2 * Has(PlaceUp(M, n, block.b, block.w)) + Has(PlaceLeft(M, n, block.b, block.w))
    IN  Coded("bcbp", block.type, <<<<ctx, One(block.first + block.b \in M[n].cbp_bits)>>>>)

\* Up to the last coefficient; that the last position has one need not be said.
write_significance_map(type, coeff) ==
    LET last == CHOOSE k \in DOMAIN coeff : coeff[k] # 0 /\ \A j \in (k + 1)..Len(coeff) : coeff[j] = 0
        shift == IF c1isdc(type) THEN 1 ELSE 0
        Significance(k) ==
            <<<<<<"map", type, Min({k - shift, 14})>>, One(coeff[k] # 0)>>>>
            \o IF coeff[k] = 0 THEN <<>> ELSE <<<<<<"last", type, k - shift>>, One(k = last)>>>>
    IN  FlattenSeq([k \in 1..Min({last, Len(coeff) - 1}) |-> Significance(k)])

\* The levels from coefficient i down to the first: c1 counts those that are one, c2 the greater ones.
RECURSIVE write_significant_coefficients(_, _, _, _, _)
write_significant_coefficients(type, coeff, i, c1, c2) ==
    LET level == Magnitude(coeff[i])
        one == <<<<<<"one", type, Min({c1, 4})>>, One(level > 1)>>>>
        sign == <<<<Equal, One(coeff[i] < 0)>>>>
    IN  IF i = 0 THEN <<>>
        ELSE IF coeff[i] = 0 THEN write_significant_coefficients(type, coeff, i - 1, c1, c2)
        ELSE IF level > 1
        THEN one \o unary_exp_golomb_level_encode(<<"abs", type, Min({c2, 4})>>, level - 2) \o sign
                 \o write_significant_coefficients(type, coeff, i - 1, 0, c2 + 1)
        ELSE one \o sign \o write_significant_coefficients(type, coeff, i - 1, IF c1 = 0 THEN 0 ELSE c1 + 1, c2)

writeRunLevel_CABAC(M, n, block, is_intra_block) ==
    LET coeff == M[n].coeff[block.first + block.b]
    IN  write_and_store_CBP_block_bit(M, n, block, is_intra_block)
        \o IF block.first + block.b \notin M[n].cbp_bits THEN <<>>
           ELSE write_significance_map(block.type, coeff) \o write_significant_coefficients(block.type, coeff, Len(coeff), 1, 0)

\* The number of coefficients of a block, about as many as its two neighbours have.
nz_coeff(M, place, first) ==
    LET bit == first + place[2]
    IN  IF place[1] = None \/ bit \notin DOMAIN M[place[1]].coeff THEN 0
        ELSE LET coeff == M[place[1]].coeff[bit] IN Cardinality({k \in DOMAIN coeff : coeff[k] # 0})

predict_nnz(M, n, block) ==
    LET left == PlaceLeft(M, n, block.b, block.w)
        up == PlaceUp(M, n, block.b, block.w)
        sum == nz_coeff(M, left, block.first) + nz_coeff(M, up, block.first)
    IN  IF left[1] # None /\ up[1] # None THEN (sum + 1) \div 2 ELSE sum

\* The levels from number k down to the first; two is level_two_or_higher.
RECURSIVE writeLevels(_, _, _, _)
writeLevels(levels, k, vlcnum, two) ==
    LET first == k = Len(levels)
        level == levels[k] - (IF first /\ two THEN IF levels[k] > 0 THEN 1 ELSE -1 ELSE 0)
    IN  IF k = 0 THEN <<>>
        ELSE (IF vlcnum = 0 THEN Level_VLC1(level) ELSE Level_VLCN(level, vlcnum))
                 \o writeLevels(levels, k - 1, NextTable(vlcnum, Magnitude(levels[k]), first), two)

\* At has the positions of the coefficients: the zeros before each, from the last one down while there are any.
writeRuns(at) ==
    LET Before(k) == IF at[k] = k THEN <<>> ELSE Run(RunTable(at[k] - k), at[k] - at[k - 1] - 1)
    IN  FlattenSeq([j \in 1..(Len(at) - 1) |-> Before(Len(at) + 1 - j)])

\* The table of the number of coefficients is chosen at the first block for the constant ones of luma.
writeCoeff4x4_CAVLC(M, n, block) ==
    LET bit == block.first + block.b
        coeff == IF bit \in DOMAIN M[n].coeff THEN M[n].coeff[bit] ELSE <<>>
        at == SelectSeq([k \in DOMAIN coeff |-> k], LAMBDA k : coeff[k] # 0)
        numcoeff == Len(at)
        levels == [k \in 1..numcoeff |-> coeff[at[k]]]
        trailing == Max({t \in 0..Min({3, numcoeff}) : \A k \in 0..(t - 1) : Magnitude(levels[numcoeff - k]) = 1})
        token == IF block.type = 6 THEN NumCoeffTrailingOnesChromaDC(numcoeff, trailing)
                 ELSE NumCoeffTrailingOnes(TableOf(predict_nnz(M, n, IF block.type = 0 THEN Luma16AC(0) ELSE block)), numcoeff, trailing)
        signs == [k \in 1..trailing |-> One(levels[numcoeff + 1 - k] < 0)]
        greater == SubSeq(levels, 1, numcoeff - trailing)
        totzeros == Last(at) - numcoeff
        zeros == CASE numcoeff = maxpos(block.type) -> <<>>
                   [] numcoeff < maxpos(block.type) /\ block.type = 6 -> TotalZerosChromaDC(numcoeff - 1, totzeros)
                   [] OTHER -> TotalZeros(numcoeff - 1, totzeros)
    IN  IF numcoeff = 0 THEN token
        ELSE token \o signs \o writeLevels(greater, Len(greater), FirstTable(numcoeff, trailing), level_two_or_higher(numcoeff, trailing))
                 \o zeros \o writeRuns(at)

writeBlocks(M, n, blocks, is_intra_block, s) ==
    LET Block(block) == IF s.cavlc THEN <<<<assignSE2partition(M[n], s), writeCoeff4x4_CAVLC(M, n, block)>>>>
                        ELSE writeRunLevel_CABAC(M, n, block, is_intra_block)
    IN  FlattenSeq([k \in DOMAIN blocks |-> Block(blocks[k])])

\* The blocks of luma that are written, and those of chroma.
LumaBlocks(mb) ==
    IF mb.mb_type = I16MB
    THEN <<Luma16DC>> \o (IF mb.cbp % 16 # 0 THEN [k \in 1..16 |-> Luma16AC(ByB8[k])] ELSE <<>>)
    ELSE LET coded == SelectSeq(ByB8, LAMBDA b : HasBit(mb.cbp, B8(b))) IN [k \in DOMAIN coded |-> Luma4x4(coded[k])]

ChromaBlocks(mb) ==
    (IF mb.cbp > 15 THEN <<ChromaDC(0), ChromaDC(1)>> ELSE <<>>)
    \o (IF mb.cbp \div 16 = 2 THEN [k \in 1..8 |-> ChromaAC((k - 1) \div 4, (k - 1) % 4)] ELSE <<>>)

writeCBPandLumaCoeff(M, n, s) ==
    LET code == PatternToCode[M[n].cbp + 1][IF M[n].mb_type = I4MB THEN 1 ELSE 2]
    IN  (IF M[n].mb_type = I16MB THEN <<>> ELSE Element(s, ue_linfo(code), writeCBP_CABAC(M, n)))
        \o (IF M[n].cbp # 0 \/ M[n].mb_type = I16MB THEN Element(s, se_linfo(M[n].delta_qp), writeDquant_CABAC(M, n)) ELSE <<>>)
        \o writeBlocks(M, n, LumaBlocks(M[n]), M[n].mb_type \in {I4MB, I16MB}, s)

writeChromaCoeff(M, n, s) == writeBlocks(M, n, ChromaBlocks(M[n]), Intra(M[n]), s)

\* write_one_macroblock, after the terminating bit.
write_one_macroblock(M, n, s) ==
    HeaderOfMb(M, n, s)
    \o IF M[n].mb_type # 0 \/ (s.type = "B" /\ M[n].cbp # 0)
       THEN writeMotionInfo2NAL(M, n, s) \o writeCBPandLumaCoeff(M, n, s) \o writeChromaCoeff(M, n, s)
       ELSE <<>>
=============================================================================
