---------------------------- MODULE MacroblockReader ----------------------------
(***************************************************************************)
(* How the decoder reads a macroblock, with CABAC or without (ldecod:      *)
(* macroblock.c, cabac.c, vlc.c). The reader r of Binarisation and         *)
(* VariableLength also has mbs (the macroblocks read so far and the one    *)
(* that is read), nr (its address), last_dquant, s (the settings, as for   *)
(* the writer), and without CABAC nz (nz_coeff: by macroblock and bit of a *)
(* block, how many coefficients it has) and allrefzero.                    *)
(***************************************************************************)
EXTENDS MacroblockLayout

EachB8(v) == [b8 \in 0..3 |-> v]
EachBlock(v) == [b \in 0..15 |-> v]
EachList(v) == [l \in 0..1 |-> v]

\* The reference of a block that is predicted directly, found without the stream.
DirectReference == 1

\* start_macroblock and init_macroblock.
NewMacroblock(slice_nr) ==
    [slice_nr |-> slice_nr, mb_type |-> 0, skip_flag |-> 0, b8mode |-> EachB8(0), b8pdir |-> EachB8(0),
     i16mode |-> 0, c_ipred_mode |-> 0, ipredmode |-> EachBlock(2), ref |-> EachList(EachBlock(-1)),
     mvd |-> EachList(EachBlock(<<0, 0>>)), cbp |-> 0, cbp_bits |-> {}, delta_qp |-> 0, coeff |-> <<>>]

StartMacroblock(r, n, slice_nr) ==
    [r EXCEPT !.nr = n, !.mbs = [m \in 0..n |-> IF m = n THEN NewMacroblock(slice_nr) ELSE r.mbs[m]]]

\* The counts of a picture when it begins, and those of a macroblock that is skipped (init_picture, reset_coeffs).
WithAC == 1..16 \cup 19..26
NoCounts(n) == [m \in 0..(n - 1) |-> [bit \in WithAC |-> -1]]
reset_coeffs(r) == IF r.s.cavlc THEN [r EXCEPT !.nz[r.nr] = [bit \in WithAC |-> 0]] ELSE r

TheMb(r) == r.mbs[r.nr]

----------------------------------------------------------------------------
(* Its type. *)

readMB_skip_flagInfo_CABAC(r) ==
    LET around == Beside(r.mbs, r.nr, {m \in DOMAIN r.mbs : r.mbs[m].skip_flag # 0})
        AfterBin(q) == [q EXCEPT !.mbs[q.nr].skip_flag = 1 - q.v, !.v = 1 - q.v,
                                 !.last_dquant = IF q.v = 1 THEN 0 ELSE @]
    IN  AfterBin(ReadBin(r, IF r.s.type = "B" THEN <<"mb_type", 2, 7 + around>> ELSE <<"mb_type", 1, around>>))

readMB_typeInfo_CABAC(r) ==
    CASE r.s.type = "I" -> ReadTree(r, IntraMbTypeTree[Beside(r.mbs, r.nr, {m \in DOMAIN r.mbs : r.mbs[m].mb_type # I4MB})])
      [] r.s.type = "P" -> ReadTree(r, PMbTypeTree)
      [] r.s.type = "B" -> ReadTree(r, BMbTypeTree[Beside(r.mbs, r.nr, {m \in DOMAIN r.mbs : r.mbs[m].mb_type # 0})])

ReadSkip(r) == IF r.s.cavlc THEN ReadBits(r, 0, 1) ELSE readMB_skip_flagInfo_CABAC(r)

\* Without CABAC the value is one less in P slices.
ReadMbType(r) ==
    LET AfterUe(q) == [q EXCEPT !.v = @ + One(q.s.type = "P")]
    IN  IF r.s.cavlc THEN AfterUe(ReadUe(r, 0)) ELSE readMB_typeInfo_CABAC(r)

ICBPTAB == <<0, 16, 32, 15, 31, 47>>

OfType(mb, type, mode, pdir) == [mb EXCEPT !.mb_type = type, !.b8mode = mode, !.b8pdir = pdir]
OfIntra4(mb) == OfType(mb, I4MB, EachB8(IBLOCK), EachB8(-1))
OfIntra16(mb, v) ==
    [OfType(mb, I16MB, EachB8(0), EachB8(-1)) EXCEPT !.cbp = ICBPTAB[(v \div 4) + 1], !.i16mode = v % 4]

interpret_mb_mode_P(mb, v) ==
    CASE v < 4 -> OfType(mb, v, EachB8(v), EachB8(0))
      [] v \in {4, 5} -> [mb EXCEPT !.mb_type = P8x8]
      [] v = 6 -> OfIntra4(mb)
      [] OTHER -> OfIntra16(mb, v - 7)

interpret_mb_mode_I(mb, v) == IF v = 0 THEN OfIntra4(mb) ELSE OfIntra16(mb, v - 1)

offset2pdir16x16 == <<0, 1, 2>>
offset2pdir ==
    LET pairs == <<<<0, 0>>, <<1, 1>>, <<0, 1>>, <<1, 0>>, <<0, 2>>, <<1, 2>>, <<2, 0>>, <<2, 1>>, <<2, 2>>>>
    IN  [v \in 4..21 |-> pairs[(v \div 2) - 1]]

interpret_mb_mode_B(mb, v) ==
    CASE v = 0 -> OfType(mb, 0, EachB8(0), EachB8(2))
      [] v = 23 -> OfIntra4(mb)
      [] v > 23 -> OfIntra16(mb, v - 24)
      [] v = 22 -> [mb EXCEPT !.mb_type = P8x8]
      [] v \in 1..3 -> OfType(mb, 1, EachB8(1), EachB8(offset2pdir16x16[v]))
      [] v \in 4..20 /\ v % 2 = 0 -> OfType(mb, 2, EachB8(2), [b8 \in 0..3 |-> offset2pdir[v][(b8 \div 2) + 1]])
      [] v \in 5..21 /\ v % 2 = 1 -> OfType(mb, 3, EachB8(3), [b8 \in 0..3 |-> offset2pdir[v][(b8 % 2) + 1]])

Interpreted(r) ==
    [r EXCEPT !.allrefzero = r.s.type = "P" /\ r.v = 5,
              !.mbs[r.nr] = CASE r.s.type = "I" -> interpret_mb_mode_I(@, r.v)
                              [] r.s.type = "P" -> interpret_mb_mode_P(@, r.v)
                              [] r.s.type = "B" -> interpret_mb_mode_B(@, r.v)]

\* Mode and direction of an 8x8 block by its value.
SetB8Mode ==
    [P |-> <<<<4, 0>>, <<5, 0>>, <<6, 0>>, <<7, 0>>>>,
     B |-> <<<<0, 2>>, <<4, 0>>, <<4, 1>>, <<4, 2>>, <<5, 0>>, <<6, 0>>, <<5, 1>>, <<6, 1>>, <<5, 2>>, <<6, 2>>,
             <<7, 0>>, <<7, 1>>, <<7, 2>>>>]

RECURSIVE ReadB8Modes(_, _)
ReadB8Modes(r, b8) ==
    LET Set(q) == [q EXCEPT !.mbs[q.nr].b8mode[b8] = SetB8Mode[q.s.type][q.v + 1][1],
                            !.mbs[q.nr].b8pdir[b8] = SetB8Mode[q.s.type][q.v + 1][2]]
        Value == IF r.s.cavlc THEN ReadUe(r, 0) ELSE ReadTree(r, IF r.s.type = "B" THEN BB8TypeTree ELSE PB8TypeTree)
    IN  IF b8 = 4 THEN r ELSE ReadB8Modes(Set(Value), b8 + 1)

----------------------------------------------------------------------------
(* Intra prediction modes. *)

UsableMode(r, place) ==
    IF place[1] = None \/ (r.s.constrained /\ ~Intra(r.mbs[place[1]])) THEN None ELSE r.mbs[place[1]].ipredmode[place[2]]

\* v is the value that was read, or -1.
DecodedMode(r, b) ==
    LET two == {UsableMode(r, PlaceLeft(r.mbs, r.nr, b, 4)), UsableMode(r, PlaceUp(r.mbs, r.nr, b, 4))}
        mostProbable == IF None \in two THEN 2 ELSE Min(two)
    IN  IF r.v = -1 THEN mostProbable ELSE r.v + One(r.v >= mostProbable)

ipr == {Leaf("ipr", 0, <<<<0, 1>>>>, -1)}
       \cup {Leaf("ipr", 0, <<<<0, 0>>, <<1, b0>>, <<1, b1>>, <<1, b2>>>>, b0 + 2 * b1 + 4 * b2) :
             b0 \in ABit, b1 \in ABit, b2 \in ABit}

\* GetVLCSymbol_IntraMode: one bit, or a zero and three.
readSyntaxElement_Intra4x4PredictionMode(r) ==
    LET AfterBit(q) == IF q.v = 1 THEN [q EXCEPT !.v = -1] ELSE ReadBits(q, 0, 3) IN AfterBit(ReadBits(r, 0, 1))

RECURSIVE ReadIntra4x4Modes(_, _)
ReadIntra4x4Modes(r, k) ==
    LET Set(q) == [q EXCEPT !.mbs[q.nr].ipredmode[ByB8[k]] = DecodedMode(q, ByB8[k])]
        Mode == IF r.s.cavlc THEN readSyntaxElement_Intra4x4PredictionMode(r) ELSE ReadTree(r, ipr)
    IN  IF k > 16 THEN r ELSE ReadIntra4x4Modes(IF TheMb(r).b8mode[(k - 1) \div 4] = IBLOCK THEN Set(Mode) ELSE r, k + 1)

readCIPredMode_CABAC(r) ==
    LET ctx == Beside(r.mbs, r.nr, {m \in DOMAIN r.mbs : r.mbs[m].c_ipred_mode # 0})
        Plus1(q) == [q EXCEPT !.v = @ + 1]
        AfterBin(q) == IF q.v = 0 THEN q ELSE Plus1(unary_bin_decode(q, <<<<"cipr", 0, 3>>>>, 0, 2))
    IN  AfterBin(ReadBin(r, <<"cipr", 0, ctx>>))

read_ipred_modes(r) ==
    LET Set(q) == [q EXCEPT !.mbs[q.nr].c_ipred_mode = q.v]
        AfterModes(q) == IF ~Intra(TheMb(q)) THEN q ELSE Set(IF q.s.cavlc THEN ReadUe(q, 0) ELSE readCIPredMode_CABAC(q))
    IN  AfterModes(ReadIntra4x4Modes(r, 1))

----------------------------------------------------------------------------
(* References and vectors. *)

\* Blocks that are predicted directly do not count.
RefBeyondFirst(r, place, l) ==
    LET mb == r.mbs[place[1]]
        b8 == B8(place[2])
    IN  /\ place[1] # None
        /\ ~(r.s.type = "B" /\ mb.mb_type = 0)
        /\ ~(mb.b8mode[b8] = 0 /\ mb.b8pdir[b8] = 2)
        /\ mb.ref[l][place[2]] > 0

NoEnd == 1000

readRefFrame_CABAC(r, l, b) ==
    LET ctx == One(RefBeyondFirst(r, PlaceLeft(r.mbs, r.nr, b, 4), l)) + 2 * One(RefBeyondFirst(r, PlaceUp(r.mbs, r.nr, b, 4), l))
        Plus1(q) == [q EXCEPT !.v = @ + 1]
        AfterBin(q) == IF q.v = 0 THEN q ELSE Plus1(unary_bin_decode(q, <<<<"ref_no", 0, 4>>, <<"ref_no", 0, 5>>>>, 0, NoEnd))
    IN  AfterBin(ReadBin(r, <<"ref_no", 0, ctx>>))

\* Of two references, one bit says which; there may be nothing to say.
ReadReference(r, l, b) ==
    LET AfterBit(q) == [q EXCEPT !.v = 1 - @]
    IN  CASE r.s.listXsize[l] = 1 \/ r.allrefzero -> [r EXCEPT !.v = 0]
          [] r.s.listXsize[l] > 1 /\ ~r.allrefzero /\ ~r.s.cavlc -> readRefFrame_CABAC(r, l, b)
          [] r.s.listXsize[l] = 2 /\ ~r.allrefzero /\ r.s.cavlc -> AfterBit(ReadBits(r, 0, 1))
          [] OTHER -> ReadUe(r, 0)

\* The partitions begin at the blocks of the sequence.
RECURSIVE ReadRefs(_, _, _)
ReadRefs(r, l, begins) ==
    LET Set(q) == [q EXCEPT !.mbs[q.nr].ref[l] = [b \in Covered(Head(begins), BLOCK_STEP[PartitionMode(TheMb(q))]) |-> q.v] @@ @]
    IN  IF begins = <<>> THEN r
        ELSE ReadRefs(Set(ReadReference(r, l, Head(begins))), l, Tail(begins))

absMvdAt(r, place, l, k) == IF place[1] = None THEN 0 ELSE Magnitude(r.mbs[place[1]].mvd[l][place[2]][k])

\* k is the component, 0 or 1.
readMVD_CABAC(r, l, b, k) ==
    LET sum == absMvdAt(r, PlaceLeft(r.mbs, r.nr, b, 4), l, k + 1) + absMvdAt(r, PlaceUp(r.mbs, r.nr, b, 4), l, k + 1)
        ctx == 5 * k + (IF sum < 3 THEN 0 ELSE IF sum > 32 THEN 3 ELSE 2)
        WithSign(q, v) == [q EXCEPT !.v = IF q.v = 1 THEN -(v + 1) ELSE v + 1]
        AfterUnary(q) == WithSign(ReadBin(q, Equal), q.v)
        AfterBin(q) == IF q.v = 0 THEN q
                       ELSE AfterUnary(unary_exp_golomb_mv_decode(q, [c \in 1..4 |-> <<"mv_res", 1, 5 * k + c - 1>>]))
    IN  AfterBin(ReadBin(r, <<"mv_res", 0, ctx>>))

\* The component of a vector that was read goes to all blocks of its partition.
SetVector(r, l, b, k) ==
    LET step == BLOCK_STEP[TheMb(r).b8mode[B8(b)]]
        old == TheMb(r).mvd[l]
    IN  [r EXCEPT !.mbs[r.nr].mvd[l] = [c \in Covered(b, step) |-> [old[c] EXCEPT ![k + 1] = r.v]] @@ old]

ReadVector(r, l, b) ==
    LET Component(q, k) == SetVector(IF q.s.cavlc THEN ReadSe(q, 0) ELSE readMVD_CABAC(q, l, b, k), l, b, k)
    IN  Component(Component(r, 0), 1)

RECURSIVE ReadVectors(_, _, _)
ReadVectors(r, l, begins) == IF begins = <<>> THEN r ELSE ReadVectors(ReadVector(r, l, Head(begins)), l, Tail(begins))

AllSubPartitions(mb, l) ==
    LET p == Partitions(mb, l) IN FlattenSeq([i \in DOMAIN p |-> SubPartitions(mb, p[i])])

WithDirect(mb, type) ==
    IF type # "B" THEN mb
    ELSE [mb EXCEPT !.ref = [l \in 0..1 |-> [b \in 0..15 |->
              IF mb.b8mode[B8(b)] = 0 /\ mb.b8pdir[B8(b)] = 2 THEN DirectReference ELSE mb.ref[l][b]]]]

readMotionInfoFromNAL(r) ==
    LET Refs(q, l) == ReadRefs(q, l, Partitions(TheMb(q), l))
        Vectors(q, l) == ReadVectors(q, l, AllSubPartitions(TheMb(q), l))
    IN  Vectors(Vectors(Refs(Refs(r, 0), 1), 0), 1)

----------------------------------------------------------------------------
(* The coded block pattern, the change of the quantiser, the coefficients. *)

B8NotCoded(r, place) == place[1] # None /\ ~HasBit(r.mbs[place[1]].cbp, place[2])

\* The bits read so far count for those that follow.
RECURSIVE ReadLumaBits(_, _)
ReadLumaBits(r, b8) ==
    LET ctx == One(B8NotCoded(r, PlaceLeft(r.mbs, r.nr, b8, 2))) + 2 * One(B8NotCoded(r, PlaceUp(r.mbs, r.nr, b8, 2)))
        Add(q) == [q EXCEPT !.mbs[q.nr].cbp = @ + q.v * 2^b8]
    IN  IF b8 = 4 THEN r ELSE ReadLumaBits(Add(ReadBin(r, <<"cbp", 0, ctx>>)), b8 + 1)

\* One for the left neighbour whose pattern is one of cbps, two for the upper one.
Patterns(r, cbps) ==
    LET with == {m \in DOMAIN r.mbs : m # r.nr /\ r.mbs[m].cbp \in cbps}
    IN  One(MbLeft(r.mbs, r.nr) \in with) + 2 * One(MbUp(r.mbs, r.nr) \in with)

ReadPattern(r) ==
    LET AfterKind(q) == [q EXCEPT !.mbs[q.nr].cbp = @ + 16 * (1 + q.v)]
        AfterChroma(q) == IF q.v = 0 THEN q ELSE AfterKind(ReadBin(q, <<"cbp", 2, Patterns(q, 32..47)>>))
        AfterLuma(q) == AfterChroma(ReadBin(q, <<"cbp", 1, Patterns(q, 16..47)>>))
    IN  AfterLuma(ReadLumaBits([r EXCEPT !.mbs[r.nr].cbp = 0], 0))

\* Mutant: the last change of the quantiser is remembered over a macroblock without coefficients.
readCBP_CABAC_keeping(r) == ReadPattern(r)

readCBP_CABAC(r) ==
    LET AfterPattern(q) == IF TheMb(q).cbp = 0 THEN [q EXCEPT !.last_dquant = 0] ELSE q
    IN  AfterPattern(ReadPattern(r))

\* linfo_cbp_intra, linfo_cbp_inter.
ReadCbp(r) ==
    LET AfterUe(q) == [q EXCEPT !.mbs[q.nr].cbp = CodeToPattern[q.v + 1][IF TheMb(q).mb_type = I4MB THEN 1 ELSE 2]]
    IN  IF r.s.cavlc THEN AfterUe(ReadUe(r, 0)) ELSE readCBP_CABAC(r)

readDquant_CABAC(r) ==
    LET Plus1(q) == [q EXCEPT !.v = @ + 1]
        AfterBin(q) == IF q.v = 0 THEN q ELSE Plus1(unary_bin_decode(q, <<<<"delta_qp", 0, 2>>, <<"delta_qp", 0, 3>>>>, 0, NoEnd))
        dquant(sym) == IF sym % 2 = 0 THEN -(sym \div 2) ELSE (sym + 1) \div 2
        Set(q) == [q EXCEPT !.mbs[q.nr].delta_qp = dquant(q.v), !.last_dquant = dquant(q.v)]
    IN  Set(AfterBin(ReadBin(r, <<"delta_qp", 0, One(r.last_dquant # 0)>>)))

ReadDquant(r) ==
    LET AfterSe(q) == [q EXCEPT !.mbs[q.nr].delta_qp = q.v]
    IN  IF r.s.cavlc THEN AfterSe(ReadSe(r, 0)) ELSE readDquant_CABAC(r)

read_and_store_CBP_block_bit(r, block, is_intra_block) ==
    LET Has(place) == IF place[1] = None THEN is_intra_block ELSE block.first + place[2] \in r.mbs[place[1]].cbp_bits
        ctx == 2 * One(Has(PlaceUp(r.mbs, r.nr, block.b, block.w))) + One(Has(PlaceLeft(r.mbs, r.nr, block.b, block.w)))
        Store(q) == IF q.v = 1 THEN [q EXCEPT !.mbs[q.nr].cbp_bits = @ \cup {block.first + block.b}] ELSE q
    IN  Store(ReadBin(r, <<"bcbp", block.type, ctx>>))

\* The significant coefficients from i on, as ones: the last one is significant if it is reached.
RECURSIVE read_significance_map(_, _, _, _)
read_significance_map(r, type, i, coeff) ==
    LET length == maxpos(type)
        shift == One(c1isdc(type))
        Rest(q) == coeff \o <<1>> \o [k \in 1..(length - i) |-> 0]
        AfterLast(q) == IF q.v = 1 THEN [q EXCEPT !.v = Rest(q)] ELSE read_significance_map(q, type, i + 1, Append(coeff, 1))
        AfterBin(q) == IF q.v = 1 THEN AfterLast(ReadBin(q, <<"last", type, i - shift>>))
                       ELSE read_significance_map(q, type, i + 1, Append(coeff, 0))
    IN  IF i = length THEN [r EXCEPT !.v = Append(coeff, 1)] ELSE AfterBin(ReadBin(r, <<"map", type, i - shift>>))

\* Their levels, from coefficient i down to the first.
RECURSIVE read_significant_coefficients(_, _, _, _, _, _)
read_significant_coefficients(r, type, coeff, i, c1, c2) ==
    LET Next(q, level, d1, d2) ==
            read_significant_coefficients(q, type, [coeff EXCEPT ![i] = IF q.v = 1 THEN -level ELSE level], i - 1, d1, d2)
        AfterLevel(q) == Next(ReadBin(q, Equal), 2 + q.v, 0, c2 + 1)
        AfterOne(q) == IF q.v = 1 THEN AfterLevel(unary_exp_golomb_level_decode(q, <<"abs", type, Min({c2, 4})>>))
                       ELSE Next(ReadBin(q, Equal), 1, IF c1 = 0 THEN 0 ELSE c1 + 1, c2)
    IN  IF i = 0 THEN [r EXCEPT !.v = coeff]
        ELSE IF coeff[i] = 0 THEN read_significant_coefficients(r, type, coeff, i - 1, c1, c2)
        ELSE AfterOne(ReadBin(r, <<"one", type, Min({c1, 4})>>))

\* A block and, in the macroblock, its levels.
readRunLevel_CABAC(r, block, is_intra_block) ==
    LET Levels(q) == read_significant_coefficients(q, block.type, q.v, maxpos(block.type), 1, 0)
        Set(q) == [q EXCEPT !.mbs[q.nr].coeff = (block.first + block.b :> q.v) @@ @]
        AfterBit(q) == IF q.v = 0 THEN q ELSE Set(Levels(read_significance_map(q, block.type, 1, <<>>)))
    IN  AfterBit(read_and_store_CBP_block_bit(r, block, is_intra_block))

\* About as many coefficients as the blocks beside it have.
predict_nnz_at(r, block) ==
    LET left == PlaceLeft(r.mbs, r.nr, block.b, block.w)
        up == PlaceUp(r.mbs, r.nr, block.b, block.w)
        Count(place) == IF place[1] = None THEN 0 ELSE r.nz[place[1]][block.first + place[2]]
    IN  IF left[1] # None /\ up[1] # None THEN (Count(left) + Count(up) + 1) \div 2 ELSE Count(left) + Count(up)

\* The levels that are still missing, downwards; the last ones, up to all the trailing ones, are known.
RECURSIVE ReadLevels(_, _, _, _, _, _)
ReadLevels(r, p, levels, numcoeff, trailing, vlcnum) ==
    LET first == Len(levels) = trailing
        less == One(first /\ level_two_or_higher(numcoeff, trailing))
        Next(q, level) == ReadLevels(q, p, <<level>> \o levels, numcoeff, trailing, NextTable(vlcnum, Magnitude(level), first))
        AfterLevel(q) == Next(q, IF q.v > 0 THEN q.v + less ELSE q.v - less)
    IN  IF Len(levels) = numcoeff THEN [r EXCEPT !.v = levels]
        ELSE AfterLevel(IF vlcnum = 0 THEN ReadLevel_VLC0(r, p) ELSE ReadLevel_VLCN(r, p, vlcnum))

\* The positions of coefficients k and less, before those that are known.
RECURSIVE ReadRuns(_, _, _, _, _)
ReadRuns(r, p, k, zerosleft, at) ==
    LET Next(q, run) == ReadRuns(q, p, k - 1, zerosleft - run, <<k + zerosleft>> \o at)
        AfterRun(q) == Next(q, q.v)
    IN  IF k = 0 THEN [r EXCEPT !.v = at]
        ELSE IF k = 1 \/ zerosleft = 0 THEN Next(r, 0) ELSE AfterRun(ReadRun(r, p, RunTable(zerosleft)))

\* A block whose token has been read; the levels go to their positions.
ReadCoefficients(r, p, block, numcoeff, trailing) ==
    LET bit == block.first + block.b
        full == numcoeff = maxpos(block.type)
        At(levels, at) == [k \in 1..maxpos(block.type) |->
                              IF \E i \in DOMAIN at : at[i] = k THEN levels[CHOOSE i \in DOMAIN at : at[i] = k] ELSE 0]
        Set(q, levels) == [q EXCEPT !.mbs[q.nr].coeff = (bit :> At(levels, q.v)) @@ @]
        TotZeros(q) == CASE full -> [q EXCEPT !.v = 0]
                         [] ~full /\ block.type = 6 -> ReadTotalZerosChromaDC(q, p, numcoeff - 1)
                         [] OTHER -> ReadTotalZeros(q, p, numcoeff - 1)
        AfterZeros(q, levels) == Set(ReadRuns(q, p, numcoeff, q.v, <<>>), levels)
        AfterLevels(q) == AfterZeros(TotZeros(q), q.v)
        Ones(q) == [k \in 1..trailing |-> IF Bit(q.v, k - 1) = 1 THEN -1 ELSE 1]
        AfterSigns(q) == AfterLevels(ReadLevels(q, p, Ones(q), numcoeff, trailing, FirstTable(numcoeff, trailing)))
    IN  AfterSigns(ReadBits(r, p, trailing))

\* The count of a block of constant coefficients is that of the first block, until that is read.
readCoeff4x4_CAVLC(r, block) ==
    LET p == assignSE2partition(TheMb(r), r.s)
        counted == IF c1isdc(block.type) /\ block.type # 5 THEN Luma16AC(0) ELSE block
        bit == counted.first + counted.b
        Count(q) == [q EXCEPT !.nz[q.nr][bit] = q.v[1]]
        Token(q) == IF block.type = 6 THEN ReadNumCoeffTrailingOnesChromaDC(q, p)
                    ELSE Count(ReadNumCoeffTrailingOnes(q, p, TableOf(predict_nnz_at(q, counted))))
        AfterToken(q) == IF q.v[1] = 0 THEN q ELSE ReadCoefficients(q, p, block, q.v[1], q.v[2])
    IN  AfterToken(Token([r EXCEPT !.nz[r.nr][bit] = 0]))

\* The blocks of the macroblock in the order of the stream.
BlocksInStream(mb) ==
    LET coded == SelectSeq(ByB8, LAMBDA b : HasBit(mb.cbp, B8(b)))
    IN  (IF mb.mb_type = I16MB THEN <<Luma16DC>> ELSE <<>>)
        \o [k \in DOMAIN coded |-> IF mb.mb_type = I16MB THEN Luma16AC(coded[k]) ELSE Luma4x4(coded[k])]
        \o (IF mb.cbp > 15 THEN <<ChromaDC(0), ChromaDC(1)>> ELSE <<>>)
        \o (IF mb.cbp > 31 THEN [k \in 1..8 |-> ChromaAC((k - 1) \div 4, (k - 1) % 4)] ELSE <<>>)

\* The blocks that are not in the stream have no coefficients.
WithoutAC(r) ==
    LET cbp == TheMb(r).cbp
        read == {bit \in WithAC : IF bit <= 16 THEN HasBit(cbp, B8(bit - 1)) ELSE cbp > 31}
    IN  IF r.s.cavlc THEN [r EXCEPT !.nz[r.nr] = [bit \in WithAC \ read |-> 0] @@ @] ELSE r

\* The constant coefficients of luma come before that.
RECURSIVE ReadBlocks(_, _)
ReadBlocks(r, blocks) ==
    LET constant == Head(blocks) = Luma16DC
        First == IF r.s.cavlc THEN readCoeff4x4_CAVLC(r, Head(blocks)) ELSE readRunLevel_CABAC(r, Head(blocks), Intra(TheMb(r)))
    IN  IF blocks = <<>> THEN r ELSE ReadBlocks(IF constant THEN WithoutAC(First) ELSE First, Tail(blocks))

readCBPandCoeffsFromNAL(r) ==
    LET whole == TheMb(r).mb_type = I16MB
        Quantiser(q) == IF whole \/ TheMb(q).cbp # 0 THEN ReadDquant(q) ELSE q
        AfterQuantiser(q) == ReadBlocks(IF whole THEN q ELSE WithoutAC(q), BlocksInStream(TheMb(q)))
    IN  AfterQuantiser(Quantiser(IF whole THEN r ELSE ReadCbp(r)))

----------------------------------------------------------------------------
\* read_one_macroblock, from where the macroblock has been started. A skipped one ends after its flag.
ReadMacroblock(r) ==
    LET Copied(q) == [q EXCEPT !.mbs[q.nr].ref[0] = EachBlock(0)]
        Directly(q) == [q EXCEPT !.mbs[q.nr] = WithDirect(@, q.s.type)]
        Modes(q) == IF TheMb(q).mb_type = P8x8 THEN ReadB8Modes(q, 0) ELSE q
        Motion(q) == IF IS_INTERMV(TheMb(q)) THEN readMotionInfoFromNAL(q) ELSE q
        Coding(q) == readCBPandCoeffsFromNAL(Motion(Directly(read_ipred_modes(Modes(q)))))
        Typed(q) == Coding(Interpreted(ReadMbType(q)))
        Skipped(q) == IF q.s.type = "P" THEN Copied(Interpreted(q)) ELSE Directly(Interpreted(q))
        AfterFlag(q) == IF q.v = 1 THEN Typed(q) ELSE Skipped(reset_coeffs(q))
    IN  AfterFlag(IF r.s.type = "I" THEN [r EXCEPT !.v = 1] ELSE ReadSkip(r))
=============================================================================
