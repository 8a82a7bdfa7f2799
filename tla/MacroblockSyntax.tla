---------------------------- MODULE MacroblockSyntax ----------------------------
(***************************************************************************)
(* A picture through the macroblock syntax: the encoder chooses and writes *)
(* one macroblock after the other, in one slice or in two; the decoder     *)
(* reads them back from the same decisions (CABAC) or the same bits of     *)
(* each partition (CAVLC). What the choices of the encoder are is          *)
(* external; that they can be chosen (the intra modes of available         *)
(* neighbours only, a change of the quantiser only with rate control) is   *)
(* kept.                                                                   *)
(***************************************************************************)
EXTENDS MacroblockWriter, MacroblockReader

CONSTANTS
    MbContents,     \* sets of [mb_type, b8mode, b8pdir, cbp, seed], by name
    OtherContents,  \* by the same name: those of the other macroblocks of the picture
    SyntaxSettings, \* [type, contents (a name), listXsize, constrained, rate, cavlc, partitioned]: rate control is of basic units
    MbsInPicture,
    DeltaQps        \* the changes of the quantiser under rate control

VARIABLES
    syntax,         \* a setting and two contents, x and y
    picture,        \* the macroblocks written
    written,        \* the decisions of the last one, or its bits by partition
    reading         \* the reader: what it has read, and what it remembers

syntaxVars == <<syntax, picture, written, reading>>

----------------------------------------------------------------------------
(* The choices. *)

\* Is there a macroblock, of which intra prediction may use the samples?
Usable(M, m, s) == m # None /\ (s.constrained => Intra(M[m]))

MbUpLeft(M, n) ==
    IF n >= MbsPerRow /\ n % MbsPerRow # 0 /\ M[n - MbsPerRow - 1].slice_nr = M[n].slice_nr THEN n - MbsPerRow - 1 ELSE None

\* Vertical, horizontal, DC, plane by their numbers.
WholeModes(M, n, s, vertical, horizontal, dc) ==
    LET up == Usable(M, MbUp(M, n), s)
        left == Usable(M, MbLeft(M, n), s)
    IN  {dc} \cup (IF up THEN {vertical} ELSE {}) \cup (IF left THEN {horizontal} ELSE {})
             \cup (IF up /\ left /\ Usable(M, MbUpLeft(M, n), s) THEN {3} ELSE {})

BlockModes(M, n, b, s) ==
    {2} \cup (IF Usable(M, PlaceUp(M, n, b, 4)[1], s) THEN {0, 3, 7} ELSE {})
        \cup (IF Usable(M, PlaceLeft(M, n, b, 4)[1], s) THEN {1, 8} ELSE {})

OneOf(modes, seed) == SelectSeq([k \in 1..9 |-> k - 1], LAMBDA v : v \in modes)[(seed % Cardinality(modes)) + 1]

\* Growing to escapes, with three trailing ones and zeros between them, with an escape for the first.
SeveralLevels ==
    (9 :> <<2000, 90, -40, 20, 9, 4, -2>>) @@ (20 :> <<300, 0, -17, 0, 0, 1, -1, 1>>) @@ (10 :> <<0, 0, -1, 2047>>)

\* Coefficients of a block, none in most: single ones at both ends, small ones, large ones, several.
Levels(k, length) ==
    [i \in 1..length |->
        CASE k % 11 = 1 -> One(i = 1)
          [] k % 11 = 3 -> -One(i = length)
          [] k % 11 = 4 -> IF i % 2 = 0 THEN 1 ELSE -2
          [] k % 11 = 6 -> CASE i = 2 -> 20 [] i = 3 -> -1 [] OTHER -> 0
          [] k % 11 = 8 -> CASE i = 1 -> -15 [] i = 4 -> 1 [] OTHER -> 0
          [] k \in DOMAIN SeveralLevels /\ i \in DOMAIN SeveralLevels[k] -> SeveralLevels[k][i]
          [] OTHER -> 0]

Vectors == <<<<0, 0>>, <<1, -2>>, <<-40, 9>>, <<2, 0>>, <<0, -17>>>>

\* One of the references for every partition (all the first ones of list 0 for seed 0), a vector for every part of one.
RefsChosen(mb, s, seed) ==
    [l \in 0..1 |-> [b \in 0..15 |->
        LET p == {q \in ToSet(Partitions(mb, l)) : b \in Covered(q, BLOCK_STEP[PartitionMode(mb)])}
        IN  IF p = {} THEN mb.ref[l][b] ELSE (seed * (1 + (Min(p) \div 2)) + l) % s.listXsize[l]]]

VectorsChosen(mb, seed) ==
    [l \in 0..1 |-> [b \in 0..15 |->
        LET p == {q \in ToSet(AllSubPartitions(mb, l)) : b \in Covered(q, BLOCK_STEP[mb.b8mode[B8(q)]])}
        IN  IF p = {} THEN <<0, 0>> ELSE Vectors[((seed + Min(p) + 3 * l) % Len(Vectors)) + 1]]]

\* The references that are not written: of a skipped macroblock, of one or a part predicted directly.
Unwritten(mb, type) == IF type = "P" /\ mb.mb_type = 0 THEN [mb EXCEPT !.ref[0] = EachBlock(0)] ELSE WithDirect(mb, type)

WithMotion(mb, s, seed) ==
    IF IS_INTERMV(mb) THEN [mb EXCEPT !.ref = RefsChosen(mb, s, seed), !.mvd = VectorsChosen(mb, seed)] ELSE mb

\* M has the macroblock.
WithIntraModes(M, n, s, seed) ==
    [M[n] EXCEPT
        !.ipredmode = IF M[n].mb_type = I4MB THEN [b \in 0..15 |-> OneOf(BlockModes(M, n, b, s), seed + b)] ELSE @,
        !.i16mode = IF M[n].mb_type = I16MB THEN OneOf(WholeModes(M, n, s, 0, 1, 2), seed) ELSE @,
        !.c_ipred_mode = IF Intra(M[n]) THEN OneOf(WholeModes(M, n, s, 2, 1, 0), seed \div 2) ELSE @]

\* Only the blocks that are written have coefficients.
WithLevels(mb, seed) ==
    LET blocks == ToSet(LumaBlocks(mb)) \cup ToSet(ChromaBlocks(mb))
        coeff == [bit \in {block.first + block.b : block \in blocks} |->
                      Levels(seed + bit, maxpos((CHOOSE block \in blocks : block.first + block.b = bit).type))]
        bits == {bit \in DOMAIN coeff : \E k \in DOMAIN coeff[bit] : coeff[bit][k] # 0}
    IN  [mb EXCEPT !.cbp_bits = bits, !.coeff = [bit \in bits |-> coeff[bit]]]

\* start_macroblock, and what the mode decision leaves. delta is the change of the quantiser.
Chosen(M, n, s, slice_nr, c, delta) ==
    LET mb == [NewMacroblock(slice_nr) EXCEPT !.mb_type = c.mb_type, !.b8mode = c.b8mode, !.b8pdir = c.b8pdir, !.cbp = c.cbp,
                   !.skip_flag = IF s.type = "I" \/ s.cavlc THEN @ ELSE One(c.mb_type # 0 \/ c.cbp # 0),
                   !.delta_qp = IF c.cbp # 0 \/ c.mb_type = I16MB THEN delta ELSE 0]
        Complete(m) == WithLevels(WithMotion(Unwritten(m, s.type), s, c.seed), c.seed)
        ForEntropy(m) == IF s.cavlc THEN [m EXCEPT !.cbp_bits = {}] ELSE m
    IN  ForEntropy(Complete(WithIntraModes((n :> mb) @@ M, n, s, c.seed)))

----------------------------------------------------------------------------
NoMacroblocks == [m \in {} |-> 0]
NoSyntax == [type |-> "none"]
NoReader == [ok |-> TRUE, mbs |-> NoMacroblocks, nr |-> -1, slice_nr |-> 0, last_dquant |-> 0, nz |-> NoCounts(0)]

SyntaxInit == syntax = NoSyntax /\ picture = NoMacroblocks /\ written = <<>> /\ reading = NoReader

ConfigureSyntax ==
    /\ syntax = NoSyntax
    /\ \E s \in SyntaxSettings : \E x \in MbContents[s.contents], y \in OtherContents[s.contents] :
            /\ syntax' = [x |-> x, y |-> y] @@ s
            /\ reading' = [reading EXCEPT !.nz = NoCounts(IF s.cavlc THEN MbsInPicture ELSE 0)]
    /\ UNCHANGED <<picture, written>>

\* The slice that the next macroblock belongs to.
Ends == IF syntax.cavlc THEN Last(written[0]) ELSE Last(written)[2]
SliceOfNext == IF picture = NoMacroblocks THEN 0 ELSE picture[reading.nr].slice_nr + Ends

\* The bits of a partition.
BitsOf(items, p) == FlattenSeq([i \in DOMAIN items |-> IF items[i][1] = p THEN items[i][2] ELSE <<>>])

\* With the terminating bit; without CABAC, one bit stands for the end of the slice's bits, which is SliceCoding's.
Output(items, ends) ==
    IF syntax.cavlc THEN [p \in 0..2 |-> BitsOf(Append(items, <<0, <<ends>>>>), p)] ELSE Append(items, <<Final, ends>>)

\* A slice ends after the macroblock (ends = 1), or it goes on. Slices under rate control are whole pictures.
WriteMb ==
    LET n == Cardinality(DOMAIN picture)
        final == n = MbsInPicture - 1
    IN  /\ syntax # NoSyntax /\ n < MbsInPicture /\ reading.nr = n - 1
        /\ \E c \in {syntax.x, syntax.y}, ends \in 0..1, delta \in DeltaQps :
            /\ n = 1 => c = syntax.y
            /\ n = 0 \/ final => c = syntax.x
            /\ IF final THEN ends = 1 ELSE ends = 1 => SliceOfNext = 0 /\ ~syntax.rate
            /\ ~(syntax.rate /\ (c.cbp # 0 \/ c.mb_type = I16MB)) => delta = 0
            /\ \E mb \in {Chosen(picture, n, syntax, SliceOfNext, c, delta)} :
                /\ picture' = [m \in 0..n |-> IF m = n THEN mb ELSE picture[m]]
                /\ written' = Output(write_one_macroblock(picture', n, syntax), ends)
        /\ UNCHANGED <<syntax, reading>>

\* decode_one_slice: a macroblock, and whether the slice ends after it (read_new_slice, if there is another one).
ReadMb ==
    LET n == reading.nr + 1
        AfterBit(r) == IF r.v = 0 THEN r ELSE [r EXCEPT !.slice_nr = @ + 1, !.last_dquant = 0]
        begin == [bins |-> written, at |-> IF syntax.cavlc THEN (0 :> 1) @@ (1 :> 1) @@ (2 :> 1) ELSE 1, v |-> 0, s |-> syntax, allrefzero |-> FALSE]
                     @@ reading
        AllRead(r) == IF syntax.cavlc THEN \A p \in 0..2 : r.at[p] = Len(written[p]) + 1 ELSE r.at = Len(written) + 1
        Keep(r) == [ok |-> r.ok /\ AllRead(r), mbs |-> r.mbs, nr |-> r.nr, slice_nr |-> r.slice_nr,
                    last_dquant |-> r.last_dquant, nz |-> r.nz]
        ReadEnd(r) == IF syntax.cavlc THEN ReadBits(r, 0, 1) ELSE ReadBin(r, Final)
    IN  /\ n \in DOMAIN picture
        /\ reading' = Keep(AfterBit(ReadEnd(ReadMacroblock(StartMacroblock(begin, n, reading.slice_nr)))))
        /\ UNCHANGED <<syntax, picture, written>>

SyntaxNext == ConfigureSyntax \/ WriteMb \/ ReadMb

----------------------------------------------------------------------------
\* Every macroblock is read as it was written: its type, modes, references,
\* vectors, pattern, quantiser and coefficients, although every context and every
\* table depends on what each side knows of the neighbours, and on what it remembers;
\* and with every macroblock all its decisions, or all its bits in every partition,
\* have been taken (write_one_macroblock, read_one_macroblock).
MacroblocksReadAsWritten == reading.ok /\ \A n \in DOMAIN reading.mbs : reading.mbs[n] = picture[n]
=============================================================================
