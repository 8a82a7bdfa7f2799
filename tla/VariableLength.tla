----------------------------- MODULE VariableLength -----------------------------
(***************************************************************************)
(* Code words of the syntax without CABAC, as sequences of bits (lencod    *)
(* and ldecod: vlc.c, macroblock.h). The tables of coefficients are the    *)
(* same in both programs: the encoder looks up the length and the bits of  *)
(* a value, the decoder tries one entry after the other.                   *)
(*                                                                         *)
(* The bits of a slice are in up to three partitions. Of a reader r, the   *)
(* bits r.bins[p] of partition p have been read up to r.at[p].             *)
(***************************************************************************)
EXTENDS Binarisation

\* The lowest len bits of info (symbol2vlc).
Codeword(len, info) == [k \in 1..len |-> Bit(info, len - k)]

\* A one in the middle, and the lowest bits of info after it.
symbol2uvlc(len, info) == Codeword(len, 2^(len \div 2) + (info % 2^(len \div 2)))

MaxHalvings == 16
Halvings(v) == CHOOSE i \in 0..MaxHalvings : 2^i > v /\ (i = 0 \/ 2^(i - 1) <= v)

ue_linfo(v) == LET i == Halvings((v + 1) \div 2) IN symbol2uvlc(2 * i + 1, v + 1 - 2^i)

se_linfo(v) ==
    LET n == IF v < 0 THEN -v ELSE v
        i == Halvings(n)
    IN  symbol2uvlc(2 * i + 1, 2 * n - 2^i + (IF v <= 0 THEN 1 ELSE 0))

----------------------------------------------------------------------------
(* The tables. *)

\* Of a number of coefficients (column) and of trailing ones (row), for few, some and many neighbours.
TokenLengths == <<
    <<<<1, 6, 8, 9, 10, 11, 13, 13, 13, 14, 14, 15, 15, 16, 16, 16, 16>>,
      <<0, 2, 6, 8, 9, 10, 11, 13, 13, 14, 14, 15, 15, 15, 16, 16, 16>>,
      <<0, 0, 3, 7, 8, 9, 10, 11, 13, 13, 14, 14, 15, 15, 16, 16, 16>>,
      <<0, 0, 0, 5, 6, 7, 8, 9, 10, 11, 13, 14, 14, 15, 15, 16, 16>>>>,
    <<<<2, 6, 6, 7, 8, 8, 9, 11, 11, 12, 12, 12, 13, 13, 13, 14, 14>>,
      <<0, 2, 5, 6, 6, 7, 8, 9, 11, 11, 12, 12, 13, 13, 14, 14, 14>>,
      <<0, 0, 3, 6, 6, 7, 8, 9, 11, 11, 12, 12, 13, 13, 13, 14, 14>>,
      <<0, 0, 0, 4, 4, 5, 6, 6, 7, 9, 11, 11, 12, 13, 13, 13, 14>>>>,
    <<<<4, 6, 6, 6, 7, 7, 7, 7, 8, 8, 9, 9, 9, 10, 10, 10, 10>>,
      <<0, 4, 5, 5, 5, 5, 6, 6, 7, 8, 8, 9, 9, 9, 10, 10, 10>>,
      <<0, 0, 4, 5, 5, 5, 6, 6, 7, 7, 8, 8, 9, 9, 10, 10, 10>>,
      <<0, 0, 0, 4, 4, 4, 4, 4, 5, 6, 7, 8, 8, 9, 10, 10, 10>>>>>>
TokenCodes == <<
    <<<<1, 5, 7, 7, 7, 7, 15, 11, 8, 15, 11, 15, 11, 15, 11, 7, 4>>,
      <<0, 1, 4, 6, 6, 6, 6, 14, 10, 14, 10, 14, 10, 1, 14, 10, 6>>,
      <<0, 0, 1, 5, 5, 5, 5, 5, 13, 9, 13, 9, 13, 9, 13, 9, 5>>,
      <<0, 0, 0, 3, 3, 4, 4, 4, 4, 4, 12, 12, 8, 12, 8, 12, 8>>>>,
    <<<<3, 11, 7, 7, 7, 4, 7, 15, 11, 15, 11, 8, 15, 11, 7, 9, 7>>,
      <<0, 2, 7, 10, 6, 6, 6, 6, 14, 10, 14, 10, 14, 10, 11, 8, 6>>,
      <<0, 0, 3, 9, 5, 5, 5, 5, 13, 9, 13, 9, 13, 9, 6, 10, 5>>,
      <<0, 0, 0, 5, 4, 6, 8, 4, 4, 4, 12, 8, 12, 12, 8, 1, 4>>>>,
    <<<<15, 15, 11, 8, 15, 11, 9, 8, 15, 11, 15, 11, 8, 13, 9, 5, 1>>,
      <<0, 14, 15, 12, 10, 8, 14, 10, 14, 14, 10, 14, 10, 7, 12, 8, 4>>,
      <<0, 0, 13, 14, 11, 9, 13, 9, 13, 10, 13, 9, 13, 9, 11, 7, 3>>,
      <<0, 0, 0, 12, 11, 10, 9, 8, 13, 12, 12, 12, 8, 12, 10, 6, 2>>>>>>

ChromaTokenLengths == <<<<2, 6, 6, 6, 6>>, <<0, 1, 6, 7, 8>>, <<0, 0, 3, 7, 8>>, <<0, 0, 0, 6, 7>>>>
ChromaTokenCodes == <<<<1, 7, 4, 3, 2>>, <<0, 1, 6, 3, 3>>, <<0, 0, 1, 2, 2>>, <<0, 0, 0, 5, 0>>>>

\* Of the zeros below the last coefficient, by the number of coefficients.
ZerosLengths == <<
    <<1, 3, 3, 4, 4, 5, 5, 6, 6, 7, 7, 8, 8, 9, 9, 9>>, <<3, 3, 3, 3, 3, 4, 4, 4, 4, 5, 5, 6, 6, 6, 6>>,
    <<4, 3, 3, 3, 4, 4, 3, 3, 4, 5, 5, 6, 5, 6>>, <<5, 3, 4, 4, 3, 3, 3, 4, 3, 4, 5, 5, 5>>,
    <<4, 4, 4, 3, 3, 3, 3, 3, 4, 5, 4, 5>>, <<6, 5, 3, 3, 3, 3, 3, 3, 4, 3, 6>>, <<6, 5, 3, 3, 3, 2, 3, 4, 3, 6>>,
    <<6, 4, 5, 3, 2, 2, 3, 3, 6>>, <<6, 6, 4, 2, 2, 3, 2, 5>>, <<5, 5, 3, 2, 2, 2, 4>>, <<4, 4, 3, 3, 1, 3>>,
    <<4, 4, 2, 1, 3>>, <<3, 3, 1, 2>>, <<2, 2, 1>>, <<1, 1>>>>
ZerosCodes == <<
    <<1, 3, 2, 3, 2, 3, 2, 3, 2, 3, 2, 3, 2, 3, 2, 1>>, <<7, 6, 5, 4, 3, 5, 4, 3, 2, 3, 2, 3, 2, 1, 0>>,
    <<5, 7, 6, 5, 4, 3, 4, 3, 2, 3, 2, 1, 1, 0>>, <<3, 7, 5, 4, 6, 5, 4, 3, 3, 2, 2, 1, 0>>,
    <<5, 4, 3, 7, 6, 5, 4, 3, 2, 1, 1, 0>>, <<1, 1, 7, 6, 5, 4, 3, 2, 1, 1, 0>>, <<1, 1, 5, 4, 3, 3, 2, 1, 1, 0>>,
    <<1, 1, 1, 3, 3, 2, 2, 1, 0>>, <<1, 0, 1, 3, 2, 1, 1, 1>>, <<1, 0, 1, 3, 2, 1, 1>>, <<0, 1, 1, 2, 1, 3>>,
    <<0, 1, 1, 1, 1>>, <<0, 1, 1, 1>>, <<0, 1, 1>>, <<0, 1>>>>

ChromaZerosLengths == <<<<1, 2, 3, 3>>, <<1, 2, 2>>, <<1, 1>>>>
ChromaZerosCodes == <<<<1, 1, 1, 0>>, <<1, 1, 0>>, <<1, 0>>>>

\* Of the zeros before a coefficient, by the zeros that are left.
RunLengths == <<<<1, 1>>, <<1, 2, 2>>, <<2, 2, 2, 2>>, <<2, 2, 2, 3, 3>>, <<2, 2, 3, 3, 3, 3>>, <<2, 3, 3, 3, 3, 3, 3>>,
                <<3, 3, 3, 3, 3, 3, 3, 4, 5, 6, 7, 8, 9, 10, 11>>>>
RunCodes == <<<<1, 0>>, <<1, 1, 0>>, <<3, 2, 1, 0>>, <<3, 2, 1, 1, 0>>, <<3, 2, 3, 2, 1, 0>>, <<3, 0, 1, 3, 2, 5, 4>>,
              <<7, 6, 5, 4, 3, 2, 1, 1, 1, 1, 1, 1, 1, 1, 1>>>>

\* The code of a coded block pattern: of intra macroblocks, of others. The pattern of a code.
PatternToCode == <<
    <<3, 0>>, <<29, 2>>, <<30, 3>>, <<17, 7>>, <<31, 4>>, <<18, 8>>, <<37, 17>>, <<8, 13>>, <<32, 5>>, <<38, 18>>, <<19, 9>>, <<9, 14>>,
    <<20, 10>>, <<10, 15>>, <<11, 16>>, <<2, 11>>, <<16, 1>>, <<33, 32>>, <<34, 33>>, <<21, 36>>, <<35, 34>>, <<22, 37>>, <<39, 44>>, <<4, 40>>,
    <<36, 35>>, <<40, 45>>, <<23, 38>>, <<5, 41>>, <<24, 39>>, <<6, 42>>, <<7, 43>>, <<1, 19>>, <<41, 6>>, <<42, 24>>, <<43, 25>>, <<25, 20>>,
    <<44, 26>>, <<26, 21>>, <<46, 46>>, <<12, 28>>, <<45, 27>>, <<47, 47>>, <<27, 22>>, <<13, 29>>, <<28, 23>>, <<14, 30>>, <<15, 31>>, <<0, 12>>>>
CodeToPattern == <<
    <<47, 0>>, <<31, 16>>, <<15, 1>>, <<0, 2>>, <<23, 4>>, <<27, 8>>, <<29, 32>>, <<30, 3>>, <<7, 5>>, <<11, 10>>, <<13, 12>>, <<14, 15>>,
    <<39, 47>>, <<43, 7>>, <<45, 11>>, <<46, 13>>, <<16, 14>>, <<3, 6>>, <<5, 9>>, <<10, 31>>, <<12, 35>>, <<19, 37>>, <<21, 42>>, <<26, 44>>,
    <<28, 33>>, <<35, 34>>, <<37, 36>>, <<42, 40>>, <<44, 39>>, <<1, 43>>, <<2, 45>>, <<4, 46>>, <<8, 17>>, <<17, 18>>, <<18, 20>>, <<20, 24>>,
    <<24, 19>>, <<6, 21>>, <<9, 26>>, <<22, 28>>, <<25, 23>>, <<32, 27>>, <<33, 29>>, <<34, 30>>, <<36, 22>>, <<40, 25>>, <<38, 38>>, <<41, 41>>>>

----------------------------------------------------------------------------
(* The encoder: tables by their number from 0. *)

NumCoeffTrailingOnes(vlcnum, numcoeff, trailing) ==
    IF vlcnum = 3 THEN Codeword(6, IF numcoeff > 0 THEN 4 * (numcoeff - 1) + trailing ELSE 3)
    ELSE Codeword(TokenLengths[vlcnum + 1][trailing + 1][numcoeff + 1], TokenCodes[vlcnum + 1][trailing + 1][numcoeff + 1])
NumCoeffTrailingOnesChromaDC(numcoeff, trailing) ==
    Codeword(ChromaTokenLengths[trailing + 1][numcoeff + 1], ChromaTokenCodes[trailing + 1][numcoeff + 1])
TotalZeros(vlcnum, v) == Codeword(ZerosLengths[vlcnum + 1][v + 1], ZerosCodes[vlcnum + 1][v + 1])
TotalZerosChromaDC(vlcnum, v) == Codeword(ChromaZerosLengths[vlcnum + 1][v + 1], ChromaZerosCodes[vlcnum + 1][v + 1])
Run(vlcnum, v) == Codeword(RunLengths[vlcnum + 1][v + 1], RunCodes[vlcnum + 1][v + 1])

\* The sign is the last bit. After the fifteen zeros of an escape and a one there are twelve bits; a level that needs more
\* runs into the one and the zeros.
Signed(v, sign) == 2 * v + sign
Escape(v, sign) == LET x == Signed(v, sign) IN Codeword(28, IF Bit(x, 12) = 1 THEN x ELSE 2^12 + x)
SignOf(level) == IF level < 0 THEN 1 ELSE 0
AbsOf(level) == IF level < 0 THEN -level ELSE level

Level_VLC1(level) ==
    LET levabs == AbsOf(level)
        sign == SignOf(level)
    IN  CASE levabs < 8 -> Codeword(2 * levabs + sign - 1, 1)
          [] levabs \in 8..15 -> Codeword(19, 2^4 + Signed(levabs - 8, sign))
          [] OTHER -> Escape(levabs - 16, sign)

Level_VLCN(level, vlc) ==
    LET levabs == AbsOf(level)
        sign == SignOf(level)
        step == 2^(vlc - 1)
        escape == 15 * step + 1
    IN  IF levabs < escape
        THEN Codeword((levabs - 1) \div step + vlc + 1, 2 * step + Signed((levabs - 1) % step, sign))
        ELSE Escape(levabs - escape, sign)

----------------------------------------------------------------------------
(* The decoder. *)

Astray(r) == [r EXCEPT !.v = 0, !.ok = FALSE]

RECURSIVE Number(_)
Number(bits) == IF bits = <<>> THEN 0 ELSE 2 * Number(Front(bits)) + Last(bits)

ReadBits(r, p, n) ==
    IF r.at[p] + n - 1 > Len(r.bins[p]) THEN Astray(r)
    ELSE [r EXCEPT !.v = Number(SubSeq(r.bins[p], r.at[p], r.at[p] + n - 1)), !.at[p] = @ + n]

\* How many zeros there are before the next one, from the n that have been read.
RECURSIVE ReadZeros(_, _, _)
ReadZeros(r, p, n) ==
    LET AfterBit(q) == IF q.v = 1 \/ ~q.ok THEN [q EXCEPT !.v = n] ELSE ReadZeros(q, p, n + 1)
    IN  AfterBit(ReadBits(r, p, 1))

\* GetVLCSymbol with linfo_ue or linfo_se.
ReadUe(r, p) ==
    LET Plus(q, v) == [q EXCEPT !.v = @ + v]
        AfterZeros(q) == Plus(ReadBits(q, p, q.v), 2^q.v - 1)
    IN  AfterZeros(ReadZeros(r, p, 0))

linfo_se(n) == IF n % 2 = 0 THEN -(n \div 2) ELSE (n + 1) \div 2
ReadSe(r, p) == LET Set(q) == [q EXCEPT !.v = linfo_se(q.v)] IN Set(ReadUe(r, p))

\* The words of a table, each with its column and its row from 0.
Words(lengths, codes) ==
    UNION {{<<Codeword(lengths[j][i], codes[j][i]), <<i - 1, j - 1>>>> : i \in {c \in DOMAIN lengths[j] : lengths[j][c] # 0}} :
           j \in DOMAIN lengths}
WordsOfRows(lengths, codes) == [j \in DOMAIN lengths |-> Words(<<lengths[j]>>, <<codes[j]>>)]

TokenWords == [j \in DOMAIN TokenLengths |-> Words(TokenLengths[j], TokenCodes[j])]
ChromaTokenWords == Words(ChromaTokenLengths, ChromaTokenCodes)
ZerosWords == WordsOfRows(ZerosLengths, ZerosCodes)
ChromaZerosWords == WordsOfRows(ChromaZerosLengths, ChromaZerosCodes)
RunWords == WordsOfRows(RunLengths, RunCodes)

LongestWord == 16

\* Only one entry can match, whatever the order in which they are tried.
PrefixFree(words) == \A w1, w2 \in words : IsPrefix(w1[1], w2[1]) => w1 = w2
ASSUME TablesPrefixFree ==
    \A words \in ToSet(TokenWords) \cup {ChromaTokenWords} \cup ToSet(ZerosWords) \cup ToSet(ChromaZerosWords) \cup ToSet(RunWords) :
        PrefixFree(words)

code_from_bitstream_2d(r, p, words) ==
    LET rest == SubSeq(r.bins[p], r.at[p], IF r.at[p] + LongestWord < Len(r.bins[p]) THEN r.at[p] + LongestWord ELSE Len(r.bins[p]))
        found == {w \in words : IsPrefix(w[1], rest)}
        Take(w) == [r EXCEPT !.v = w[2], !.at[p] = @ + Len(w[1])]
    IN  IF found = {} THEN [Astray(r) EXCEPT !.v = <<0, 0>>] ELSE Take(CHOOSE w \in found : TRUE)

\* The number of coefficients and of trailing ones.
ReadNumCoeffTrailingOnes(r, p, vlcnum) ==
    LET Fixed(q) == [q EXCEPT !.v = IF @ = 3 THEN <<0, 0>> ELSE <<@ \div 4 + 1, @ % 4>>]
    IN  IF vlcnum = 3 THEN Fixed(ReadBits(r, p, 6)) ELSE code_from_bitstream_2d(r, p, TokenWords[vlcnum + 1])
ReadNumCoeffTrailingOnesChromaDC(r, p) == code_from_bitstream_2d(r, p, ChromaTokenWords)

Column(r) == [r EXCEPT !.v = @[1]]
ReadTotalZeros(r, p, vlcnum) == Column(code_from_bitstream_2d(r, p, ZerosWords[vlcnum + 1]))
ReadTotalZerosChromaDC(r, p, vlcnum) == Column(code_from_bitstream_2d(r, p, ChromaZerosWords[vlcnum + 1]))
ReadRun(r, p, vlcnum) == Column(code_from_bitstream_2d(r, p, RunWords[vlcnum + 1]))

\* The sign is the last of the bits that were read, the others are added to least.
LevelFrom(r, least) == [r EXCEPT !.v = IF @ % 2 = 1 THEN -(@ \div 2 + least) ELSE @ \div 2 + least]

ReadLevel_VLC0(r, p) ==
    LET AfterZeros(q) == CASE q.v < 14 -> LevelFrom(q, 1)
                           [] q.v = 14 -> LevelFrom(ReadBits(q, p, 4), 8)
                           [] q.v = 15 -> LevelFrom(ReadBits(q, p, 12), 16)
                           [] OTHER -> Astray(q)
    IN  AfterZeros(ReadZeros(r, p, 0))

ReadLevel_VLCN(r, p, vlc) ==
    LET step == 2^(vlc - 1)
        AfterZeros(q) == IF q.v < 15 THEN LevelFrom(ReadBits(q, p, vlc), q.v * step + 1)
                         ELSE LevelFrom(ReadBits(q, p, 12), 15 * step + 1)
    IN  AfterZeros(ReadZeros(r, p, 0))
=============================================================================
