---------------------------- MODULE ArithmeticCoder ----------------------------
(***************************************************************************)
(* The binary arithmetic coder of the encoder (lencod: biariencode.c) and  *)
(* of the decoder (ldecod: biaridecod.c). A decision is <<ctx, bin>>: ctx  *)
(* is the context model it is coded with, EqProb or FinalBin. Both sides   *)
(* keep a <<state, MPS>> for every model and must move it in step.         *)
(***************************************************************************)
EXTENDS Integers, Sequences

CONSTANTS
    Qp,             \* img->qp at the start of a slice
    CtxIni,         \* for every context of the slice, its pair of ctx_tables.h
    StaleBits,      \* what the decoder's buffer may hold after the codeword, from the units before
    Lengths,        \* how often a decision is repeated
    MaxRepeats      \* bound: how many such repetitions a slice has

ASSUME CoderAssumption ==
    /\ Qp \in Int
    /\ \A c \in DOMAIN CtxIni : CtxIni[c] \in Int \X Int
    /\ StaleBits \subseteq Seq({0, 1})
    /\ Lengths \subseteq Nat

VARIABLES
    arienco,        \* the coding environment of the encoder
    decided,        \* the decisions coded so far, an external record
    arideco,        \* the decoding environment of the decoder, none while the slice is coded
    answers,        \* the decisions decoded so far
    repeats

\* The contexts of a decision without a model: of equal probability, and whether the slice ends.
EqProb == <<"eq_prob">>
FinalBin == <<"final">>

binVars == <<arienco, decided, arideco, answers, repeats>>

HALF == 512
QUARTER == 256
ONE == 1024

\* For every state, by two bits of the range.
rLPS_table_64x4 == <<
  <<128,176,208,240>>, <<128,167,197,227>>, <<128,158,187,216>>, <<123,150,178,205>>,
  <<116,142,169,195>>, <<111,135,160,185>>, <<105,128,152,175>>, <<100,122,144,166>>,
  << 95,116,137,158>>, << 90,110,130,150>>, << 85,104,123,142>>, << 81, 99,117,135>>,
  << 77, 94,111,128>>, << 73, 89,105,122>>, << 69, 85,100,116>>, << 66, 80, 95,110>>,
  << 62, 76, 90,104>>, << 59, 72, 86, 99>>, << 56, 69, 81, 94>>, << 53, 65, 77, 89>>,
  << 51, 62, 73, 85>>, << 48, 59, 69, 80>>, << 46, 56, 66, 76>>, << 43, 53, 63, 72>>,
  << 41, 50, 59, 69>>, << 39, 48, 56, 65>>, << 37, 45, 54, 62>>, << 35, 43, 51, 59>>,
  << 33, 41, 48, 56>>, << 32, 39, 46, 53>>, << 30, 37, 43, 50>>, << 29, 35, 41, 48>>,
  << 27, 33, 39, 45>>, << 26, 31, 37, 43>>, << 24, 30, 35, 41>>, << 23, 28, 33, 39>>,
  << 22, 27, 32, 37>>, << 21, 26, 30, 35>>, << 20, 24, 29, 33>>, << 19, 23, 27, 31>>,
  << 18, 22, 26, 30>>, << 17, 21, 25, 28>>, << 16, 20, 23, 27>>, << 15, 19, 22, 25>>,
  << 14, 18, 21, 24>>, << 14, 17, 20, 23>>, << 13, 16, 19, 22>>, << 12, 15, 18, 21>>,
  << 12, 14, 17, 20>>, << 11, 14, 16, 19>>, << 11, 13, 15, 18>>, << 10, 12, 15, 17>>,
  << 10, 12, 14, 16>>, <<  9, 11, 13, 15>>, <<  9, 11, 12, 14>>, <<  8, 10, 12, 14>>,
  <<  8,  9, 11, 13>>, <<  7,  9, 11, 12>>, <<  7,  9, 10, 12>>, <<  7,  8, 10, 11>>,
  <<  6,  8,  9, 11>>, <<  6,  7,  9, 10>>, <<  6,  7,  8,  9>>, <<  2,  2,  2,  2>> >>

AC_next_state_MPS_64(state) == IF state < 62 THEN state + 1 ELSE state

AC_next_state_LPS_64 == <<
  0, 0, 1, 2, 2, 4, 4, 5, 6, 7, 8, 9, 9, 11, 11, 12, 13, 13, 15, 15, 16, 16, 18, 18, 19, 19, 21, 21, 22, 22, 23, 24,
  24, 25, 26, 26, 27, 27, 28, 29, 29, 30, 30, 30, 31, 32, 32, 33, 33, 33, 34, 34, 35, 35, 35, 36, 36, 36, 37, 37, 37,
  38, 38, 63>>

rLPS(model, range) == rLPS_table_64x4[model[1] + 1][((range \div 64) % 4) + 1]

\* A model after a decision.
Moved(model, bin) ==
    IF bin = model[2] THEN <<AC_next_state_MPS_64(model[1]), bin>>
    ELSE <<AC_next_state_LPS_64[model[1] + 1], IF model[1] = 0 THEN bin ELSE model[2]>>

biari_init_context(ini) ==
    LET p == ((ini[1] * Qp) \div 16) + ini[2]
        pstate == IF p < 1 THEN 1 ELSE IF p > 126 THEN 126 ELSE p
    IN  IF pstate >= 64 THEN <<pstate - 64, 1>> ELSE <<63 - pstate, 0>>

init_contexts == [c \in DOMAIN CtxIni |-> biari_init_context(CtxIni[c])]

----------------------------------------------------------------------------
(* The encoder: low, range, the bits to follow, whether the first bit, a    *)
(* redundant one, is still to come.                                         *)

arienco_start_encoding ==
    [low |-> 0, range |-> HALF - 2, follow |-> 0, first |-> TRUE, bits |-> <<>>, models |-> init_contexts]

put_one_bit_plus_outstanding(e, b) ==
    [e EXCEPT !.bits = (IF e.first THEN @ ELSE Append(@, b)) \o [i \in 1..e.follow |-> 1 - b],
              !.first = FALSE, !.follow = 0]

\* One doubling, of low against h and q (HALF and QUARTER, or their doubles).
Shifted(e, h, q) ==
    CASE e.low >= h -> [put_one_bit_plus_outstanding(e, 1) EXCEPT !.low = e.low - h]
      [] e.low < q -> put_one_bit_plus_outstanding(e, 0)
      [] OTHER -> [e EXCEPT !.follow = @ + 1, !.low = @ - q]

\* One turn of the loop, if there is one. No range is below 2, so that seven are enough.
Doubled(e) ==
    IF e.range >= QUARTER THEN e
    ELSE [Shifted(e, HALF, QUARTER) EXCEPT !.low = 2 * @, !.range = 2 * @]

Renormalised(e) == Doubled(Doubled(Doubled(Doubled(Doubled(Doubled(Doubled(e)))))))

biari_encode_symbol(e, ctx, bin) ==
    LET model == e.models[ctx]
        lps == rLPS(model, e.range)
        mps == e.range - lps
    IN  Renormalised([e EXCEPT !.low = IF bin = model[2] THEN @ ELSE @ + mps,
                               !.range = IF bin = model[2] THEN mps ELSE lps,
                               !.models[ctx] = Moved(model, bin)])

biari_encode_symbol_eq_prob(e, bin) ==
    Shifted([e EXCEPT !.low = 2 * @ + (IF bin = 1 THEN e.range ELSE 0)], ONE, HALF)

biari_encode_symbol_final(e, bin) ==
    Renormalised([e EXCEPT !.low = IF bin = 1 THEN @ + e.range - 2 ELSE @, !.range = IF bin = 1 THEN 2 ELSE @ - 2])

\* Mutant: the bits to follow are dropped when the codeword is ended.
arienco_done_encoding_short(e) ==
    e.bits \o <<(e.low \div HALF) % 2, (e.low \div QUARTER) % 2, 1>>

arienco_done_encoding(e) ==
    put_one_bit_plus_outstanding(e, (e.low \div HALF) % 2).bits \o <<(e.low \div QUARTER) % 2, 1>>

EncodedBin(e, d) ==
    CASE d[1] = EqProb -> biari_encode_symbol_eq_prob(e, d[2])
      [] d[1] = FinalBin -> biari_encode_symbol_final(e, d[2])
      [] OTHER -> biari_encode_symbol(e, d[1], d[2])

----------------------------------------------------------------------------
(* The decoder. *)

BitAt(bits, i) == IF i \in DOMAIN bits THEN bits[i] ELSE 0

NextBit(d) == BitAt(d.bits, d.at)

\* Nine bits from the i-th as a number.
Nine(bits, i) ==
    LET b(k) == BitAt(bits, i + k)
    IN  256 * b(0) + 128 * b(1) + 64 * b(2) + 32 * b(3) + 16 * b(4) + 8 * b(5) + 4 * b(6) + 2 * b(7) + b(8)

\* Shift in next bit and add to value.
ShiftIn(d) == [d EXCEPT !.value = 2 * @ + NextBit(d), !.at = @ + 1]

\* As in the encoder.
Refill(d) == IF d.range >= QUARTER THEN d ELSE [ShiftIn(d) EXCEPT !.range = 2 * @]

Refilled(d) == Refill(Refill(Refill(Refill(Refill(Refill(Refill(d)))))))

arideco_start_decoding(bits) ==
    [value |-> Nine(bits, 1), range |-> HALF - 2, at |-> 10, bits |-> bits, bin |-> 0, models |-> init_contexts]

biari_decode_symbol(d, ctx) ==
    LET model == d.models[ctx]
        lps == rLPS(model, d.range)
        mps == d.range - lps
        bin == IF d.value < mps THEN model[2] ELSE 1 - model[2]
    IN  Refilled([d EXCEPT !.value = IF d.value < mps THEN @ ELSE @ - mps,
                           !.range = IF d.value < mps THEN mps ELSE lps,
                           !.bin = bin, !.models[ctx] = Moved(model, bin)])

biari_decode_symbol_eq_prob(d) ==
    LET s == ShiftIn(d)
    IN  IF s.value >= s.range THEN [s EXCEPT !.value = @ - s.range, !.bin = 1] ELSE [s EXCEPT !.bin = 0]

biari_decode_final(d) ==
    IF d.value >= d.range - 2 THEN [d EXCEPT !.bin = 1]
    ELSE Refilled([d EXCEPT !.range = @ - 2, !.bin = 0])

DecodedBin(d, ctx) ==
    CASE ctx = EqProb -> biari_decode_symbol_eq_prob(d)
      [] ctx = FinalBin -> biari_decode_final(d)
      [] OTHER -> biari_decode_symbol(d, ctx)
----------------------------------------------------------------------------
(* A slice: decisions, the final one, the end of the codeword; then the      *)
(* decoder, which knows what to ask for next.                               *)

BinsInit == arienco = arienco_start_encoding /\ decided = <<>> /\ arideco = <<>> /\ answers = <<>> /\ repeats = 0

Repeated(e, d, n) ==
    LET After[k \in 0..n] == IF k = 0 THEN e ELSE EncodedBin(After[k - 1], d)
    IN  After[n]

CodeBins(ctx, bin, n) ==
    /\ arideco = <<>> /\ repeats < MaxRepeats
    /\ ctx = FinalBin => bin = 0
    /\ arienco' = Repeated(arienco, <<ctx, bin>>, n)
    /\ decided' = decided \o [i \in 1..n |-> <<ctx, bin>>]
    /\ repeats' = repeats + 1
    /\ UNCHANGED <<arideco, answers>>

EndCoding ==
    /\ arideco = <<>>
    /\ arienco' = EncodedBin(arienco, <<FinalBin, 1>>)
    /\ decided' = Append(decided, <<FinalBin, 1>>)
    /\ \E stale \in StaleBits : arideco' = arideco_start_decoding(arienco_done_encoding(arienco') \o stale)
    /\ UNCHANGED <<answers, repeats>>

DecodeBin ==
    /\ arideco # <<>> /\ Len(answers) < Len(decided)
    /\ LET ctx == decided[Len(answers) + 1][1]
       IN  /\ arideco' = DecodedBin(arideco, ctx)
           /\ answers' = Append(answers, <<ctx, arideco'.bin>>)
    /\ UNCHANGED <<arienco, decided, repeats>>

BinsNext ==
    \/ \E ctx \in DOMAIN CtxIni \cup {EqProb, FinalBin}, bin \in {0, 1}, n \in Lengths : CodeBins(ctx, bin, n)
    \/ EndCoding
    \/ DecodeBin

BinsSpec == BinsInit /\ [][BinsNext]_binVars

\* What is decoded is what was decided, and at the end of the slice both sides have moved
\* every context to the same state (biari_encode_symbol, biari_decode_symbol).
DecisionsSurvive ==
    /\ \A i \in DOMAIN answers : answers[i] = decided[i]
    /\ arideco # <<>> /\ Len(answers) = Len(decided) => arideco.models = arienco.models
=============================================================================
