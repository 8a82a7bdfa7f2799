------------------------------ MODULE Binarisation ------------------------------
(***************************************************************************)
(* How the values of the syntax become binary decisions in the encoder     *)
(* (lencod: cabac.c), and how the decoder gets them back (ldecod:          *)
(* cabac.c). A decision is <<context, bin>>. A context is                  *)
(* <<name, table, index>>, as in contexts.h, or Equal or Final.            *)
(*                                                                         *)
(* A reader is a record with the decisions to come: bins, at (the next     *)
(* one), v (the value read last) and ok. It asks for a decision in a       *)
(* context; an arithmetic decoder whose context is not that of the         *)
(* encoder goes astray, here ok becomes FALSE.                             *)
(***************************************************************************)
EXTENDS Integers, Sequences, SequencesExt

Equal == <<"equal">>
Final == <<"final">>

Bit(v, k) == (v \div 2^k) % 2

\* Some decisions, each with its index in a table of contexts.
Coded(name, table, pairs) == [k \in DOMAIN pairs |-> <<<<name, table, pairs[k][1]>>, pairs[k][2]>>]

\* The lowest n bits of v, the highest first.
Binary(index, v, n) == [k \in 1..n |-> <<index, Bit(v, n - k)>>]

----------------------------------------------------------------------------
(* The encoder. *)

\* Up to max ones, and a zero if v < max. The last context is that of all the bins after it, too.
unary_bin_encode(ctxs, v, max) ==
    [k \in 1..(IF v < max THEN v + 1 ELSE max) |->
        <<ctxs[IF k < Len(ctxs) THEN k ELSE Len(ctxs)], IF k <= v THEN 1 ELSE 0>>]

RECURSIVE exp_golomb_encode_eq_prob(_, _)
exp_golomb_encode_eq_prob(v, k) ==
    IF v >= 2^k THEN <<<<Equal, 1>>>> \o exp_golomb_encode_eq_prob(v - 2^k, k + 1)
    ELSE <<<<Equal, 0>>>> \o [m \in 1..k |-> <<Equal, Bit(v, k - m)>>]

unary_exp_golomb_encode(ctxs, v, exp_start, k) ==
    unary_bin_encode(ctxs, v, exp_start)
        \o IF v < exp_start THEN <<>> ELSE exp_golomb_encode_eq_prob(v - exp_start, k)

unary_exp_golomb_level_encode(ctx, v) == unary_exp_golomb_encode(<<ctx>>, v, 13, 0)
unary_exp_golomb_mv_encode(ctxs, v) == unary_exp_golomb_encode(ctxs, v, 8, 3)

\* Of a 16x16 intra macroblock: are there AC coefficients, which of chroma, the prediction mode.
Intra16Info(table, c, sym) ==
    LET chroma == (sym % 12) \div 4
    IN  Coded("mb_type", table,
              <<<<c[1], sym \div 12>>>>
              \o (IF chroma = 0 THEN <<<<c[2], 0>>>> ELSE <<<<c[2], 1>>, <<c[3], chroma - 1>>>>)
              \o <<<<c[4], Bit(sym, 1)>>, <<c[5], Bit(sym, 0)>>>>)

IntraMbType(ab, v) ==
    LET W(pairs) == Coded("mb_type", 0, pairs)
    IN  CASE v = 0 -> W(<<<<ab, 0>>>>)
          [] v = 25 -> W(<<<<ab, 1>>>>) \o <<<<Final, 1>>>>
          [] OTHER -> W(<<<<ab, 1>>>>) \o <<<<Final, 0>>>> \o Intra16Info(0, <<4, 5, 6, 7, 8>>, v - 1)

IntraInInter(sym) == <<<<Final, 0>>>> \o Intra16Info(1, <<8, 9, 9, 10, 10>>, sym)

PMbType(v) ==
    LET W(pairs) == Coded("mb_type", 1, pairs)
    IN  CASE v = 1 -> W(<<<<4, 0>>, <<5, 0>>, <<6, 0>>>>)
          [] v = 2 -> W(<<<<4, 0>>, <<5, 1>>, <<7, 1>>>>)
          [] v = 3 -> W(<<<<4, 0>>, <<5, 1>>, <<7, 0>>>>)
          [] v \in {4, 5} -> W(<<<<4, 0>>, <<5, 0>>, <<6, 1>>>>)
          [] v = 6 -> W(<<<<4, 1>>, <<7, 0>>>>)
          [] v >= 7 -> W(<<<<4, 1>>, <<7, 1>>>>) \o IntraInInter(v - 7)

BMbType(ab, v) ==
    LET W(pairs) == Coded("mb_type", 2, pairs)
        sym == IF v < 23 THEN v ELSE IF v < 24 THEN 22 ELSE 23
    IN  CASE v = 0 -> W(<<<<ab, 0>>>>)
          [] v \in 1..2 -> W(<<<<ab, 1>>, <<4, 0>>, <<6, v - 1>>>>)
          [] v \in 3..10 -> W(<<<<ab, 1>>, <<4, 1>>, <<5, 0>>>> \o Binary(6, v - 3, 3))
          [] v \in {11, 22} -> W(<<<<ab, 1>>, <<4, 1>>, <<5, 1>>, <<6, 1>>, <<6, 1>>, <<6, IF v = 11 THEN 0 ELSE 1>>>>)
          [] OTHER -> W(<<<<ab, 1>>, <<4, 1>>, <<5, 1>>>> \o Binary(6, sym - 12, 4))
                          \o IF v < 24 THEN <<>> ELSE IntraInInter(v - 24)

PB8Type(v) ==
    Coded("b8_type", 0, CASE v = 0 -> <<<<1, 1>>>>
                          [] v = 1 -> <<<<1, 0>>, <<3, 0>>>>
                          [] v = 2 -> <<<<1, 0>>, <<3, 1>>, <<4, 1>>>>
                          [] v = 3 -> <<<<1, 0>>, <<3, 1>>, <<4, 0>>>>)

BB8Type(v) ==
    Coded("b8_type", 1,
          CASE v = 0 -> <<<<0, 0>>>>
            [] v \in 1..2 -> <<<<0, 1>>, <<1, 0>>, <<3, v - 1>>>>
            [] v \in 3..6 -> <<<<0, 1>>, <<1, 1>>, <<2, 0>>>> \o Binary(3, v - 3, 2)
            [] v \in 7..10 -> <<<<0, 1>>, <<1, 1>>, <<2, 1>>, <<3, 0>>>> \o Binary(3, v - 7, 2)
            [] v \in 11..12 -> <<<<0, 1>>, <<1, 1>>, <<2, 1>>, <<3, 1>>, <<3, v - 11>>>>)

----------------------------------------------------------------------------
(* The decoder. A decision tree is the set of its paths, each with the     *)
(* value that its leaf has.                                                *)

ReadBin(r, ctx) ==
    IF r.at <= Len(r.bins) /\ r.bins[r.at][1] = ctx THEN [r EXCEPT !.v = r.bins[r.at][2], !.at = @ + 1]
    ELSE [r EXCEPT !.v = 0, !.ok = FALSE]

\* No path is longer.
MaxPath == 16

ReadTree(r, tree) ==
    LET rest == SubSeq(r.bins, r.at, IF r.at + MaxPath < Len(r.bins) THEN r.at + MaxPath ELSE Len(r.bins))
        leaves == {leaf \in tree : IsPrefix(leaf[1], rest)}
    IN  IF leaves = {} THEN [r EXCEPT !.v = 0, !.ok = FALSE]
        ELSE LET leaf == CHOOSE l \in leaves : TRUE IN [r EXCEPT !.v = leaf[2], !.at = @ + Len(leaf[1])]

\* Up to max ones, after n of them.
RECURSIVE unary_bin_decode(_, _, _, _)
unary_bin_decode(r, ctxs, n, max) ==
    LET AfterBin(q) == IF q.v = 0 THEN [q EXCEPT !.v = n] ELSE unary_bin_decode(q, ctxs, n + 1, max)
    IN  IF n = max THEN [r EXCEPT !.v = n]
        ELSE AfterBin(ReadBin(r, ctxs[IF n + 1 < Len(ctxs) THEN n + 1 ELSE Len(ctxs)]))

RECURSIVE ReadBinary(_, _, _, _)
ReadBinary(r, ctx, n, v) ==
    LET AfterBin(q) == ReadBinary(q, ctx, n - 1, 2 * v + q.v)
    IN  IF n = 0 THEN [r EXCEPT !.v = v] ELSE AfterBin(ReadBin(r, ctx))

RECURSIVE exp_golomb_decode_eq_prob(_, _)
exp_golomb_decode_eq_prob(r, k) ==
    LET Plus(q) == [q EXCEPT !.v = @ + 2^k]
        AfterBin(q) == IF q.v = 1 THEN Plus(exp_golomb_decode_eq_prob(q, k + 1)) ELSE ReadBinary(q, Equal, k, 0)
    IN  AfterBin(ReadBin(r, Equal))

unary_exp_golomb_decode(r, ctxs, exp_start, k) ==
    LET Plus(q) == [q EXCEPT !.v = @ + exp_start]
        AfterOnes(q) == IF q.v < exp_start THEN q ELSE Plus(exp_golomb_decode_eq_prob(q, k))
    IN  AfterOnes(unary_bin_decode(r, ctxs, 0, exp_start))

unary_exp_golomb_level_decode(r, ctx) == unary_exp_golomb_decode(r, <<ctx>>, 13, 0)
unary_exp_golomb_mv_decode(r, ctxs) == unary_exp_golomb_decode(r, ctxs, 8, 3)

Leaf(name, table, pairs, v) == <<Coded(name, table, pairs), v>>

ABit == 0..1
Digits(index, bins) == [k \in DOMAIN bins |-> <<index, bins[k]>>]

Intra16Paths(table, c) ==
    {<<<<<<Final, 1>>>>, 24>>}
    \cup {<<<<<<Final, 0>>>> \o Coded("mb_type", table, <<<<c[1], ac>>>> \o chroma[1] \o <<<<c[4], b2>>, <<c[5], b1>>>>),
            12 * ac + chroma[2] + 2 * b2 + b1>> :
          ac \in ABit, b2 \in ABit, b1 \in ABit,
          chroma \in {<<<<<<c[2], 0>>>>, 0>>, <<<<<<c[2], 1>>, <<c[3], 0>>>>, 4>>, <<<<<<c[2], 1>>, <<c[3], 1>>>>, 8>>}}

\* The values above the last one of inter macroblocks go on with the information of a 16x16 intra macroblock.
WithIntra16(tree, last) ==
    {leaf \in tree : leaf[2] <= last}
    \cup {<<leaf[1] \o more[1], leaf[2] + more[2]>> :
          leaf \in {l \in tree : l[2] > last}, more \in Intra16Paths(1, <<8, 9, 9, 10, 10>>)}

\* By the context of the first decision.
IntraMbTypeTree ==
    [ab \in 0..2 |-> {Leaf("mb_type", 0, <<<<ab, 0>>>>, 0)}
                     \cup {<<Coded("mb_type", 0, <<<<ab, 1>>>>) \o more[1], 1 + more[2]>> :
                           more \in Intra16Paths(0, <<4, 5, 6, 7, 8>>)}]

PMbTypeTree ==
    LET L(pairs, v) == Leaf("mb_type", 1, pairs, v)
    IN  WithIntra16({L(<<<<4, 1>>, <<7, 1>>>>, 7), L(<<<<4, 1>>, <<7, 0>>>>, 6),
                     L(<<<<4, 0>>, <<5, 1>>, <<7, 1>>>>, 2), L(<<<<4, 0>>, <<5, 1>>, <<7, 0>>>>, 3),
                     L(<<<<4, 0>>, <<5, 0>>, <<6, 1>>>>, 4), L(<<<<4, 0>>, <<5, 0>>, <<6, 0>>>>, 1)}, 6)

BMbTypeTree ==
    LET L(pairs, v) == Leaf("mb_type", 2, pairs, v)
        Sum(b3, b2, b1) == 12 + 8 * b3 + 4 * b2 + 2 * b1
        Short(s) == IF s = 24 THEN 11 ELSE 22
    IN  [ab \in 0..2 |-> WithIntra16(
            {L(<<<<ab, 0>>>>, 0)}
            \cup {L(<<<<ab, 1>>, <<4, 0>>, <<6, b>>>>, 1 + b) : b \in ABit}
            \cup {L(<<<<ab, 1>>, <<4, 1>>, <<5, 0>>>> \o Digits(6, <<b3, b2, b1>>), 3 + 4 * b3 + 2 * b2 + b1) :
                  b3 \in ABit, b2 \in ABit, b1 \in ABit}
            \cup {L(<<<<ab, 1>>, <<4, 1>>, <<5, 1>>>> \o Digits(6, b), Short(Sum(b[1], b[2], b[3]))) :
                  b \in {d \in ABit \X ABit \X ABit : Sum(d[1], d[2], d[3]) \in {24, 26}}}
            \cup {L(<<<<ab, 1>>, <<4, 1>>, <<5, 1>>>> \o Digits(6, b),
                    (IF Sum(b[1], b[2], b[3]) = 22 THEN 23 ELSE Sum(b[1], b[2], b[3])) + b[4]) :
                  b \in {d \in ABit \X ABit \X ABit \X ABit : Sum(d[1], d[2], d[3]) \notin {24, 26}}}, 23)]

PB8TypeTree ==
    LET L(pairs, v) == Leaf("b8_type", 0, pairs, v)
    IN  {L(<<<<1, 1>>>>, 0), L(<<<<1, 0>>, <<3, 1>>, <<4, 1>>>>, 2), L(<<<<1, 0>>, <<3, 1>>, <<4, 0>>>>, 3), L(<<<<1, 0>>, <<3, 0>>>>, 1)}

BB8TypeTree ==
    LET L(pairs, v) == Leaf("b8_type", 1, pairs, v)
    IN  {L(<<<<0, 0>>>>, 0)}
        \cup {L(<<<<0, 1>>, <<1, 0>>, <<3, b>>>>, 1 + b) : b \in ABit}
        \cup {L(<<<<0, 1>>, <<1, 1>>, <<2, 0>>, <<3, b2>>, <<3, b1>>>>, 3 + 2 * b2 + b1) : b2 \in ABit, b1 \in ABit}
        \cup {L(<<<<0, 1>>, <<1, 1>>, <<2, 1>>, <<3, 1>>, <<3, b>>>>, 11 + b) : b \in ABit}
        \cup {L(<<<<0, 1>>, <<1, 1>>, <<2, 1>>, <<3, 0>>, <<3, b2>>, <<3, b1>>>>, 7 + 2 * b2 + b1) : b2 \in ABit, b1 \in ABit}
=============================================================================
