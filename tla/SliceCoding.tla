------------------------------ MODULE SliceCoding ------------------------------
(***************************************************************************)
(* The macroblocks of a picture, into slices and back: the coding loop of  *)
(* the encoder (lencod: image.c, slice.c, macroblock.c), and the decoding  *)
(* loop of the decoder (ldecod: image.c, macroblock.c). A slice is the     *)
(* sequence of its syntax elements, each with its size in bits, as far as  *)
(* they say which macroblocks it has; a coded macroblock is the size of    *)
(* the rest, and 0 is a skipped one.                                       *)
(***************************************************************************)
EXTENDS SliceGroups

CONSTANTS
    CodingSetups    \* [pps, cycle, w, h, coding, type, symbol_mode, slice_mode, slice_argument, sizes]

VARIABLES
    setup,          \* the configuration, and the slice group of every macroblock
    stage,          \* "CONFIGURE", "SLICE", "MACROBLOCK", "DECODE", "END"
    encoding,
    decoding

codingVars == <<setup, stage, encoding, decoding>>

HeaderBits == 10

MbaffFrameFlag == setup.coding = "MBAFF"
MBAmap == setup.map
MbAddresses == DOMAIN MBAmap
total_number_mb == Cardinality(MbAddresses)
Even(n) == n % 2 = 0

\* The one element of a set. {F(x) : x \in {e}} evaluates e once.
Only(S) == CHOOSE x \in S : TRUE

\* From the pair to the left, or the one above, of the same slice.
field_flag_inference(mb, n) ==
    LET pair == n - (n % 2)
        Avail(m) == m >= 0 /\ mb[m].slice_nr = mb[n].slice_nr
        A == pair - 2
        B == pair - 2 * setup.w
    IN  IF (pair \div 2) % setup.w # 0 /\ Avail(A) THEN mb[A].field
        ELSE IF Avail(B) THEN mb[B].field ELSE FALSE

----------------------------------------------------------------------------
(* The bitstream of a slice: what has been written, and the position, in   *)
(* bits, of the next element. The position can be set back, and forth      *)
(* again over what was left there.                                         *)

El(name, v, bits) == [el |-> name, v |-> v, bits |-> bits, ctx |-> FALSE]
Flag(b) == IF b THEN 1 ELSE 0
Garbage == El("GARBAGE", 0, 0)
ue_bits(v) == CASE v = 0 -> 1 [] v \in 1..2 -> 3 [] v \in 3..6 -> 5 [] OTHER -> 7
SkipRun(v) == El("mb_skip_run", v, ue_bits(v))

BitCount(s) == FoldLeft(LAMBDA sum, el : sum + el.bits, 0, s)

\* What lies before the position.
Contents(buf, at) ==
    LET whole == {i \in 0..Len(buf) : BitCount(SubSeq(buf, 1, i)) <= at}
        Cut(s) == IF BitCount(s) = at THEN s ELSE Append(s, Garbage)
    IN  Only({Cut(SubSeq(buf, 1, n)) : n \in {Max(whole)}})

Put(e, el) == [e EXCEPT !.buf = Append(Contents(@, e.at), el), !.at = @ + el.bits]

----------------------------------------------------------------------------
(* The encoder. end and recode are end_of_slice and recode_macroblock.     *)

use_bitstream_backing == setup.slice_mode \in {"FIXED_RATE", "CALLBACK"}

StoreMacroblock(e, n, field) ==
    [e EXCEPT !.current_mb_nr = n, !.mb[n].field = field, !.mb[n].slice_nr = e.current_slice_nr,
              !.stored = IF use_bitstream_backing /\ e.cod_counter = 0 THEN e.at ELSE @]

\* write_one_macroblock up to the rest of a coded macroblock. In an I slice,
\* with CABAC, and with variable length codes.
writeMBHeader(e, n, eos_bit) ==
    LET m == e.mb[n]
        skip == m.kind = 0
        prevMbSkipped == ~Even(n) /\ e.mb[n - 1].kind = 0
        Field(q) == IF MbaffFrameFlag /\ (Even(n) \/ prevMbSkipped) THEN Put(q, El("mb_field", Flag(m.field), 1)) ELSE q
        Coded(q) == Put(Field(q), El("mb_type", m.kind, m.kind))
        Terminated == IF n # e.start_mb_nr /\ eos_bit THEN Put(e, El("end_of_slice", 0, 1)) ELSE e
        inferred == MbaffFrameFlag /\ IF Even(n) \/ prevMbSkipped THEN field_flag_inference(e.mb, n) ELSE m.field
        Flagged == Put(Terminated, [El("mb_skip_flag", Flag(skip), 1) EXCEPT !.ctx = inferred])
    IN  CASE setup.symbol_mode = "CABAC" /\ setup.type = "I" -> Coded(Terminated)
          [] setup.symbol_mode = "CABAC" /\ setup.type = "P" -> IF skip THEN Flagged ELSE Coded(Flagged)
          [] setup.symbol_mode = "UVLC" /\ setup.type = "I" -> Coded(e)
          [] setup.symbol_mode = "UVLC" /\ setup.type = "P" ->
                 IF skip THEN [e EXCEPT !.cod_counter = @ + 1]
                 ELSE Coded([Put(e, SkipRun(e.cod_counter)) EXCEPT !.cod_counter = 0])

\* bits_to_go is 8 at the beginning of a byte.
slice_too_big(e, rlc_bits) ==
    LET t == HeaderBits + e.at
        size == (t \div 8) + (IF t % 8 # 0 THEN 1 ELSE 0) + (IF 8 - (t % 8) < rlc_bits THEN 1 ELSE 0)
    IN  IF setup.symbol_mode = "UVLC" THEN size > setup.slice_argument ELSE t > 8 * setup.slice_argument

LastOfGroup(n) == n = FmoGetLastCodedMBOfSliceGroup(MBAmap, MBAmap[n])

\* case FIXED_RATE: the run is written to see whether it fits, and taken back.
TooMuch(e, new_slice) ==
    LET rlc_bits == IF e.cod_counter = 0 THEN 0 ELSE ue_bits(e.cod_counter)
        Tried(w) == IF e.cod_counter = 0 THEN e ELSE [w EXCEPT !.skip_at = w.at, !.at = e.stored, !.skip = TRUE]
        last == LastOfGroup(e.current_mb_nr)
        Settled(big) == e.cod_counter = 0 /\ IF new_slice THEN big \/ last ELSE ~big
        Decided(q, big) == [q EXCEPT !.recode = ~new_slice /\ big, !.end = @ \/ big \/ last, !.skip = @ /\ ~Settled(big),
                                     !.num_mb = IF ~new_slice /\ big THEN @ ELSE @ + 1]
    IN  Only({Decided(q, slice_too_big(q, rlc_bits)) : q \in {Tried(Put(e, SkipRun(e.cod_counter)))}})

ByMode(e, new_slice) ==
    LET n == e.current_mb_nr
    IN  CASE setup.slice_mode = "NO_SLICES" ->
                 [e EXCEPT !.num_mb = @ + 1, !.recode = FALSE,
                           !.end = @ \/ e.num_mb + 1 = total_number_mb \/ LastOfGroup(n)]
          [] setup.slice_mode = "FIXED_MB" ->
                 [e EXCEPT !.num_mb = @ + 1, !.recode = FALSE,
                           !.end = LastOfGroup(n) \/ e.num_mb + 1 >= setup.slice_argument]
          [] setup.slice_mode = "FIXED_RATE" -> TooMuch(e, new_slice)
          [] setup.slice_mode = "CALLBACK" -> \* dummy_slice_too_big: never
                 [e EXCEPT !.recode = FALSE, !.end = @ \/ LastOfGroup(n)]

\* Mutant: a slice ends as if its last macroblock were coded.
terminate_macroblock_no_run(e) ==
    LET prev == FmoGetPreviousMBNr(MBAmap, e.current_mb_nr)
    IN  ByMode(e, prev < 0 \/ e.mb[prev].slice_nr # e.current_slice_nr)

\* With the skipped macroblocks before the end of a slice.
terminate_macroblock(e) ==
    LET prev == FmoGetPreviousMBNr(MBAmap, e.current_mb_nr)
        Ended(r) ==
            IF r.end /\ r.skip /\ r.cod_counter > 0 /\ r.recode
            THEN [(IF r.cod_counter > 1 THEN Put(r, SkipRun(r.cod_counter - 1)) ELSE r) EXCEPT !.cod_counter = 0]
            ELSE IF r.end /\ r.skip THEN [r EXCEPT !.at = r.skip_at, !.cod_counter = 0, !.skip = FALSE]
            ELSE IF r.end /\ r.cod_counter > 0 /\ ~use_bitstream_backing
            THEN [Put(r, SkipRun(r.cod_counter)) EXCEPT !.cod_counter = 0]
            ELSE r
        modes == {ByMode(e, prev < 0 \/ e.mb[prev].slice_nr # e.current_slice_nr)}
    IN  Only({Ended(IF b.recode THEN [b EXCEPT !.at = e.stored] ELSE b) : b \in modes})

Sent(e, n) == [e EXCEPT !.sent = Append(@, <<n, e.mb[n].kind, e.mb[n].field>>)]

WriteMacroblock(e, n, kind, field, eos_bit) ==
    LET stored == {[StoreMacroblock(e, n, field) EXCEPT !.mb[n].kind = kind]}
    IN  Only({terminate_macroblock(w) : w \in {writeMBHeader(s, n, eos_bit) : s \in stored}})

\* terminate_slice, and the end of a slice in code_a_picture: the next one of
\* the group begins after the last macroblock, or with the one taken back.
EndSlice(e) ==
    LET n == e.current_mb_nr
        t == IF setup.symbol_mode = "CABAC" THEN Put(e, El("end_of_slice", 1, 1)) ELSE e
    IN  [t EXCEPT !.FirstMBInSlice[MBAmap[n]] = FmoGetNextMBNr(MBAmap, n), !.current_slice_nr = @ + 1]

----------------------------------------------------------------------------
(* The decoder. v is the value of the syntax element read last. *)

TakeElement(d, name, ctx) ==
    IF d.in # <<>> /\ Head(d.in).el = name /\ Head(d.in).ctx = ctx
    THEN [d EXCEPT !.v = Head(d.in).v, !.in = Tail(@)]
    ELSE [d EXCEPT !.v = 0, !.failed = TRUE]

TakeField(d, n) == LET t == TakeElement(d, "mb_field", FALSE) IN [t EXCEPT !.mb[n].field = (t.v = 1)]
TakeType(d, n) == LET t == TakeElement(d, "mb_type", FALSE) IN [t EXCEPT !.mb[n].kind = t.v]

TopSkipped(d, n) == ~Even(n) /\ d.mb[n - 1].kind = 0

ReadIntra(d, n) == TakeType(IF MbaffFrameFlag /\ Even(n) THEN TakeField(d, n) ELSE d, n)

\* check_next_mb_and_get_field_mode_CABAC: what the lower macroblock will
\* read, without reading it.
LookAhead(d, n) ==
    LET t == TakeElement(d, "mb_skip_flag", d.mb[n].field)
        f == TakeField(t, n)
    IN  [(IF t.v = 0 THEN f ELSE t) EXCEPT !.in = d.in]

ReadSkipFlag(d, n) ==
    LET i == IF MbaffFrameFlag /\ (Even(n) \/ TopSkipped(d, n))
             THEN [d EXCEPT !.mb[n].field = field_flag_inference(d.mb, n)] ELSE d
        t == TakeElement(i, "mb_skip_flag", i.mb[n].field)
    IN  IF t.v = 1
        THEN IF MbaffFrameFlag /\ Even(n) THEN LookAhead(t, n) ELSE t
        ELSE TakeType(IF MbaffFrameFlag /\ (Even(n) \/ TopSkipped(d, n)) THEN TakeField(t, n) ELSE t, n)

\* mb_skip_run. The field flag of a skipped upper macroblock is that of the
\* lower one, which is next in the stream if it is coded.
ReadSkipRun(d, n) ==
    LET t == IF d.cod_counter = -1
             THEN LET r == TakeElement(d, "mb_skip_run", FALSE) IN [r EXCEPT !.cod_counter = r.v] ELSE d
        left == [t EXCEPT !.cod_counter = @ - 1]
    IN  IF t.cod_counter = 0
        THEN TakeType(IF MbaffFrameFlag /\ (Even(n) \/ TopSkipped(d, n)) THEN TakeField(left, n) ELSE left, n)
        ELSE IF ~MbaffFrameFlag \/ ~Even(n) THEN left
        ELSE IF left.cod_counter = 0 THEN [TakeField(left, n) EXCEPT !.in = t.in]
        ELSE [left EXCEPT !.mb[n].field = field_flag_inference(d.mb, n)]

read_one_macroblock(d, n) ==
    LET above == MbaffFrameFlag /\ ~Even(n) /\ d.mb[n - 1].field
        s == [d EXCEPT !.mb[n] = [slice_nr |-> d.current_slice_nr, kind |-> 0, field |-> above]]
    IN  CASE setup.type = "I" -> ReadIntra(s, n)
          [] setup.type = "P" /\ setup.symbol_mode = "CABAC" -> ReadSkipFlag(s, n)
          [] setup.type = "P" /\ setup.symbol_mode = "UVLC" -> ReadSkipRun(s, n)

\* v is 1 when the slice has ended.
nal_startcode_follows(d, eos_bit) ==
    IF setup.symbol_mode = "UVLC" THEN [d EXCEPT !.v = Flag(d.in = <<>>)]
    ELSE IF ~eos_bit THEN [d EXCEPT !.v = 0]
    ELSE TakeElement(d, "end_of_slice", FALSE)

\* Where nothing can follow, that is asserted.
exit_macroblock(d, n) ==
    LET q == [d EXCEPT !.num_dec_mb = @ + 1]
        next == IF q.num_dec_mb = total_number_mb THEN n ELSE FmoGetNextMBNr(MBAmap, n)
        t == nal_startcode_follows([q EXCEPT !.current_mb_nr = next], ~MbaffFrameFlag \/ ~Even(n))
    IN  IF q.num_dec_mb = total_number_mb \/ next = -1
        THEN [t EXCEPT !.failed = @ \/ t.v # 1, !.end = TRUE]
        ELSE [t EXCEPT !.end = t.v = 1 /\ (setup.type = "I" \/ setup.symbol_mode = "CABAC" \/ t.cod_counter <= 0)]

----------------------------------------------------------------------------
NoSetup == [coding |-> "NONE"]
Nothing == [buf |-> <<>>]

SliceCodingInit == setup = NoSetup /\ stage = "CONFIGURE" /\ encoding = Nothing /\ decoding = Nothing

\* code_a_picture up to its loop: FmoInit, FmoStartPicture.
ConfigureCoding ==
    /\ stage = "CONFIGURE"
    /\ \E s \in CodingSetups :
        setup' = [map |-> FmoGenerateMBAmap(s.pps, s.cycle, s.w, s.h, s.coding)] @@ s
    /\ LET mb == [n \in MbAddresses' |-> [slice_nr |-> -1, kind |-> 0, field |-> FALSE]]
       IN  /\ encoding' = [FirstMBInSlice |-> [g \in 0..7 |-> FmoGetFirstMBOfSliceGroup(MBAmap', g)], SliceGroup |-> 0,
                      current_slice_nr |-> 0, addr |-> 0, current_mb_nr |-> 0, start_mb_nr |-> 0, num_mb |-> 0,
                      cod_counter |-> 0, skip |-> FALSE, end |-> FALSE, recode |-> FALSE, buf |-> <<>>, at |-> 0,
                      stored |-> 0, skip_at |-> 0, mb |-> mb, sent |-> <<>>]
           /\ decoding' = [in |-> <<>>, v |-> 0, failed |-> FALSE, end |-> FALSE, cod_counter |-> -1,
                      current_mb_nr |-> 0, current_slice_nr |-> 0, num_dec_mb |-> 0, mb |-> mb, got |-> <<>>]
    /\ stage' = "SLICE"

\* The next slice, of the first group that is not completely coded. The loop
\* counts coded macroblocks: it ends when every one is.
BeginSlice ==
    /\ stage = "SLICE"
    /\ Len(encoding.sent) < total_number_mb
    /\ LET g == Min({k \in DOMAIN encoding.FirstMBInSlice : k >= encoding.SliceGroup /\ encoding.FirstMBInSlice[k] >= 0})
           first == encoding.FirstMBInSlice[g]
       IN  encoding' = [encoding EXCEPT !.SliceGroup = g, !.addr = first, !.start_mb_nr = first, !.num_mb = 0, !.cod_counter = 0,
                              !.end = FALSE, !.buf = <<>>, !.at = 0]
    /\ stage' = "MACROBLOCK"
    /\ UNCHANGED <<setup, decoding>>

EndPicture ==
    /\ stage = "SLICE"
    /\ Len(encoding.sent) = total_number_mb
    /\ stage' = "END"
    /\ UNCHANGED <<setup, encoding, decoding>>

KindChoices == setup.sizes \cup IF setup.type = "P" THEN {0} ELSE {}

\* The slice goes to the decoder when it ends.
AfterMacroblock(e) ==
    /\ encoding' = IF e.end THEN EndSlice(e) ELSE e
    /\ stage' = IF e.end THEN "DECODE" ELSE stage
    /\ decoding' = IF e.end
              THEN [decoding EXCEPT !.in = Contents(encoding'.buf, encoding'.at), !.current_mb_nr = e.start_mb_nr,
                               !.current_slice_nr = e.current_slice_nr, !.cod_counter = -1, !.end = FALSE]
              ELSE decoding
    /\ UNCHANGED setup

encode_one_macroblock ==
    /\ stage = "MACROBLOCK" /\ ~MbaffFrameFlag
    /\ \E kind \in KindChoices :
        \E e \in {WriteMacroblock(encoding, encoding.addr, kind, FALSE, TRUE)} :
            LET next == FmoGetNextMBNr(MBAmap, encoding.addr)
            IN  AfterMacroblock(IF e.recode THEN [e EXCEPT !.current_mb_nr = FmoGetPreviousMBNr(MBAmap, encoding.addr)]
                                ELSE Sent([e EXCEPT !.addr = next, !.end = @ \/ next = -1], encoding.addr))

\* The test behind a pair. At the end of the group it looks up the group of
\* macroblock -1, before the beginning of the map: either outcome.
EndsBehind(next) == IF next = -1 THEN BOOLEAN ELSE {LastOfGroup(next)}

\* The pair is written after it has been coded as frame and as field (adaptive
\* coding); the choice must be the inferred one when both are skipped.
encode_macroblock_pair ==
    /\ stage = "MACROBLOCK" /\ MbaffFrameFlag
    /\ \E field \in BOOLEAN, top, bottom \in KindChoices :
        LET n == encoding.addr
        IN  \E t \in {WriteMacroblock(encoding, n, top, field, TRUE)} :
            \E e \in {WriteMacroblock(Sent(t, n), n + 1, bottom, field, FALSE)} :
                LET next == FmoGetNextMBNr(MBAmap, n + 1)
                IN  /\ top = 0 /\ bottom = 0 => field = field_flag_inference(t.mb, n)
                    /\ \E ends \in EndsBehind(next) :
                          AfterMacroblock(Sent([e EXCEPT !.addr = next, !.end = @ \/ ends], n + 1))

\* decode_one_slice.
decode_one_macroblock ==
    /\ stage = "DECODE"
    /\ LET n == decoding.current_mb_nr
           r == read_one_macroblock(decoding, n)
           x == exit_macroblock([r EXCEPT !.got = Append(@, <<n, r.mb[n].kind, r.mb[n].field>>)], n)
       IN  /\ decoding' = x
           /\ stage' = IF x.failed THEN "END" ELSE IF x.end THEN "SLICE" ELSE stage
    /\ UNCHANGED <<setup, encoding>>

SliceCodingNext ==
    \/ ConfigureCoding \/ BeginSlice \/ EndPicture
    \/ encode_one_macroblock \/ encode_macroblock_pair
    \/ decode_one_macroblock

----------------------------------------------------------------------------
\* What the decoder makes of a slice is what the encoder put in: the same
\* macroblocks, skipped or coded, in the same order and of the same kind of
\* pair, although runs are counted, written, taken back and inferred; and at the
\* end of a picture every macroblock has been decoded once.
SlicesDecodeAsCoded ==
    /\ stage \in {"SLICE", "END"} => ~decoding.failed /\ decoding.got = encoding.sent
    /\ stage = "END" => \A n \in MbAddresses : Cardinality({i \in DOMAIN decoding.got : decoding.got[i][1] = n}) = 1

\* The group that grows from picture to picture (box-out, raster scan, wipe) has
\* the units that the change rate and cycle give it, in one piece, and keeps
\* those it had. Of the wipe it is group 1, where the others have group 0.
GroupsEvolve ==
    stage = "SLICE" /\ setup.pps.num_slice_groups_minus1 # 0 /\ setup.pps.slice_group_map_type \in 3..5 =>
        LET w == setup.w
            Grown(c) == LET unit == FmoGenerateMapUnitToSliceGroupMap(setup.pps, c, w, setup.h)
                        IN  {i \in DOMAIN unit : unit[i] = IF setup.pps.slice_group_map_type = 5 THEN 1 ELSE 0}
            now == Grown(setup.cycle)
            Reach(S) == {i \in now : i \in S \/ {i - w, i + w} \cap S # {}
                                        \/ (i % w # 0 /\ i - 1 \in S) \/ (i % w # w - 1 /\ i + 1 \in S)}
            piece == FoldLeft(LAMBDA S, i : Reach(S), {CHOOSE i \in now : TRUE}, [i \in 1..(w * setup.h) |-> i])
        IN  /\ Cardinality(now) = mapUnitsInSliceGroup0(setup.pps, setup.cycle, w, setup.h)
            /\ now \subseteq Grown(setup.cycle + 1)
            /\ now # {} => piece = now
=============================================================================
