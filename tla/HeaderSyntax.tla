----------------------------- MODULE HeaderSyntax -----------------------------
(***************************************************************************)
(* Parameter sets and slice headers: the encoder writes them element by    *)
(* element (lencod: parset.c, header.c), the decoder reads them by its own *)
(* conditions (ldecod: parset.c, header.c). Nothing in the stream says     *)
(* which element comes next: the decoder must take the same branch at each *)
(* place, with what it has read or kept so far.                            *)
(*                                                                         *)
(* A stream is a sequence of <<code, value>>, a code being ue(v), se(v) or *)
(* u(n). The decoder keeps its variables from one slice to the next, so    *)
(* what a header does not carry is what it was before, or what the code    *)
(* sets in its place.                                                      *)
(***************************************************************************)
EXTENDS Integers, SequencesExt

CONSTANTS
    Default,        \* the encoder's fields as they are first
    Settings,       \* the values of the configuration that may change, by field
    SliceValues,    \* the values that may change from slice to slice, by field
    MaxChanges,     \* changes in a behaviour
    MaxSlices       \* slices written

VARIABLES
    enc,            \* the encoder's parameter sets and slice: field -> value
    dec,            \* the decoder's, all zero at first
    slices,         \* slices written; -1 before the parameter sets
    changes,        \* changes made
    exact,          \* the last unit was read with the codes it was written with, to its end
    fresh           \* the decoder has just read

headerVars == <<enc, dec, slices, changes, exact, fresh>>

B_SLICE == 1
P_SLICE == 0
I_SLICE == 2
SP_SLICE == 3
SI_SLICE == 4

----------------------------------------------------------------------------
(* The encoder. *)

ue_v(v) == <<<<"ue", 0>>, v>>
se_v(v) == <<<<"se", 0>>, v>>
u_v(n, v) == <<<<"u", n>>, v>>
u_1(v) == u_v(1, v)
Opt(c, s) == IF c THEN s ELSE <<>>
Each(n, F(_)) == FlattenSeq([i \in 1..n |-> F(i)])

GenerateSeq_parameter_set_rbsp(e) ==
    <<u_v(8, e.profile_idc), u_1(e.constrained_set0_flag), u_1(0), u_1(0), u_v(5, 0), u_v(8, e.level_idc),
      ue_v(e.seq_parameter_set_id), ue_v(e.log2_max_frame_num_minus4), ue_v(e.pic_order_cnt_type)>>
    \o Opt(e.pic_order_cnt_type = 0, <<ue_v(e.log2_max_pic_order_cnt_lsb_minus4)>>)
    \o Opt(e.pic_order_cnt_type = 1,
           <<u_1(e.delta_pic_order_always_zero_flag), se_v(e.offset_for_non_ref_pic),
             se_v(e.offset_for_top_to_bottom_field), ue_v(Len(e.offset_for_ref_frame))>>
           \o Each(Len(e.offset_for_ref_frame), LAMBDA i : <<se_v(e.offset_for_ref_frame[i])>>))
    \o <<ue_v(e.num_ref_frames), u_1(0), ue_v(e.pic_width_in_mbs_minus1),
         ue_v(e.pic_height_in_map_units_minus1), u_1(e.frame_mbs_only_flag)>>
    \o Opt(e.frame_mbs_only_flag = 0, <<u_1(e.mb_adaptive_frame_field_flag)>>)
    \o <<u_1(e.direct_8x8_inference_flag), u_1(0), u_1(0)>>

NumberBitsPerSliceGroupId(num_slice_groups_minus1) ==
    CASE num_slice_groups_minus1 >= 4 -> 3
      [] num_slice_groups_minus1 \in 2..3 -> 2
      [] num_slice_groups_minus1 = 1 -> 1
      [] OTHER -> 0

\* The default length of the lists: fields may refer to twice as many.
default_num_ref_idx_active(e) == IF e.frame_mbs_only_flag = 1 THEN e.num_ref_frames ELSE 2 * e.num_ref_frames

GeneratePic_parameter_set_rbsp(e) ==
    LET n == e.num_slice_groups_minus1
        map == e.slice_group_map_type
    IN  <<ue_v(e.pic_parameter_set_id), ue_v(e.seq_parameter_set_id), u_1(e.entropy_coding_mode_flag),
          u_1(e.pic_order_present_flag), ue_v(n)>>
        \o Opt(n > 0,
              <<ue_v(map)>>
              \o Opt(map = 0, Each(n + 1, LAMBDA i : <<ue_v(e.group[i])>>))
              \o Opt(map = 2, Each(n, LAMBDA i : <<ue_v(e.group[2 * i - 1]), ue_v(e.group[2 * i])>>))
              \o Opt(map \in 3..5, <<u_1(e.slice_group_change_direction_flag),
                                     ue_v(e.slice_group_change_rate_minus1)>>)
              \o Opt(map = 6, <<ue_v(Len(e.group) - 1)>>
                              \o Each(Len(e.group), LAMBDA i : <<u_v(NumberBitsPerSliceGroupId(n), e.group[i])>>)))
        \o <<ue_v(default_num_ref_idx_active(e) - 1), ue_v(default_num_ref_idx_active(e) - 1), u_1(e.weighted_pred_flag),
             u_v(2, e.weighted_bipred_idc), se_v(0), se_v(0), se_v(e.chroma_qp_index_offset),
             u_1(e.deblocking_filter_control_present_flag), u_1(e.constrained_intra_pred_flag), u_1(0)>>

\* Commands are [op |-> idc, args |-> <<...>>], the last one ending the list.
ref_pic_list_reordering(flag, ops) ==
    <<u_1(flag)>> \o Opt(flag = 1, Each(Len(ops), LAMBDA i :
                        <<ue_v(ops[i].op)>> \o Opt(ops[i].op # 3, <<ue_v(ops[i].args[1])>>)))

dec_ref_pic_marking(e) ==
    IF e.idr_flag THEN <<u_1(e.no_output_of_prior_pics_flag), u_1(e.long_term_reference_flag)>>
    ELSE <<u_1(IF e.marking # <<>> THEN 1 ELSE 0)>>
         \o Each(Len(e.marking), LAMBDA i :
               LET c == e.marking[i]
               IN  <<ue_v(c.op)>> \o Each(Len(c.args), LAMBDA a : <<ue_v(c.args[a])>>))

\* weights[i] is <<weight and offset of Y, of U, of V>>; only what differs from
\* the default is written.
pred_weight_table(e) ==
    LET Plain(denom) == <<2 ^ denom, 0>>
        Pair(w) == <<se_v(w[1]), se_v(w[2])>>
        Entry(w) == (IF w[1] = Plain(e.luma_log_weight_denom) THEN <<u_1(0)>> ELSE <<u_1(1)>> \o Pair(w[1]))
                    \o (IF w[2] = Plain(e.chroma_log_weight_denom) /\ w[3] = Plain(e.chroma_log_weight_denom)
                        THEN <<u_1(0)>> ELSE <<u_1(1)>> \o Pair(w[2]) \o Pair(w[3]))
    IN  <<ue_v(e.luma_log_weight_denom), ue_v(e.chroma_log_weight_denom)>>
        \o Each(e.num_ref_idx_l0_active, LAMBDA i : Entry(e.weights[i]))
        \o Opt(e.type = B_SLICE, Each(e.num_ref_idx_l1_active, LAMBDA i : Entry(e.weights[i + 1])))

\* get_picture_type: the same type for the whole picture.
get_picture_type(e) == e.type + 5

MapUnits(e) == (e.pic_width_in_mbs_minus1 + 1) * (e.pic_height_in_map_units_minus1 + 1)

\* (int)ceil(log(size / (float)rate + 1) / log(2))
ChangeCycleBits(e) ==
    CHOOSE n \in 0..31 : LET rate == e.slice_group_change_rate_minus1 + 1
                         IN  /\ 2 ^ n * rate >= MapUnits(e) + rate
                             /\ n > 0 => 2 ^ (n - 1) * rate < MapUnits(e) + rate

SliceHeader(e) ==
    LET field == e.structure # "FRAME"
        mbaff == e.mb_adaptive_frame_field_flag = 1 /\ ~field
        override == IF \/ e.num_ref_idx_l0_active # default_num_ref_idx_active(e)
                       \/ e.type = B_SLICE /\ e.num_ref_idx_l1_active # default_num_ref_idx_active(e)
                    THEN 1 ELSE 0
        present == e.pic_order_present_flag = 1 /\ ~field
    IN  <<ue_v(IF mbaff THEN e.first_mb \div 2 ELSE e.first_mb), ue_v(get_picture_type(e)),
          ue_v(e.pic_parameter_set_id), u_v(e.log2_max_frame_num_minus4 + 4, e.frame_num)>>
        \o Opt(e.frame_mbs_only_flag = 0,
               <<u_1(IF field THEN 1 ELSE 0)>>
               \o Opt(field, <<u_1(IF e.structure = "BOTTOM_FIELD" THEN 1 ELSE 0)>>))
        \o Opt(e.idr_flag, <<ue_v(0)>>)
        \o Opt(e.pic_order_cnt_type = 0,
               <<u_v(e.log2_max_pic_order_cnt_lsb_minus4 + 4, e.pic_order_cnt_lsb)>>
               \o Opt(present, <<se_v(e.delta_pic_order_cnt_bottom)>>))
        \o Opt(e.pic_order_cnt_type = 1 /\ e.delta_pic_order_always_zero_flag = 0,
               <<se_v(e.delta_pic_order_cnt_0)>> \o Opt(present, <<se_v(e.delta_pic_order_cnt_1)>>))
        \o Opt(e.redundant_slice_flag = 1, <<ue_v(e.redundant_pic_cnt)>>)
        \o Opt(e.type = B_SLICE, <<u_1(e.direct_type)>>)
        \o Opt(e.type \in {P_SLICE, B_SLICE, SP_SLICE},
               <<u_1(override)>>
               \o Opt(override = 1, <<ue_v(e.num_ref_idx_l0_active - 1)>>
                                    \o Opt(e.type = B_SLICE, <<ue_v(e.num_ref_idx_l1_active - 1)>>)))
        \o Opt(e.type # I_SLICE, ref_pic_list_reordering(e.ref_pic_list_reordering_flag_l0, e.reordering_l0))
        \o Opt(e.type = B_SLICE, ref_pic_list_reordering(e.ref_pic_list_reordering_flag_l1, e.reordering_l1))
        \o Opt(\/ e.type \in {P_SLICE, SP_SLICE} /\ e.weighted_pred_flag = 1
               \/ e.type = B_SLICE /\ e.weighted_bipred_idc = 1, pred_weight_table(e))
        \o Opt(e.nal_reference_idc # 0, dec_ref_pic_marking(e))
        \o Opt(e.entropy_coding_mode_flag = 1 /\ e.type # I_SLICE, <<ue_v(e.model_number)>>)
        \o <<se_v(e.qp - 26)>>
        \o Opt(e.type = SP_SLICE, <<u_1(0), se_v(e.qpsp - 26)>>)
        \o Opt(e.deblocking_filter_control_present_flag = 1,
               <<ue_v(e.LFDisableIdc)>>
               \o Opt(e.LFDisableIdc # 1, <<se_v(e.LFAlphaC0Offset \div 2), se_v(e.LFBetaOffset \div 2)>>))
        \o Opt(e.num_slice_groups_minus1 > 0 /\ e.slice_group_map_type \in 3..5,
               <<u_v(ChangeCycleBits(e), e.slice_group_change_cycle)>>)
        \o Opt(e.partition_mode = 1 /\ ~e.idr_flag, <<ue_v(e.slice_id)>>)

----------------------------------------------------------------------------
(* The decoder: s.h are its variables, s.rest what is left of the stream.   *)
(* A code other than the one written reads something else than was meant.  *)

ue(name) == <<<<"ue", 0>>, name>>
se(name) == <<<<"se", 0>>, name>>
u(n, name) == <<<<"u", n>>, name>>

Read(s, elements) ==
    FoldLeft(LAMBDA a, e :
                IF a.rest = <<>> THEN [a EXCEPT !.ok = FALSE]
                ELSE [h |-> [a.h EXCEPT ![e[2]] = Head(a.rest)[2]],
                      rest |-> Tail(a.rest),
                      ok |-> a.ok /\ Head(a.rest)[1] = e[1]], s, elements)

When(c, s, elements) == IF c THEN Read(s, elements) ELSE s
Set(s, name, v) == [s EXCEPT !.h[name] = v]

\* An array: n elements in turn.
ReadEach(s, n, code, name) ==
    FoldLeft(LAMBDA a, i : LET b == Read(a, <<<<code, "val">>>>)
                           IN  Set(b, name, Append(b.h[name], b.h.val)),
             Set(s, name, <<>>), [i \in 1..n |-> i])

InterpretSPS(s) ==
    LET First(a) == Read(a, <<u(8, "profile_idc"), u(1, "constrained_set0_flag"), u(1, "val"), u(1, "val"),
                              u(5, "val"), u(8, "level_idc"), ue("seq_parameter_set_id"),
                              ue("log2_max_frame_num_minus4"), ue("pic_order_cnt_type")>>)
        Offsets(a) == ReadEach(a, a.h.count, <<"se", 0>>, "offset_for_ref_frame")
        Poc(a) ==
            CASE a.h.pic_order_cnt_type = 0 -> Read(a, <<ue("log2_max_pic_order_cnt_lsb_minus4")>>)
              [] a.h.pic_order_cnt_type = 1 ->
                     Offsets(Read(a, <<u(1, "delta_pic_order_always_zero_flag"), se("offset_for_non_ref_pic"),
                                       se("offset_for_top_to_bottom_field"), ue("count")>>))
              [] OTHER -> a
        Size(a) == Read(a, <<ue("num_ref_frames"), u(1, "val"), ue("pic_width_in_mbs_minus1"),
                             ue("pic_height_in_map_units_minus1"), u(1, "frame_mbs_only_flag")>>)
        Mbaff(a) == When(a.h.frame_mbs_only_flag = 0, Set(a, "mb_adaptive_frame_field_flag", 0),
                         <<u(1, "mb_adaptive_frame_field_flag")>>)
    IN  Read(Mbaff(Size(Poc(First(s)))), <<u(1, "direct_8x8_inference_flag"), u(1, "val"), u(1, "val")>>)

InterpretPPS(s) ==
    LET First(a) == Read(a, <<ue("pic_parameter_set_id"), ue("seq_parameter_set_id"), u(1, "entropy_coding_mode_flag"),
                              u(1, "pic_order_present_flag"), ue("num_slice_groups_minus1")>>)
        Bits(n) == IF n + 1 > 4 THEN 3 ELSE IF n + 1 > 2 THEN 2 ELSE 1
        Units(a) == ReadEach(a, a.h.count + 1, <<"u", Bits(a.h.num_slice_groups_minus1)>>, "group")
        Map(a) ==
            CASE a.h.slice_group_map_type = 0 -> ReadEach(a, a.h.num_slice_groups_minus1 + 1, <<"ue", 0>>, "group")
              [] a.h.slice_group_map_type = 2 -> ReadEach(a, 2 * a.h.num_slice_groups_minus1, <<"ue", 0>>, "group")
              [] a.h.slice_group_map_type \in 3..5 ->
                     Read(a, <<u(1, "slice_group_change_direction_flag"), ue("slice_group_change_rate_minus1")>>)
              [] a.h.slice_group_map_type = 6 -> Units(Read(a, <<ue("count")>>))
              [] OTHER -> a
        Groups(a) == IF a.h.num_slice_groups_minus1 > 0 THEN Map(Read(a, <<ue("slice_group_map_type")>>)) ELSE a
    IN  Read(Groups(First(s)),
             <<ue("l0_default_minus1"), ue("l1_default_minus1"), u(1, "weighted_pred_flag"),
               u(2, "weighted_bipred_idc"), se("pic_init_qp_minus26"), se("pic_init_qs_minus26"),
               se("chroma_qp_index_offset"), u(1, "deblocking_filter_control_present_flag"),
               u(1, "constrained_intra_pred_flag"), u(1, "redundant_pic_cnt_present_flag")>>)

\* Commands up to the one that ends the list; Arity has the arguments of each.
RECURSIVE ReadOps(_, _, _, _)
ReadOps(s, name, last, Arity) ==
    LET Args(a) == ReadEach(a, IF a.h.op \in DOMAIN Arity THEN Arity[a.h.op] ELSE 0, <<"ue", 0>>, "args")
        Kept(b) == Set(b, name, Append(b.h[name], [op |-> b.h.op, args |-> b.h.args]))
        More(c) == IF c.h.op = last \/ ~c.ok THEN c ELSE ReadOps(c, name, last, Arity)
    IN  More(Kept(Args(Read(s, <<ue("op")>>))))

ReadReordering(s, flag, ops) ==
    LET Ops(a) == IF a.h[flag] = 1 THEN ReadOps(Set(a, ops, <<>>), ops, 3, [op \in 0..2 |-> 1]) ELSE a
    IN  Ops(Read(s, <<u(1, flag)>>))

MarkingArity == [op \in 0..6 |-> CASE op = 3 -> 2 [] op \in {1, 2, 4, 6} -> 1 [] OTHER -> 0]

ReadMarking(s) ==
    LET Ops(a) == IF a.h.adaptive_ref_pic_buffering_flag = 1 THEN ReadOps(a, "marking", 0, MarkingArity) ELSE a
    IN  IF s.h.idr_flag THEN Read(s, <<u(1, "no_output_of_prior_pics_flag"), u(1, "long_term_reference_flag")>>)
        ELSE Ops(Read(Set(s, "marking", <<>>), <<u(1, "adaptive_ref_pic_buffering_flag")>>))

\* n weights with their offsets, or the default.
ReadPairs(s, n, plain) ==
    LET Given(p) == Set(p, "entry", p.h.entry \o [j \in 1..n |-> <<p.h.args[2 * j - 1], p.h.args[2 * j]>>])
        Pairs(f) == IF f.h.val = 1 THEN Given(ReadEach(f, 2 * n, <<"se", 0>>, "args"))
                    ELSE Set(f, "entry", f.h.entry \o [j \in 1..n |-> <<2 ^ plain, 0>>])
    IN  Pairs(Read(s, <<u(1, "val")>>))

\* One entry of the table: <<Y, U, V>>.
ReadWeights(s, list) ==
    LET Entered(a) == Set(a, list, Append(a.h[list], a.h.entry))
    IN  Entered(ReadPairs(ReadPairs(Set(s, "entry", <<>>), 1, s.h.luma_log_weight_denom), 2, s.h.chroma_log_weight_denom))

ReadWeightTable(s) ==
    LET Lists(b, n, list) == FoldLeft(LAMBDA c, i : ReadWeights(c, list), b, [i \in 1..n |-> i])
        L0(a) == Lists(a, a.h.num_ref_idx_l0_active, "weights_l0")
        L1(a) == IF a.h.type = B_SLICE /\ a.h.weighted_bipred_idc = 1
                 THEN Lists(a, a.h.num_ref_idx_l1_active, "weights_l1") ELSE a
    IN  L1(L0(Read(Set(Set(s, "weights_l0", <<>>), "weights_l1", <<>>),
                   <<ue("luma_log_weight_denom"), ue("chroma_log_weight_denom")>>)))

\* Mutant: rounds down.
CeilLog2_rounds_down(n) == CHOOSE k \in 0..31 : 2 ^ k <= n /\ 2 ^ (k + 1) > n

CeilLog2(n) == CHOOSE k \in 0..31 : 2 ^ k >= n /\ (k > 0 => 2 ^ (k - 1) < n)

FirstPartOfSliceHeader(s) ==
    LET Typed(a) == Set(a, "type", IF a.h.type > 4 THEN a.h.type - 5 ELSE a.h.type)
    IN  Typed(Read(s, <<ue("start_mb_nr"), ue("type"), ue("pic_parameter_set_id")>>))

ReadStructure(s) ==
    LET Field(a) == IF a.h.frame_mbs_only_flag = 1 THEN Set(a, "field_pic_flag", 0) ELSE Read(a, <<u(1, "field_pic_flag")>>)
        Bottom(a) == IF a.h.field_pic_flag = 1 THEN Read(a, <<u(1, "bottom_field_flag")>>)
                     ELSE IF a.h.frame_mbs_only_flag = 1 THEN a ELSE Set(a, "bottom_field_flag", 0)
        Known(a) == Set(a, "structure", IF a.h.field_pic_flag = 0 THEN "FRAME"
                                        ELSE IF a.h.bottom_field_flag = 1 THEN "BOTTOM_FIELD" ELSE "TOP_FIELD")
    IN  Known(Bottom(Field(s)))

ReadOrderCount(s) ==
    LET present == s.h.pic_order_present_flag = 1 /\ s.h.field_pic_flag = 0
        Lsb(a) == Read(a, <<u(a.h.log2_max_pic_order_cnt_lsb_minus4 + 4, "pic_order_cnt_lsb")>>)
    IN  CASE s.h.pic_order_cnt_type = 0 ->
                 When(present, Set(Lsb(s), "delta_pic_order_cnt_bottom", 0), <<se("delta_pic_order_cnt_bottom")>>)
          [] s.h.pic_order_cnt_type = 1 /\ s.h.delta_pic_order_always_zero_flag = 0 ->
                 When(present, Read(s, <<se("delta_pic_order_cnt_0")>>), <<se("delta_pic_order_cnt_1")>>)
          [] s.h.pic_order_cnt_type = 1 /\ s.h.delta_pic_order_always_zero_flag = 1 ->
                 Set(Set(s, "delta_pic_order_cnt_0", 0), "delta_pic_order_cnt_1", 0)
          [] OTHER -> s

RestOfSliceHeader(s) ==
    LET FrameNum(a) == Read(a, <<u(a.h.log2_max_frame_num_minus4 + 4, "frame_num")>>)
        Idr(a) == When(a.h.idr_flag, a, <<ue("idr_pic_id")>>)
        Redundant(a) == When(a.h.redundant_pic_cnt_present_flag = 1, a, <<ue("redundant_pic_cnt")>>)
    IN  When(s.h.type = B_SLICE, Redundant(ReadOrderCount(Idr(ReadStructure(FrameNum(s))))), <<u(1, "direct_type")>>)

\* The second half: reference lists, weights, marking, quantiser, filter.
ReadReferences(s) ==
    LET type == s.h.type
        Defaults(a) == Set(Set(a, "num_ref_idx_l0_active", a.h.l0_default_minus1 + 1),
                           "num_ref_idx_l1_active", a.h.l1_default_minus1 + 1)
        L0(a) == Set(a, "num_ref_idx_l0_active", a.h.l0 + 1)
        L1(a) == Set(a, "num_ref_idx_l1_active", a.h.l1 + 1)
        Override(a) == IF a.h.val # 1 THEN a
                       ELSE IF type = B_SLICE THEN L1(L0(Read(a, <<ue("l0"), ue("l1")>>)))
                       ELSE L0(Read(a, <<ue("l0")>>))
        OneList(a) == IF type # B_SLICE THEN Set(a, "num_ref_idx_l1_active", 0) ELSE a
        Reorder0(a) == IF type \notin {I_SLICE, SI_SLICE}
                       THEN ReadReordering(a, "ref_pic_list_reordering_flag_l0", "reordering_l0") ELSE a
        Reorder1(a) == IF type = B_SLICE
                       THEN ReadReordering(a, "ref_pic_list_reordering_flag_l1", "reordering_l1") ELSE a
        inter == type \in {P_SLICE, SP_SLICE, B_SLICE}
    IN  Reorder1(Reorder0(OneList(Override(When(inter, Set(Defaults(s), "val", 0), <<u(1, "val")>>)))))

ReadQuantisers(s) ==
    LET switching == s.h.type \in {SP_SLICE, SI_SLICE}
        SetQp(a) == Set(a, "qp", 26 + a.h.pic_init_qp_minus26 + a.h.val)
        SetQpsp(a) == IF switching THEN Set(a, "qpsp", 26 + a.h.pic_init_qs_minus26 + a.h.val) ELSE a
    IN  SetQpsp(When(switching, When(s.h.type = SP_SLICE, SetQp(Read(s, <<se("val")>>)), <<u(1, "sp_switch")>>), <<se("val")>>))

ReadFilter(s) ==
    LET off == Set(Set(Set(s, "LFDisableIdc", 0), "LFAlphaC0Offset", 0), "LFBetaOffset", 0)
        Doubled(a) == Set(Set(a, "LFAlphaC0Offset", 2 * a.h.alpha), "LFBetaOffset", 2 * a.h.beta)
        Offsets(a) == IF a.h.LFDisableIdc # 1 THEN Doubled(Read(a, <<se("alpha"), se("beta")>>)) ELSE a
    IN  IF s.h.deblocking_filter_control_present_flag = 1 THEN Offsets(Read(off, <<ue("LFDisableIdc")>>)) ELSE off

ReadRest(s) ==
    LET Weights(a) == IF \/ a.h.weighted_pred_flag = 1 /\ a.h.type \in {P_SLICE, SP_SLICE}
                         \/ a.h.weighted_bipred_idc = 1 /\ a.h.type = B_SLICE
                      THEN ReadWeightTable(a) ELSE a
        Marking(a) == IF a.h.nal_reference_idc # 0 THEN ReadMarking(a) ELSE a
        Model(a) == When(a.h.entropy_coding_mode_flag = 1 /\ a.h.type \notin {I_SLICE, SI_SLICE},
                         Set(a, "model_number", 0), <<ue("model_number")>>)
        rate == s.h.slice_group_change_rate_minus1 + 1
        cycles == (MapUnits(s.h) \div rate) + (IF MapUnits(s.h) % rate # 0 THEN 1 ELSE 0)
    IN  When(s.h.num_slice_groups_minus1 > 0 /\ s.h.slice_group_map_type \in 3..5,
             ReadFilter(ReadQuantisers(Model(Marking(Weights(s))))),
             <<u(CeilLog2(cycles + 1), "slice_group_change_cycle")>>)

\* read_new_slice: the header of a slice, or of partition A with its slice_id.
ReadSliceHeader(s) ==
    LET FirstMb(a) == Set(a, "first_mb", IF a.h.mb_adaptive_frame_field_flag = 1 /\ a.h.field_pic_flag = 0
                                         THEN 2 * a.h.start_mb_nr ELSE a.h.start_mb_nr)
    IN  When(s.h.dp_mode, FirstMb(ReadRest(ReadReferences(RestOfSliceHeader(FirstPartOfSliceHeader(s))))),
             <<ue("slice_id")>>)

----------------------------------------------------------------------------
(* The steps. *)

\* What the encoder can be set to: fields and MBAFF need interlaced coding, an
\* IDR picture has I slices, is a reference and begins the numbers; the lists of
\* a frame have frames; macroblock pairs begin at an even address; what no header
\* can carry is zero (lencod.c).
Legal(e) ==
    /\ e.frame_mbs_only_flag = 1 => e.structure = "FRAME" /\ e.mb_adaptive_frame_field_flag = 0
    /\ e.idr_flag => e.type = I_SLICE /\ e.nal_reference_idc # 0 /\ e.frame_num = 0
    /\ e.structure = "FRAME" => e.num_ref_idx_l0_active <= e.num_ref_frames /\ e.num_ref_idx_l1_active <= e.num_ref_frames
    /\ e.mb_adaptive_frame_field_flag = 1 /\ e.structure = "FRAME" => e.first_mb % 2 = 0
    /\ e.num_slice_groups_minus1 = 0 => e.slice_group_map_type = 0
    /\ e.num_slice_groups_minus1 > 0 /\ e.slice_group_map_type = 6 => Len(e.group) = MapUnits(e)
    /\ e.entropy_coding_mode_flag = 1 => e.partition_mode = 0
    /\ e.pic_order_present_flag = 0 => e.delta_pic_order_cnt_bottom = 0 /\ e.delta_pic_order_cnt_1 = 0
    /\ e.delta_pic_order_always_zero_flag = 1 => e.delta_pic_order_cnt_0 = 0 /\ e.delta_pic_order_cnt_1 = 0
    /\ e.deblocking_filter_control_present_flag = 0 =>
          e.LFDisableIdc = 0 /\ e.LFAlphaC0Offset = 0 /\ e.LFBetaOffset = 0

HeaderInit ==
    /\ enc = Default
    /\ dec = [f \in DOMAIN Default \cup {"val", "count", "op", "args", "entry", "l0", "l1", "alpha", "beta",
                  "start_mb_nr", "field_pic_flag", "bottom_field_flag", "idr_pic_id", "sp_switch", "dp_mode",
                  "l0_default_minus1", "l1_default_minus1", "pic_init_qp_minus26", "pic_init_qs_minus26",
                  "redundant_pic_cnt_present_flag", "adaptive_ref_pic_buffering_flag", "weights_l0", "weights_l1"} |->
                  IF f \in {"offset_for_ref_frame", "group", "marking", "reordering_l0", "reordering_l1", "weights",
                            "args", "entry", "weights_l0", "weights_l1"} THEN <<>> ELSE 0]
    /\ slices = -1
    /\ changes = 0
    /\ exact = TRUE
    /\ fresh = FALSE

\* The configuration before the first header, the slice's values before each.
Change(fields, values) ==
    \E f \in fields : \E v \in values[f] \ {enc[f]} :
        /\ changes < MaxChanges
        /\ enc' = [enc EXCEPT ![f] = v]
        /\ changes' = changes + 1
        /\ fresh' = FALSE
        /\ UNCHANGED <<dec, slices, exact>>

Configure == slices = -1 /\ Change(DOMAIN Settings, Settings)
NextSlice == slices >= 0 /\ Change(DOMAIN SliceValues, SliceValues)

Receive(s) ==
    /\ dec' = s.h
    /\ exact' = (s.ok /\ s.rest = <<>>)
    /\ fresh' = TRUE
    /\ slices' = slices + 1
    /\ UNCHANGED <<enc, changes>>

SendParameterSets ==
    /\ slices = -1
    /\ Legal(enc)
    /\ LET sps == InterpretSPS([h |-> dec, rest |-> GenerateSeq_parameter_set_rbsp(enc), ok |-> TRUE])
           pps == InterpretPPS([h |-> sps.h, rest |-> GeneratePic_parameter_set_rbsp(enc),
                                ok |-> sps.ok /\ sps.rest = <<>>])
       IN  Receive(pps)

\* nal_reference_idc, and whether the unit is an IDR slice or a partition, are
\* in the header of the NAL unit.
SendSlice ==
    /\ slices \in 0..(MaxSlices - 1)
    /\ Legal(enc)
    /\ LET h == [dec EXCEPT !.idr_flag = enc.idr_flag, !.nal_reference_idc = enc.nal_reference_idc,
                            !.dp_mode = (enc.partition_mode = 1 /\ ~enc.idr_flag)]
       IN  Receive(ReadSliceHeader([h |-> h, rest |-> SliceHeader(enc), ok |-> TRUE]))

HeaderNext == Configure \/ NextSlice \/ SendParameterSets \/ SendSlice

----------------------------------------------------------------------------
(* What the decoder uses of what it has, by the kind of slice. *)

Opt0(c, S) == IF c THEN S ELSE {}

Used(e) ==
    {"profile_idc", "level_idc", "num_ref_frames", "pic_width_in_mbs_minus1", "pic_height_in_map_units_minus1",
     "direct_8x8_inference_flag", "chroma_qp_index_offset", "constrained_intra_pred_flag",
     "entropy_coding_mode_flag", "frame_mbs_only_flag", "mb_adaptive_frame_field_flag", "pic_order_cnt_type"}
    \cup Opt0(e.pic_order_cnt_type = 1, {"offset_for_non_ref_pic", "offset_for_top_to_bottom_field",
                                         "offset_for_ref_frame", "delta_pic_order_always_zero_flag"})
    \cup Opt0(e.num_slice_groups_minus1 > 0,
              {"slice_group_map_type"} \cup Opt0(e.slice_group_map_type \in 3..5, {"slice_group_change_direction_flag",
                                                          "slice_group_change_rate_minus1"}))

UsedOfSlice(e) ==
    LET inter == e.type \in {P_SLICE, B_SLICE, SP_SLICE}
    IN  {"first_mb", "type", "frame_num", "structure", "qp", "LFDisableIdc"}
        \cup Opt0(e.pic_order_cnt_type = 0, {"pic_order_cnt_lsb"})
        \cup Opt0(e.pic_order_cnt_type = 0 /\ e.structure = "FRAME", {"delta_pic_order_cnt_bottom"})
        \cup Opt0(e.pic_order_cnt_type = 1, {"delta_pic_order_cnt_0"})
        \cup Opt0(e.pic_order_cnt_type = 1 /\ e.structure = "FRAME", {"delta_pic_order_cnt_1"})
        \cup Opt0(inter, {"num_ref_idx_l0_active", "ref_pic_list_reordering_flag_l0"})
        \cup Opt0(inter /\ e.ref_pic_list_reordering_flag_l0 = 1, {"reordering_l0"})
        \cup Opt0(e.type = B_SLICE, {"direct_type", "num_ref_idx_l1_active", "ref_pic_list_reordering_flag_l1"})
        \cup Opt0(e.type = B_SLICE /\ e.ref_pic_list_reordering_flag_l1 = 1, {"reordering_l1"})
        \cup Opt0(e.nal_reference_idc # 0 /\ e.idr_flag, {"no_output_of_prior_pics_flag", "long_term_reference_flag"})
        \cup Opt0(e.nal_reference_idc # 0 /\ ~e.idr_flag, {"marking"})
        \cup Opt0(e.entropy_coding_mode_flag = 1 /\ inter, {"model_number"})
        \cup Opt0(e.type = SP_SLICE, {"qpsp"})
        \cup Opt0(e.LFDisableIdc # 1, {"LFAlphaC0Offset", "LFBetaOffset"})
        \cup Opt0(e.num_slice_groups_minus1 > 0 /\ e.slice_group_map_type \in 3..5, {"slice_group_change_cycle"})

\* The part of the map that the picture parameter set carries.
Groups(e) ==
    LET n == e.num_slice_groups_minus1
    IN  IF n = 0 THEN <<>>
        ELSE CASE e.slice_group_map_type = 0 -> SubSeq(e.group, 1, n + 1)
               [] e.slice_group_map_type = 2 -> SubSeq(e.group, 1, 2 * n)
               [] e.slice_group_map_type = 6 -> e.group
               [] OTHER -> <<>>

\* Every unit is read with the codes it was written with, to its last element,
\* and the decoder then has the encoder's value of every field it will use,
\* whether the header carried it, left it out or left an older one standing.
HeadersAgree ==
    fresh => /\ exact
             /\ \A f \in Used(enc) : dec[f] = enc[f]
             /\ dec.group = Groups(enc)
             /\ slices > 0 => \A f \in UsedOfSlice(enc) : dec[f] = enc[f]
             /\ slices > 0 /\ (\/ enc.type \in {P_SLICE, SP_SLICE} /\ enc.weighted_pred_flag = 1
                               \/ enc.type = B_SLICE /\ enc.weighted_bipred_idc = 1) =>
                  /\ dec.weights_l0 = SubSeq(enc.weights, 1, enc.num_ref_idx_l0_active)
                  /\ enc.type = B_SLICE =>
                        dec.weights_l1 = SubSeq(enc.weights, 2, enc.num_ref_idx_l1_active + 1)

=============================================================================
