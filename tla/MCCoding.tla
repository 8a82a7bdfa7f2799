-------------------------------- MODULE MCCoding --------------------------------
(* The parts of the H.264 encoder and decoder that meet in the stream, each  *)
(* alone.                                                                    *)
EXTENDS ByteStream, HeaderSyntax, SliceReader, RefLists, Neighbours, MCSliceCoding, MCPoc, ArithmeticCoder, MCMacroblocks

VARIABLE run        \* which part is run

Sps(s, t) == [size |-> s, pic_order_cnt_type |-> t]
MCSpsContents == {Sps(1, 0), Sps(2, 1), Sps(1, 2)}

Both == {"TOP", "BOTTOM"}
Store(n, p, i, f, l) == [frame_num |-> n, poc |-> p, idx |-> i, fields |-> f, long |-> l]
MCStores == {Store(0, 4, 0, Both, FALSE), Store(0, 4, 0, {"TOP"}, FALSE), Store(0, 4, 0, Both, TRUE),
             Store(7, 0, 1, Both, FALSE), Store(7, 0, 1, {"BOTTOM"}, FALSE), Store(7, 0, 1, {"BOTTOM"}, TRUE),
             Store(6, 8, 2, Both, FALSE), Store(6, 8, 2, Both, TRUE), Store(1, 5, 3, {"TOP"}, FALSE)}

MCDefault ==
  [profile_idc |-> 88, constrained_set0_flag |-> 0, level_idc |-> 40, seq_parameter_set_id |-> 0,
   log2_max_frame_num_minus4 |-> 0, pic_order_cnt_type |-> 0, log2_max_pic_order_cnt_lsb_minus4 |-> 1,
   delta_pic_order_always_zero_flag |-> 0, offset_for_non_ref_pic |-> -2, offset_for_top_to_bottom_field |-> 1,
   offset_for_ref_frame |-> <<4>>, num_ref_frames |-> 2, pic_width_in_mbs_minus1 |-> 3,
   pic_height_in_map_units_minus1 |-> 1, frame_mbs_only_flag |-> 0, mb_adaptive_frame_field_flag |-> 0,
   direct_8x8_inference_flag |-> 1,
   pic_parameter_set_id |-> 0, entropy_coding_mode_flag |-> 0, pic_order_present_flag |-> 1,
   num_slice_groups_minus1 |-> 0, slice_group_map_type |-> 0, group |-> <<0, 1, 2, 0, 1, 2, 1, 0>>,
   slice_group_change_direction_flag |-> 1, slice_group_change_rate_minus1 |-> 0,
   weighted_pred_flag |-> 0, weighted_bipred_idc |-> 0, chroma_qp_index_offset |-> 3,
   deblocking_filter_control_present_flag |-> 1, constrained_intra_pred_flag |-> 1,
   redundant_slice_flag |-> 0, redundant_pic_cnt |-> 0, partition_mode |-> 0, slice_id |-> 5,
   first_mb |-> 0, type |-> P_SLICE, frame_num |-> 0, structure |-> "FRAME", idr_flag |-> FALSE,
   nal_reference_idc |-> 1, pic_order_cnt_lsb |-> 6, delta_pic_order_cnt_bottom |-> 0,
   delta_pic_order_cnt_0 |-> 0, delta_pic_order_cnt_1 |-> 0, direct_type |-> 1,
   num_ref_idx_l0_active |-> 2, num_ref_idx_l1_active |-> 2,
   ref_pic_list_reordering_flag_l0 |-> 0, ref_pic_list_reordering_flag_l1 |-> 0,
   reordering_l0 |-> <<[op |-> 0, args |-> <<1>>], [op |-> 2, args |-> <<0>>], [op |-> 3, args |-> <<>>]>>,
   reordering_l1 |-> <<[op |-> 1, args |-> <<2>>], [op |-> 3, args |-> <<>>]>>,
   luma_log_weight_denom |-> 5, chroma_log_weight_denom |-> 4,
   weights |-> << << <<32, 0>>, <<16, 0>>, <<16, 1>> >>, << <<30, 2>>, <<16, 0>>, <<16, 0>> >>, << <<32, 0>>, <<9, 0>>, <<16, 0>> >>,
               << <<32, 0>>, <<16, 0>>, <<16, 0>> >>, << <<31, 1>>, <<16, 0>>, <<17, 0>> >> >>,
   marking |-> <<>>, no_output_of_prior_pics_flag |-> 1, long_term_reference_flag |-> 0,
   model_number |-> 2, qp |-> 28, qpsp |-> 30, LFDisableIdc |-> 0, LFAlphaC0Offset |-> 0, LFBetaOffset |-> 0,
   slice_group_change_cycle |-> 2]
MCSettings ==
  [pic_order_cnt_type |-> {1, 2}, log2_max_frame_num_minus4 |-> {2}, delta_pic_order_always_zero_flag |-> {1},
   offset_for_ref_frame |-> {<<>>, <<4, 6>>}, frame_mbs_only_flag |-> {1}, mb_adaptive_frame_field_flag |-> {1},
   entropy_coding_mode_flag |-> {1}, pic_order_present_flag |-> {0}, num_slice_groups_minus1 |-> {1, 2, 4},
   slice_group_map_type |-> {1, 2, 4, 6}, slice_group_change_rate_minus1 |-> {1, 3},
   weighted_pred_flag |-> {1}, weighted_bipred_idc |-> {1, 2}, deblocking_filter_control_present_flag |-> {0},
   partition_mode |-> {1}]
MCSliceValues ==
  [type |-> {B_SLICE, I_SLICE, SP_SLICE}, structure |-> {"TOP_FIELD", "BOTTOM_FIELD"}, first_mb |-> {4},
   nal_reference_idc |-> {0}, idr_flag |-> {TRUE}, frame_num |-> {3}, num_ref_idx_l0_active |-> {1, 4}, num_ref_idx_l1_active |-> {1, 4},
   ref_pic_list_reordering_flag_l0 |-> {1}, ref_pic_list_reordering_flag_l1 |-> {1},
   weights |-> {<< << <<31, 0>>, <<16, 0>>, <<16, 0>> >>, << <<32, 0>>, <<16, 0>>, <<16, 0>> >>, << <<32, 1>>, <<9, 0>>, <<15, 0>> >>,
                  << <<33, 0>>, <<16, 0>>, <<16, 0>> >>, << <<32, 0>>, <<15, 0>>, <<16, 1>> >> >>},
   marking |-> {<<[op |-> 3, args |-> <<1, 0>>], [op |-> 5, args |-> <<>>], [op |-> 0, args |-> <<>>]>>,
                <<[op |-> 2, args |-> <<1>>], [op |-> 4, args |-> <<2>>], [op |-> 0, args |-> <<>>]>>},
   LFDisableIdc |-> {1, 2}, LFAlphaC0Offset |-> {4}, LFBetaOffset |-> {-2}, delta_pic_order_cnt_bottom |-> {1},
  delta_pic_order_cnt_0 |-> {7}, delta_pic_order_cnt_1 |-> {8}, model_number |-> {1}, slice_group_change_cycle |-> {3}]

\* Two contexts of mb_type in P slices (ctx_tables.h, model 1): one depends on Qp, one is near the end of the states.
MCCtxIni == (<<"mb_type", 0>> :> <<57, 2>>) @@ (<<"mb_type", 4>> :> <<-45, 127>>)
MCStaleBits == {<<>>, <<0, 1, 1, 1, 1, 1, 1, 1>>}

Init == /\ run \in {"stream", "headers", "slices", "lists", "neighbours", "macroblocks", "counts", "bins", "syntax"}
        /\ StreamInit /\ HeaderInit /\ ReaderInit /\ ListsInit /\ NeighboursInit /\ SliceCodingInit /\ PocInit /\ BinsInit /\ SyntaxInit
        /\ run # "slices" => ~sends.partitioned /\ \A i \in Ids : sets.sps[i] = Sps(1, 0)
        /\ run = "slices" => sets.sps[1] = Sps(2, 1)
        /\ run # "counts" => pic_order_cnt_type = 0

parts == <<streamVars, headerVars, readerVars, listVars, neighbourVars, codingVars, pocVars, binVars, syntaxVars>>

Stream == run = "stream" /\ StreamNext
    /\ UNCHANGED <<run, headerVars, readerVars, listVars, neighbourVars, codingVars, pocVars, binVars, syntaxVars>>
Headers == run = "headers" /\ HeaderNext
    /\ UNCHANGED <<run, streamVars, readerVars, listVars, neighbourVars, codingVars, pocVars, binVars, syntaxVars>>
Slices == run = "slices" /\ ReaderNext
    /\ UNCHANGED <<run, streamVars, headerVars, listVars, neighbourVars, codingVars, pocVars, binVars, syntaxVars>>
Lists == run = "lists" /\ ListsNext
    /\ UNCHANGED <<run, streamVars, headerVars, readerVars, neighbourVars, codingVars, pocVars, binVars, syntaxVars>>
Pairs == run = "neighbours" /\ NeighboursNext
    /\ UNCHANGED <<run, streamVars, headerVars, readerVars, listVars, codingVars, pocVars, binVars, syntaxVars>>
Macroblocks == run = "macroblocks" /\ SliceCodingNext
    /\ UNCHANGED <<run, streamVars, headerVars, readerVars, listVars, neighbourVars, pocVars, binVars, syntaxVars>>
Counts == run = "counts" /\ PocNext
    /\ UNCHANGED <<run, streamVars, headerVars, readerVars, listVars, neighbourVars, codingVars, binVars, syntaxVars>>
Bins == run = "bins" /\ BinsNext
    /\ UNCHANGED <<run, streamVars, headerVars, readerVars, listVars, neighbourVars, codingVars, pocVars, syntaxVars>>
Syntax == run = "syntax" /\ SyntaxNext
    /\ UNCHANGED <<run, streamVars, headerVars, readerVars, listVars, neighbourVars, codingVars, pocVars, binVars>>

Next == Stream \/ Headers \/ Slices \/ Lists \/ Pairs \/ Macroblocks \/ Counts \/ Bins \/ Syntax

Spec == Init /\ [][Next]_<<run, parts>>
=============================================================================
