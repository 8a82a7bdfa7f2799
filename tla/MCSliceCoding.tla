----------------------------- MODULE MCSliceCoding -----------------------------
(* Small pictures and how they are cut into slices.                          *)
EXTENDS SliceCoding

Pps(type, n) ==
    [num_slice_groups_minus1 |-> n, slice_group_map_type |-> type, run_length_minus1 |-> <<0, 1, 0>>,
     top_left |-> <<0, 1>>, bottom_right |-> <<2, 3>>, slice_group_change_rate_minus1 |-> 0,
     slice_group_change_direction_flag |-> 0, slice_group_id |-> <<1, 0, 2, 1>>]

Setup(pps, w, h, coding, type, symbol, mode, arg, sizes) ==
    [pps |-> pps, cycle |-> 1, w |-> w, h |-> h, coding |-> coding, type |-> type, symbol_mode |-> symbol,
     slice_mode |-> mode, slice_argument |-> arg, sizes |-> sizes]

Coders == {"UVLC", "CABAC"}
OneGroup == Pps(0, 0)

\* Slices of every kind; slices by size, where a macroblock is taken back;
\* every type of map; pairs in slices with neighbours to the left and above.
Sliced ==
    {Setup(OneGroup, 4, 1, "MACROBLOCKS", "P", s, m[1], m[2], {12}) :
        s \in Coders, m \in {<<"NO_SLICES", 0>>, <<"FIXED_MB", 2>>, <<"FIXED_MB", 3>>}}
    \cup {Setup(OneGroup, 4, 1, "MACROBLOCKS", t, "CABAC", "FIXED_RATE", 4, {6, 12}) : t \in {"I", "P"}}
Grouped ==
    {Setup(Pps(t, IF t \in 3..5 THEN 1 ELSE 2), 2, 2, "MACROBLOCKS", "P", s, "FIXED_MB", 3, {12}) :
        t \in 0..6, s \in Coders}
    \cup {Setup(Pps(0, 1), 2, 1, "FRAME", t, "UVLC", "NO_SLICES", 0, {12}) : t \in {"I", "P"}}
Paired ==
    {Setup(OneGroup, d[1], d[2], "MBAFF", "P", s, d[3], 4, {12}) :
        s \in Coders, d \in {<<3, 1, "FIXED_MB">>, <<3, 1, "NO_SLICES">>, <<1, 2, "NO_SLICES">>}}
    \cup {Setup(Pps(1, 1), 2, 1, "MBAFF", t, "CABAC", "CALLBACK", 0, {12}) : t \in {"I", "P"}}

\* The maps that grow, over all their cycles.
Growing ==
    {[Setup([Pps(t, 1) EXCEPT !.slice_group_change_rate_minus1 = 1, !.slice_group_change_direction_flag = f],
            4, 3, "MACROBLOCKS", "I", "UVLC", "FIXED_MB", 12, {12}) EXCEPT !.cycle = c] :
        t \in 3..5, f \in 0..1, c \in 0..6}

MCSetups == Sliced \cup Grouped \cup Paired \cup Growing

\* Slices by size with variable length codes.
BySize == {Setup(OneGroup, 5, 1, "MACROBLOCKS", "P", "UVLC", "FIXED_RATE", 4, {6, 12, 20})}

RateSpec == SliceCodingInit /\ [][SliceCodingNext]_codingVars
=============================================================================
