------------------------------ MODULE SliceGroups ------------------------------
(***************************************************************************)
(* Flexible macroblock ordering (fmo.c, whose map generators the encoder   *)
(* and the decoder share): which slice group every map unit and every      *)
(* macroblock is in. A picture has w columns and h rows of map units; pps  *)
(* is the picture parameter set.                                           *)
(***************************************************************************)
EXTENDS Integers, SequencesExt

Units(w, h) == 0..(w * h - 1)

\* The runs of the groups in turn, over and over.
FmoGenerateType0MapUnitMap(pps, w, h) ==
    LET End(g) == FoldLeft(LAMBDA sum, r : sum + r + 1, 0, SubSeq(pps.run_length_minus1, 1, g + 1))
        n == pps.num_slice_groups_minus1
    IN  [i \in Units(w, h) |-> Min({g \in 0..n : i % End(n) < End(g)})]

FmoGenerateType1MapUnitMap(pps, w, h) ==
    LET n == pps.num_slice_groups_minus1 + 1
    IN  [i \in Units(w, h) |-> ((i % w) + ((i \div w) * n) \div 2) % n]

\* The first rectangle a unit is in, and the rest.
FmoGenerateType2MapUnitMap(pps, w, h) ==
    LET n == pps.num_slice_groups_minus1
        In(i, g) == LET tl == pps.top_left[g + 1]  br == pps.bottom_right[g + 1]
                    IN  (i \div w) \in (tl \div w)..(br \div w) /\ (i % w) \in (tl % w)..(br % w)
    IN  [i \in Units(w, h) |-> Min({g \in 0..(n - 1) : In(i, g)} \cup {n})]

mapUnitsInSliceGroup0(pps, cycle, w, h) == Min({(pps.slice_group_change_rate_minus1 + 1) * cycle, w * h})

\* One step of the box, which turns and grows at its bounds.
Turn(s, w, h, flag) ==
    LET left == Max({s.left - 1, 0})  right == Min({s.right + 1, w - 1})
        top == Max({s.top - 1, 0})  bottom == Min({s.bottom + 1, h - 1})
    IN  CASE s.xDir = -1 /\ s.x = s.left ->
                 [s EXCEPT !.left = left, !.x = left, !.xDir = 0, !.yDir = 2 * flag - 1]
          [] s.xDir = 1 /\ s.x = s.right ->
                 [s EXCEPT !.right = right, !.x = right, !.xDir = 0, !.yDir = 1 - 2 * flag]
          [] s.yDir = -1 /\ s.y = s.top ->
                 [s EXCEPT !.top = top, !.y = top, !.xDir = 1 - 2 * flag, !.yDir = 0]
          [] s.yDir = 1 /\ s.y = s.bottom ->
                 [s EXCEPT !.bottom = bottom, !.y = bottom, !.xDir = 2 * flag - 1, !.yDir = 0]
          [] OTHER -> [s EXCEPT !.x = @ + s.xDir, !.y = @ + s.yDir]

RECURSIVE BoxOut(_, _, _, _, _)
BoxOut(s, w, h, flag, n) ==
    LET at == s.y * w + s.x
        vacant == s.map[at] = 2
    IN  IF s.k = w * h THEN s.map
        ELSE BoxOut(Turn(IF vacant THEN [s EXCEPT !.map[at] = IF s.k >= n THEN 1 ELSE 0, !.k = @ + 1] ELSE s,
                         w, h, flag), w, h, flag, n)

FmoGenerateType3MapUnitMap(pps, cycle, w, h) ==
    LET flag == pps.slice_group_change_direction_flag
        x == (w - flag) \div 2
        y == (h - flag) \div 2
    IN  BoxOut([map |-> [i \in Units(w, h) |-> 2], k |-> 0, x |-> x, y |-> y, left |-> x, right |-> x,
                top |-> y, bottom |-> y, xDir |-> flag - 1, yDir |-> flag],
               w, h, flag, mapUnitsInSliceGroup0(pps, cycle, w, h))

\* Mutant: the same in both directions.
sizeOfUpperLeftGroup_forward(pps, cycle, w, h) == mapUnitsInSliceGroup0(pps, cycle, w, h)

sizeOfUpperLeftGroup(pps, cycle, w, h) ==
    LET n == mapUnitsInSliceGroup0(pps, cycle, w, h)
    IN  IF pps.slice_group_change_direction_flag = 1 THEN w * h - n ELSE n

FmoGenerateType4MapUnitMap(pps, cycle, w, h) ==
    LET flag == pps.slice_group_change_direction_flag
    IN  [i \in Units(w, h) |-> IF i < sizeOfUpperLeftGroup(pps, cycle, w, h) THEN flag ELSE 1 - flag]

\* Column by column.
FmoGenerateType5MapUnitMap(pps, cycle, w, h) ==
    LET flag == pps.slice_group_change_direction_flag
        k(i) == ((i % w) * h) + (i \div w)
    IN  [i \in Units(w, h) |-> IF k(i) < sizeOfUpperLeftGroup(pps, cycle, w, h) THEN 1 - flag ELSE flag]

FmoGenerateType6MapUnitMap(pps, w, h) == [i \in Units(w, h) |-> pps.slice_group_id[i + 1]]

FmoGenerateMapUnitToSliceGroupMap(pps, cycle, w, h) ==
    CASE pps.num_slice_groups_minus1 = 0 -> [i \in Units(w, h) |-> 0]
      [] pps.slice_group_map_type = 0 -> FmoGenerateType0MapUnitMap(pps, w, h)
      [] pps.slice_group_map_type = 1 -> FmoGenerateType1MapUnitMap(pps, w, h)
      [] pps.slice_group_map_type = 2 -> FmoGenerateType2MapUnitMap(pps, w, h)
      [] pps.slice_group_map_type = 3 -> FmoGenerateType3MapUnitMap(pps, cycle, w, h)
      [] pps.slice_group_map_type = 4 -> FmoGenerateType4MapUnitMap(pps, cycle, w, h)
      [] pps.slice_group_map_type = 5 -> FmoGenerateType5MapUnitMap(pps, cycle, w, h)
      [] pps.slice_group_map_type = 6 -> FmoGenerateType6MapUnitMap(pps, w, h)

\* coding is "MACROBLOCKS" when the units are macroblocks, of a field or a
\* progressive frame, "MBAFF", or "FRAME" for a frame whose units are pairs.
FmoGenerateMBAmap(pps, cycle, w, h, coding) ==
    LET unit == FmoGenerateMapUnitToSliceGroupMap(pps, cycle, w, h)
    IN  CASE coding = "MACROBLOCKS" -> unit
          [] coding = "MBAFF" -> [i \in 0..(2 * w * h - 1) |-> unit[i \div 2]]
          [] coding = "FRAME" -> [i \in 0..(2 * w * h - 1) |-> unit[(i \div (2 * w)) * w + (i % w)]]

----------------------------------------------------------------------------
(* Walking a map. -1 is no macroblock. *)

OfGroup(map, g) == {m \in DOMAIN map : map[m] = g}
FirstOf(S) == IF S = {} THEN -1 ELSE Min(S)
LastOf(S) == IF S = {} THEN -1 ELSE Max(S)

FmoGetNextMBNr(map, n) == FirstOf({m \in OfGroup(map, map[n]) : m > n})
FmoGetPreviousMBNr(map, n) == LastOf({m \in OfGroup(map, map[n]) : m < n})
FmoGetFirstMBOfSliceGroup(map, g) == FirstOf(OfGroup(map, g))
FmoGetLastCodedMBOfSliceGroup(map, g) == LastOf(OfGroup(map, g))
=============================================================================
