------------------------------- MODULE RefLists -------------------------------
(***************************************************************************)
(* The reference picture lists of a slice (ldecod: mbuffer.c; the encoder  *)
(* has the same code): init_lists orders the references in the buffer by   *)
(* picture number for P slices and by picture order count for B slices,    *)
(* fields alternate in parity, and the commands of the slice header then   *)
(* move single pictures to the front.                                      *)
(*                                                                         *)
(* A reference is <<frame store, "FRAME", "TOP" or "BOTTOM">>.             *)
(***************************************************************************)
EXTENDS Integers, FiniteSets, SequencesExt

CONSTANTS
    Stores,         \* frame stores: [frame_num, poc, idx, fields, long]
    MaxStores,      \* in the buffer
    CurNum,         \* img->frame_num
    CurPoc,         \* the order count of the current picture
    MaxNum,         \* MaxFrameNum
    Actives,        \* values of num_ref_idx_active
    MaxMoves        \* commands

ASSUME ListsAssumption ==
    /\ MaxNum \in Nat /\ CurNum \in 0..(MaxNum - 1) /\ CurPoc \in Int
    /\ Stores \subseteq [frame_num : 0..(MaxNum - 1), poc : Int, idx : Nat, fields : SUBSET {"TOP", "BOTTOM"}, long : BOOLEAN]
    /\ MaxStores \in Nat /\ Actives \subseteq Nat /\ MaxMoves \in Nat

NoRef == <<0, "NONE">>

VARIABLES
    fs,             \* dpb.fs
    cur,            \* the slice: [structure, type, active]
    lists,          \* listX[0], listX[1], as init_lists leaves them
    list,           \* listX[0] while it is reordered; one entry more than active
    pred,           \* picNumLXPred
    moved           \* history: the pictures the commands named

listVars == <<fs, cur, lists, list, pred, moved>>

B_TYPE == "B"
Opposite(parity) == IF parity = "TOP" THEN "BOTTOM" ELSE "TOP"

----------------------------------------------------------------------------
(* What the buffer holds. fields are those marked as references.            *)

Whole(i) == fs[i].fields = {"TOP", "BOTTOM"}
ShortStores == {i \in DOMAIN fs : ~fs[i].long}
LongStores == {i \in DOMAIN fs : fs[i].long}

frame_num_wrap(i) == IF fs[i].frame_num > CurNum THEN fs[i].frame_num - MaxNum ELSE fs[i].frame_num

pic_num(r) == IF r[2] = "FRAME" THEN frame_num_wrap(r[1])
              ELSE 2 * frame_num_wrap(r[1]) + (IF r[2] = cur.structure THEN 1 ELSE 0)

long_term_pic_num(r) == IF r[2] = "FRAME" THEN fs[r[1]].idx
                        ELSE 2 * fs[r[1]].idx + (IF r[2] = cur.structure THEN 1 ELSE 0)

IsRef(r) == IF r[2] = "FRAME" THEN Whole(r[1]) ELSE r[2] \in fs[r[1]].fields
Refs == {r \in (DOMAIN fs) \X (IF cur.structure = "FRAME" THEN {"FRAME"} ELSE {"TOP", "BOTTOM"}) : IsRef(r)}

\* The entries of l that are in S, one after the other.
EntriesIn(l, S) ==
    LET Among[k \in 0..Len(l)] ==
            IF k = 0 THEN <<>> ELSE IF l[k] \in S THEN Append(Among[k - 1], l[k]) ELSE Among[k - 1]
    IN  Among[Len(l)]

FramesOf(order) == [k \in DOMAIN order |-> <<order[k], "FRAME">>]
FieldsOf(order, parity) == EntriesIn([k \in DOMAIN order |-> <<order[k], parity>>], Refs)

\* Mutant: one parity after the other.
Take_one_parity(order) == FieldsOf(order, cur.structure) \o FieldsOf(order, Opposite(cur.structure))

\* One field of the parity of the current field, one of the other parity, and
\* so on; what is left of one parity when the other has run out.
gen_pic_list_from_frame_list(order) ==
    LET same == FieldsOf(order, cur.structure)
        other == FieldsOf(order, Opposite(cur.structure))
        pairs == IF Len(same) <= Len(other) THEN Len(same) ELSE Len(other)
        left == IF Len(same) <= Len(other) THEN other ELSE same
    IN  [k \in 1..(Len(same) + Len(other)) |->
            IF k > 2 * pairs THEN left[k - pairs]
            ELSE IF k % 2 = 1 THEN same[(k + 1) \div 2] ELSE other[k \div 2]]

\* The stores of S, those with smaller keys first.
Sorted(S, key) ==
    CHOOSE s \in [1..Cardinality(S) -> S] :
        \A i, j \in 1..Cardinality(S) : i < j => s[i] # s[j] /\ key[s[i]] <= key[s[j]]

\* The order of the short term stores for list 0 of a P slice, and for both
\* lists of a B slice: those before the current picture and those after it.
ByNumber(S) == Sorted(S, [i \in S |-> -frame_num_wrap(i)])
Before(S) == LET past == {i \in S : IF cur.structure = "FRAME" THEN fs[i].poc < CurPoc ELSE fs[i].poc <= CurPoc}
             IN  Sorted(past, [i \in past |-> -fs[i].poc])
After(S) == LET future == {i \in S : fs[i].poc > CurPoc} IN Sorted(future, [i \in future |-> fs[i].poc])
ByIndex(S) == Sorted(S, [i \in S |-> fs[i].idx])

init_lists ==
    LET frame == cur.structure = "FRAME"
        short == IF frame THEN {i \in ShortStores : Whole(i)} ELSE ShortStores
        long == IF frame THEN {i \in LongStores : Whole(i)} ELSE LongStores
        List(order) == IF frame THEN FramesOf(order \o ByIndex(long))
                       ELSE gen_pic_list_from_frame_list(order) \o gen_pic_list_from_frame_list(ByIndex(long))
        l0 == List(IF cur.type = B_TYPE THEN Before(short) \o After(short) ELSE ByNumber(short))
        l1 == IF cur.type = B_TYPE THEN List(After(short) \o Before(short)) ELSE <<>>
        swapped == IF l0 = l1 /\ Len(l1) > 1 THEN <<l1[2], l1[1]>> \o SubSeq(l1, 3, Len(l1)) ELSE l1
    IN  <<l0, swapped>>

----------------------------------------------------------------------------
(* reorder_ref_pic_list. *)

MaxPicNum == IF cur.structure = "FRAME" THEN MaxNum ELSE 2 * MaxNum
CurrPicNum == IF cur.structure = "FRAME" THEN CurNum ELSE 2 * CurNum + 1

\* The number that a command <<op, abs_diff>> names.
NoWrap(op, abs_diff) ==
    IF op = 0 THEN IF pred - abs_diff < 0 THEN pred - abs_diff + MaxPicNum ELSE pred - abs_diff
    ELSE IF pred + abs_diff >= MaxPicNum THEN pred + abs_diff - MaxPicNum ELSE pred + abs_diff

PicNumLX(n) == IF n > CurrPicNum THEN n - MaxPicNum ELSE n

get_short_term_pic(n) ==
    LET found == {r \in Refs : ~fs[r[1]].long /\ pic_num(r) = n}
    IN  IF found = {} THEN NoRef ELSE CHOOSE r \in found : TRUE

get_long_term_pic(n) ==
    LET found == {r \in Refs : fs[r[1]].long /\ long_term_pic_num(r) = n}
    IN  IF found = {} THEN NoRef ELSE CHOOSE r \in found : TRUE

reorder_without_removal(l, at, r, gone) == SubSeq(l, 1, at) \o <<r>> \o SubSeq(l, at + 1, Len(l) - 1)

\* reorder_short_term, reorder_long_term: the picture goes to place `at`, the
\* others move up, and it is taken out where it was. What no entry has moved
\* onto keeps its place.
reorder(l, at, r, gone) ==
    LET others == SubSeq(l, at + 1, Len(l) - 1)
        kept == EntriesIn(others, Refs \ gone)
    IN  SubSeq(l, 1, at) \o <<r>> \o kept \o SubSeq(others, Len(kept) + 1, Len(others))

----------------------------------------------------------------------------
\* A buffer in which the short term frames have numbers of their own and the
\* long term frames indices of their own, and none has the order count of the
\* current frame. A short term store with the current number holds the first
\* field of the current frame.
Buffer(s, structure) ==
    /\ \A i, j \in DOMAIN s : i # j /\ ~s[i].long /\ ~s[j].long => s[i].frame_num # s[j].frame_num
    /\ \A i, j \in DOMAIN s : i # j /\ s[i].long /\ s[j].long => s[i].idx # s[j].idx
    /\ \A i \in DOMAIN s : structure = "FRAME" => s[i].poc # CurPoc
    /\ \A i \in DOMAIN s : ~s[i].long /\ s[i].frame_num = CurNum => structure = "BOTTOM" /\ s[i].fields = {"TOP"}

ListsInit ==
    /\ cur = [structure |-> "FRAME", type |-> "P", active |-> 0]
    /\ fs = <<>>
    /\ lists = <<>>
    /\ list = <<>>
    /\ pred = 0
    /\ moved = <<>>

\* The next slice, with any buffer.
NewSlice ==
    /\ cur.active = 0
    /\ cur' \in [structure : {"FRAME", "TOP", "BOTTOM"}, type : {"P", "B"}, active : Actives]
    /\ fs' \in SeqOf(Stores, MaxStores)
    /\ Buffer(fs', cur'.structure)
    /\ UNCHANGED <<lists, list, pred, moved>>

\* With the sizes cut to num_ref_idx_active and the rest set to NULL.
InitLists ==
    /\ cur.active > 0 /\ lists = <<>>
    /\ lists' = init_lists
    /\ LET l0 == init_lists[1]
       IN  list' = [k \in 1..(cur.active + 1) |-> IF k <= cur.active /\ k <= Len(l0) THEN l0[k] ELSE NoRef]
    /\ pred' = CurrPicNum
    /\ UNCHANGED <<fs, cur, moved>>

\* Commands 0 and 1, for any picture by any difference that leads to it.
MoveShort ==
    /\ lists # <<>> /\ Len(moved) < MaxMoves /\ Len(moved) < cur.active
    /\ \E op \in 0..1, abs_diff \in 1..MaxPicNum :
        LET n == NoWrap(op, abs_diff)
            r == get_short_term_pic(PicNumLX(n))
        IN  /\ r # NoRef
            /\ pred' = n
            /\ moved' = Append(moved, r)
            /\ list' = reorder(list, Len(moved), r,
                               {e \in Refs : ~fs[e[1]].long /\ pic_num(e) = PicNumLX(n)})
    /\ UNCHANGED <<fs, cur, lists>>

\* Command 2. reorder_long_term looks into every entry, so that an unused one
\* would end the program: only with a full list.
MoveLong ==
    /\ lists # <<>> /\ Len(moved) < MaxMoves /\ Len(moved) < cur.active
    /\ Len(lists[1]) >= cur.active
    /\ \E n \in {long_term_pic_num(r) : r \in {q \in Refs : fs[q[1]].long}} :
        LET r == get_long_term_pic(n)
        IN  /\ moved' = Append(moved, r)
            /\ list' = reorder(list, Len(moved), r,
                               {e \in Refs : fs[e[1]].long /\ long_term_pic_num(e) = n})
    /\ UNCHANGED <<fs, cur, lists, pred>>

ListsNext == NewSlice \/ InitLists \/ MoveShort \/ MoveLong

ListsSpec == ListsInit /\ [][ListsNext]_listVars

----------------------------------------------------------------------------
\* Parities alternate, beginning with the current one, until one has run out.
Alternates(l) ==
    \E pairs \in 0..(Len(l) \div 2) :
        /\ \A k \in 1..(2 * pairs) : (l[k][2] = cur.structure) = (k % 2 = 1)
        /\ \A k, m \in (2 * pairs + 1)..Len(l) : l[k][2] = l[m][2]

\* Of two stores in the list, i may stand before j.
MayPrecede(i, j) ==
    IF fs[i].long THEN fs[j].long /\ fs[i].idx <= fs[j].idx
    ELSE \/ fs[j].long
         \/ cur.type = "P" /\ frame_num_wrap(i) >= frame_num_wrap(j)
         \/ cur.type = "B" /\ fs[i].poc <= CurPoc /\ (fs[j].poc <= CurPoc => fs[i].poc >= fs[j].poc)
         \/ cur.type = "B" /\ CurPoc < fs[i].poc /\ fs[i].poc <= fs[j].poc

\* The initial list 0 has every reference once, the long term ones last; frames
\* by number or order count, fields alternating and, within a parity, as the
\* frames; list 1 has the same references, and another order if there are two.
ListsComplete ==
    lists # <<>> =>
        LET l == lists[1]
        IN  /\ ToSet(l) = Refs
            /\ \A k, m \in DOMAIN l : k < m => l[k] # l[m] /\ (l[k][2] = l[m][2] => MayPrecede(l[k][1], l[m][1]))
            /\ \E n \in 0..Len(l) :
                  /\ \A k \in DOMAIN l : fs[l[k][1]].long <=> k > n
                  /\ cur.structure # "FRAME" => Alternates(SubSeq(l, 1, n)) /\ Alternates(SubSeq(l, n + 1, Len(l)))
            /\ cur.type = "B" => /\ ToSet(lists[2]) = Refs /\ Len(lists[2]) = Len(l)
                                 /\ Len(l) > 1 => lists[2] # l

\* The pictures that the commands named stand first, in the order they were
\* named, and the rest of the initial list follows in its own order.
MovedToFront ==
    lists # <<>> =>
        LET first == SubSeq(lists[1], 1, IF cur.active <= Len(lists[1]) THEN cur.active ELSE Len(lists[1]))
            wanted == moved \o EntriesIn(first, Refs \ ToSet(moved))
        IN  \A k \in 1..cur.active : k <= Len(wanted) => list[k] = wanted[k]
=============================================================================
