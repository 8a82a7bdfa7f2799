--------------------------------- MODULE Dpb ---------------------------------
(***************************************************************************)
(* The decoded picture buffer of the H.264 decoder (ldecod/src/mbuffer.c)  *)
(* for streams of frames: reference marking, gaps in frame_num, output in  *)
(* picture order.  A picture passes through init_picture and               *)
(* store_picture_in_dpb in several steps: one for each memory management   *)
(* command of its slice header, one for each turn of a loop.               *)
(*                                                                         *)
(* dpb.fs is the sequence of the used frame stores; the lists fs_ref and   *)
(* fs_ltref are what Short and Long compute, for the code rebuilds them    *)
(* between a change of a flag and the next use of a list.  The stream is   *)
(* legal: it numbers its frames, keeps its references within               *)
(* num_ref_frames and reorders its pictures by at most Reorder places.     *)
(***************************************************************************)
EXTENDS Integers, Sequences, FiniteSets

CONSTANTS
    size,               \* dpb.size
    num_ref_frames,     \* of the active sequence parameter set
    MaxFrameNum,        \* frame_num counts modulo this
    Reorder,            \* how many pictures decoded earlier may be shown later
    Intra,              \* may pictures have neither P nor B slices?
    GapAfterNonRef,     \* may numbers be skipped after a non-reference picture?
    SpsAfterDiscard,    \* may the parameter set change after an IDR that discards?
    MaxPoc,             \* bound: order counts between two resets
    MaxLongTerm,        \* bound: long term frame indices
    MaxCommands,        \* bound: commands of a picture beyond those it needs
    Streams             \* the kinds of stream: have they memory management
                        \* commands, and how many frame numbers they may skip

ASSUME SizeAssumption == size \in Nat /\ num_ref_frames \in 1..size
ASSUME FrameNumAssumption == MaxFrameNum \in Nat /\ MaxFrameNum > num_ref_frames + 1
ASSUME ReorderAssumption == Reorder \in Nat
ASSUME BoundsAssumption == {MaxPoc, MaxLongTerm, MaxCommands} \subseteq Nat
ASSUME StreamsAssumption == Streams \subseteq [Adaptive : BOOLEAN, Gaps : 0..MaxFrameNum - 2]
ASSUME FlagsAssumption == {Intra, GapAfterNonRef, SpsAfterDiscard} \subseteq BOOLEAN

VARIABLES
    fs,                     \* dpb.fs[0..used_size - 1]
    last_output_poc,        \* dpb.last_output_poc
    max_long_term_pic_idx,  \* dpb.max_long_term_pic_idx
    pre_frame_num,          \* img->pre_frame_num
    no_output_of_prior_pics_flag,   \* img->..., of the last IDR picture
    pic,                    \* dec_picture
    filler,                 \* the frame number of a gap that is being stored, or None
    phase,                  \* where the decoder is
    commands,               \* commands of pic carried out so far
    error,                  \* what the decoder has called error() for
    kind,                   \* what kind of stream it is
    decoded,                \* order counts of the pictures since the last reset
    shown                   \* the highest one written since the last reset

dpb == <<fs, last_output_poc, max_long_term_pic_idx>>
stream == <<decoded, shown>>
vars == <<dpb, kind, pre_frame_num, no_output_of_prior_pics_flag, pic, filler, phase, commands, error, stream>>

Adaptive == kind.Adaptive
Gaps == kind.Gaps

None == -1      \* no index, no number; INT_MIN for an order count
Pocs == 0..MaxPoc
Indices == 0..MaxLongTerm
Numbers == 0..MaxFrameNum - 1
Phases == {"start", "idle", "gap", "decode", "mark", "flush", "slide", "room", "dead"}

Stores == [frame_num : Numbers, poc : Pocs, ref : BOOLEAN, lt : BOOLEAN,
           long_term_frame_idx : Indices, long_term_pic_num : Indices, out : BOOLEAN]

Pictures == [frame_num : Numbers, poc : Pocs, ref : BOOLEAN, lt : BOOLEAN,
             long_term_frame_idx : Indices, idr : BOOLEAN, adaptive : BOOLEAN,
             intra : BOOLEAN, mmco5 : BOOLEAN, noOutput : BOOLEAN]

TypeOK ==
    /\ fs \in Seq(Stores) /\ Len(fs) <= size
    /\ last_output_poc \in Pocs \cup {None} /\ shown \in Pocs \cup {None}
    /\ max_long_term_pic_idx \in Indices \cup {None}
    /\ pre_frame_num \in Numbers /\ filler \in Numbers \cup {None}
    /\ no_output_of_prior_pics_flag \in BOOLEAN
    /\ pic \in Pictures /\ phase \in Phases
    /\ commands \in 0..MaxCommands + num_ref_frames
    /\ error \in {"none", "loss", "duplicate", "no frames", "ascending"}
    /\ decoded \subseteq Pocs /\ kind \in Streams

-----------------------------------------------------------------------------
(* is_short_term_reference, is_long_term_reference                         *)
Short(f) == {i \in DOMAIN f : f[i].ref /\ ~f[i].lt}
Long(f) == {i \in DOMAIN f : f[i].ref /\ f[i].lt}
References(f) == {i \in DOMAIN f : f[i].ref}
Waiting(f) == {i \in DOMAIN f : ~f[i].out}
Unused_or_not_shown(f) == {i \in DOMAIN f : ~f[i].ref}
Unused(f) == {i \in DOMAIN f : f[i].out /\ ~f[i].ref}
Full == Len(fs) = size

First(S) == CHOOSE i \in S : \A j \in S : i <= j

(* unmark_for_reference leaves is_long_term alone.                         *)
Unmarked(S) == [i \in DOMAIN fs |-> IF i \in S THEN [fs[i] EXCEPT !.ref = FALSE] ELSE fs[i]]

(* unmark_for_long_term_reference                                          *)
UnmarkedLong(S) ==
    [i \in DOMAIN fs |-> IF i \in S THEN [fs[i] EXCEPT !.ref = FALSE, !.lt = FALSE] ELSE fs[i]]

WithIndex(idx) == {i \in Long(fs) : fs[i].long_term_frame_idx = idx}

Removed_swaps(f, i) == [j \in 1..Len(f) - 1 |-> IF j = i THEN f[Len(f)] ELSE f[j]]

(* remove_frame_from_dpb                                                   *)
Removed(f, i) == SubSeq(f, 1, i - 1) \o SubSeq(f, i + 1, Len(f))

(* get_smallest_poc                                                        *)
Smallest(f) == CHOOSE i \in Waiting(f) : \A j \in Waiting(f) : f[i].poc <= f[j].poc

(* init_lists: frame_num_wrap, which is also the pic_num of a frame.       *)
Wrap(n) == IF n > pic.frame_num THEN n - MaxFrameNum ELSE n

(* What store_picture_in_dpb stores: a frame of a gap, or the picture.     *)
Current == IF filler # None
           THEN [frame_num |-> filler, poc |-> 0, ref |-> TRUE, lt |-> FALSE,
                 long_term_frame_idx |-> 0, long_term_pic_num |-> 0, out |-> TRUE]
           ELSE [frame_num |-> pic.frame_num, poc |-> pic.poc, ref |-> pic.ref, lt |-> pic.lt,
                 long_term_frame_idx |-> pic.long_term_frame_idx, long_term_pic_num |-> 0,
                 out |-> FALSE]

NoPicture == [frame_num |-> 0, poc |-> 0, ref |-> FALSE, lt |-> FALSE, long_term_frame_idx |-> 0,
              idr |-> FALSE, adaptive |-> FALSE, intra |-> FALSE, mmco5 |-> FALSE,
              noOutput |-> FALSE]

Stop(e) == error' = e /\ phase' = "dead"
Goto(label) == phase' = label /\ UNCHANGED error

Init == /\ fs = <<>> /\ last_output_poc = None /\ max_long_term_pic_idx = None
        /\ pre_frame_num = 0 /\ no_output_of_prior_pics_flag = FALSE /\ pic = NoPicture /\ filler = None
        /\ phase = "start" /\ commands = 0 /\ error = "none"
        /\ decoded = {} /\ shown = None /\ kind \in Streams

-----------------------------------------------------------------------------
(* The next picture has the number after the last reference picture, or a  *)
(* later one if the stream may leave gaps.                                 *)
Skips == IF pic.ref \/ GapAfterNonRef THEN 0..Gaps ELSE {0}
Number(g) == ((IF pic.ref THEN pre_frame_num + 1 ELSE pre_frame_num) + g) % MaxFrameNum

(* At most Reorder pictures decoded before are shown after this one.       *)
NextPocs == {p \in Pocs \ decoded : Cardinality({d \in decoded : d > p}) <= Reorder}

(* init_lists of P and B slices renews the numbers of long term frames.    *)
Renumbered == [i \in DOMAIN fs |->
    IF i \in Long(fs) THEN [fs[i] EXCEPT !.long_term_pic_num = fs[i].long_term_frame_idx] ELSE fs[i]]

(* The frames that are stored, those of a gap too, find room beside the    *)
(* long term references, and none has the number of a reference.           *)
StartPicture ==
    /\ phase = "idle"
    /\ \E g \in Skips, p \in NextPocs, r \in BOOLEAN,
          a \in {FALSE, Adaptive}, i \in {FALSE, Intra} :
          LET n == Number(g) IN
          /\ a => r
          /\ g > 0 \/ (r /\ ~a) => Cardinality(Long(fs)) < num_ref_frames
          /\ Adaptive => \A j \in Short(fs), k \in 0..g : fs[j].frame_num # Number(k)
          /\ pic' = [NoPicture EXCEPT !.frame_num = n, !.poc = p, !.ref = r, !.adaptive = a, !.intra = i]
          /\ decoded' = decoded \cup {p}
          /\ IF n \in {pre_frame_num, (pre_frame_num + 1) % MaxFrameNum} THEN Goto("decode")
             ELSE IF Gaps = 0 THEN Stop("loss") ELSE Goto("gap")
    /\ commands' = 0
    /\ UNCHANGED <<dpb, pre_frame_num, filler, shown>>

StartIdr ==
    /\ phase \in {"start", "idle"}
    /\ \E p \in Pocs, l, noOutput \in BOOLEAN :
          /\ l => Adaptive
          /\ pic' = [NoPicture EXCEPT !.poc = p, !.ref = TRUE, !.lt = l, !.idr = TRUE,
                                      !.intra = TRUE, !.noOutput = noOutput]
          /\ no_output_of_prior_pics_flag' = noOutput
    /\ pre_frame_num' = 0 /\ commands' = 0 /\ Goto("decode")
    /\ UNCHANGED <<dpb, kind, filler, stream>>

(* fill_frame_num_gap: store the next missing frame, or go on with pic.    *)
FillGap ==
    /\ phase = "gap"
    /\ LET missing == (pre_frame_num + 1) % MaxFrameNum
       IN  IF pic.frame_num = missing
           THEN filler' = None /\ Goto("decode")
           ELSE filler' = missing /\ Goto("slide")
    /\ UNCHANGED <<dpb, pre_frame_num, pic, commands, stream>>

Decode_without_lists ==
    /\ phase = "decode" /\ ~pic.idr
    /\ pre_frame_num' = pic.frame_num
    /\ Goto(IF pic.adaptive THEN "mark" ELSE "slide")
    /\ UNCHANGED <<dpb, pic, filler, commands, stream>>

(* The end of init_picture, init_lists, and the choice store_picture_in_dpb *)
(* makes first.  An IDR picture is stored by the next two actions.          *)
Decode ==
    /\ phase = "decode" /\ ~pic.idr
    /\ pre_frame_num' = pic.frame_num
    /\ fs' = IF pic.intra THEN fs ELSE Renumbered
    /\ Goto(IF pic.adaptive THEN "mark" ELSE "slide")
    /\ UNCHANGED <<last_output_poc, max_long_term_pic_idx, pic, filler, commands, stream>>

-----------------------------------------------------------------------------
(* idr_memory_management, no_output_of_prior_pics_flag set or not.         *)
LongTermIdxOfIdr == IF pic.lt THEN 0 ELSE None

DiscardPictures ==
    /\ phase = "decode" /\ pic.idr /\ pic.noOutput
    /\ fs' = <<>> /\ last_output_poc' = None /\ max_long_term_pic_idx' = LongTermIdxOfIdr
    /\ decoded' = {pic.poc} /\ shown' = None
    /\ Goto("slide")
    /\ UNCHANGED <<pre_frame_num, pic, filler, commands>>

FlushForIdr ==
    /\ phase = "decode" /\ pic.idr /\ ~pic.noOutput
    /\ fs' = Unmarked(DOMAIN fs) /\ Goto("flush")
    /\ UNCHANGED <<last_output_poc, max_long_term_pic_idx, pre_frame_num, pic, filler, commands, stream>>

(* The end of the stream: flush_dpb in main.                               *)
FlushAtEnd ==
    /\ phase = "idle"
    /\ fs' = Unmarked(DOMAIN fs) /\ pic' = NoPicture /\ commands' = 0 /\ Goto("flush")
    /\ UNCHANGED <<last_output_poc, max_long_term_pic_idx, pre_frame_num, filler, stream>>

(* The next IDR picture has another sequence parameter set, and its own    *)
(* no_output_of_prior_pics_flag has not been read: the last one decides.   *)
activate_sps ==
    /\ phase = "idle" /\ (no_output_of_prior_pics_flag => SpsAfterDiscard)
    /\ pic' = NoPicture /\ commands' = 0
    /\ IF no_output_of_prior_pics_flag
       THEN /\ fs' = <<>> /\ last_output_poc' = None
            /\ decoded' = {} /\ shown' = None /\ Goto("start")
       ELSE /\ fs' = Unmarked(DOMAIN fs) /\ Goto("flush")
            /\ UNCHANGED <<last_output_poc, stream>>
    /\ UNCHANGED <<max_long_term_pic_idx, pre_frame_num, filler>>

-----------------------------------------------------------------------------
(* adaptive_memory_management: one action per command.  A stream gives as  *)
(* many as it needs to make room for the picture, and MaxCommands others.  *)
TooMany == Cardinality(References(fs)) >= num_ref_frames

Command(needed) ==
    /\ phase = "mark" /\ commands < IF needed THEN MaxCommands + num_ref_frames ELSE MaxCommands
    /\ commands' = commands + 1
    /\ UNCHANGED <<last_output_poc, pre_frame_num, filler, phase, error, stream>>

mm_unmark_short_term_for_reference ==
    \E n \in {Wrap(fs[i].frame_num) : i \in Short(fs)} :
        /\ Command(TooMany)
        /\ fs' = Unmarked({First({i \in Short(fs) : Wrap(fs[i].frame_num) = n})})
        /\ UNCHANGED <<max_long_term_pic_idx, pic>>

(* The stream names a long term frame by its index.                        *)
mm_unmark_long_term_for_reference(n) ==
    /\ n \in {fs[i].long_term_frame_idx : i \in Long(fs)}
    /\ Command(TooMany)
    /\ fs' = UnmarkedLong({i \in Long(fs) : fs[i].long_term_pic_num = n})
    /\ UNCHANGED <<max_long_term_pic_idx, pic>>

(* Whatever had the index loses it, then mark_pic_long_term.               *)
mm_assign_long_term_frame_idx ==
    \E n \in {Wrap(fs[i].frame_num) : i \in Short(fs)}, idx \in 0..max_long_term_pic_idx :
        LET marked == First({i \in Short(fs) : Wrap(fs[i].frame_num) = n})
        IN  /\ Command(FALSE) /\ ~pic.lt
            /\ fs' = [UnmarkedLong(WithIndex(idx)) EXCEPT
                        ![marked].lt = TRUE,
                        ![marked].long_term_frame_idx = idx,
                        ![marked].long_term_pic_num = idx]
            /\ UNCHANGED <<max_long_term_pic_idx, pic>>

mm_update_max_long_term_frame_idx ==
    \E max \in Indices \cup {None} :
        /\ Command(FALSE) /\ ~pic.lt
        /\ max_long_term_pic_idx' = max
        /\ fs' = UnmarkedLong({i \in Long(fs) : fs[i].long_term_frame_idx > max})
        /\ UNCHANGED pic

(* mm_unmark_all_short_term_ and _long_term_for_reference                  *)
mm_unmark_all ==
    /\ Command(FALSE) /\ ~pic.lt /\ ~pic.mmco5
    /\ max_long_term_pic_idx' = None
    /\ fs' = [i \in DOMAIN fs |-> IF i \in Short(fs) THEN Unmarked({i})[i]
                                  ELSE UnmarkedLong(Long(fs))[i]]
    /\ pic' = [pic EXCEPT !.mmco5 = TRUE]

mm_mark_current_keeps_old ==
    \E idx \in 0..max_long_term_pic_idx :
        /\ Command(FALSE) /\ ~pic.lt
        /\ pic' = [pic EXCEPT !.lt = TRUE, !.long_term_frame_idx = idx]
        /\ UNCHANGED <<fs, max_long_term_pic_idx>>

mm_mark_current_picture_long_term ==
    \E idx \in 0..max_long_term_pic_idx :
        /\ Command(FALSE) /\ ~pic.lt
        /\ fs' = UnmarkedLong(WithIndex(idx))
        /\ pic' = [pic EXCEPT !.lt = TRUE, !.long_term_frame_idx = idx]
        /\ UNCHANGED max_long_term_pic_idx

(* The end of adaptive_memory_management.                                  *)
EndOfCommands ==
    /\ phase = "mark" /\ ~TooMany
    /\ IF pic.mmco5
       THEN /\ pic' = [pic EXCEPT !.frame_num = 0, !.poc = 0]
            /\ fs' = Unmarked(DOMAIN fs) /\ Goto("flush")
       ELSE Goto("slide") /\ UNCHANGED <<pic, fs>>
    /\ UNCHANGED <<last_output_poc, max_long_term_pic_idx, pre_frame_num, filler, commands, stream>>

-----------------------------------------------------------------------------
OutputOne_forgets ==
    IF Waiting(fs) = {} THEN Stop("no frames") /\ UNCHANGED <<dpb, shown>>
    ELSE LET i == Smallest(fs)
         IN  /\ shown' = fs[i].poc
             /\ fs' = IF fs[i].ref THEN fs ELSE Removed(fs, i)
             /\ last_output_poc' = fs[i].poc
             /\ UNCHANGED <<max_long_term_pic_idx, error, phase>>

(* output_one_frame_from_dpb writes the frame before it tests the order.   *)
OutputOne ==
    IF Waiting(fs) = {} THEN Stop("no frames") /\ UNCHANGED <<dpb, shown>>
    ELSE LET i == Smallest(fs)
         IN  /\ shown' = fs[i].poc
             /\ IF last_output_poc >= fs[i].poc
                THEN /\ Stop("ascending") /\ UNCHANGED last_output_poc
                     /\ fs' = [fs EXCEPT ![i].out = TRUE]
                ELSE /\ last_output_poc' = fs[i].poc /\ UNCHANGED <<error, phase>>
                     /\ fs' = IF fs[i].ref THEN [fs EXCEPT ![i].out = TRUE] ELSE Removed(fs, i)
             /\ UNCHANGED max_long_term_pic_idx

(* flush_dpb: remove the unused frames, then output the others.            *)
FlushUnused ==
    /\ phase = "flush" /\ Unused(fs) # {}
    /\ fs' = Removed(fs, First(Unused(fs)))
    /\ UNCHANGED <<last_output_poc, max_long_term_pic_idx, pre_frame_num, pic, filler, phase,
                   commands, error, stream>>

FlushOutput ==
    /\ phase = "flush" /\ Unused(fs) = {} /\ fs # <<>>
    /\ OutputOne
    /\ UNCHANGED <<pre_frame_num, pic, filler, commands, decoded>>

FlushEnd_keeps_poc ==
    /\ phase = "flush" /\ fs = <<>>
    /\ shown' = None
    /\ decoded' = IF pic.ref THEN {pic.poc} ELSE {}
    /\ max_long_term_pic_idx' = IF pic.idr THEN LongTermIdxOfIdr ELSE max_long_term_pic_idx
    /\ Goto(IF pic.ref THEN "slide" ELSE "start")
    /\ UNCHANGED <<fs, last_output_poc, pre_frame_num, pic, filler, commands>>

(* Back in idr_memory_management, in adaptive_memory_management, or in the *)
(* caller that has no picture.                                             *)
FlushEnd ==
    /\ phase = "flush" /\ fs = <<>>
    /\ last_output_poc' = None /\ shown' = None
    /\ decoded' = IF pic.ref THEN {pic.poc} ELSE {}
    /\ max_long_term_pic_idx' = IF pic.idr THEN LongTermIdxOfIdr ELSE max_long_term_pic_idx
    /\ Goto(IF pic.ref THEN "slide" ELSE "start")
    /\ UNCHANGED <<fs, pre_frame_num, pic, filler, commands>>

-----------------------------------------------------------------------------
Slid_late == IF Short(fs) # {} /\ Cardinality(Short(fs)) = num_ref_frames
             THEN Unmarked({First(Short(fs))})
             ELSE fs

(* sliding_window_memory_management, then remove_unused_frame_from_dpb     *)
(* once, if the buffer is full.                                            *)
Slid == IF /\ Short(fs) # {}
           /\ Cardinality(Short(fs)) = num_ref_frames - Cardinality(Long(fs))
        THEN Unmarked({First(Short(fs))})
        ELSE fs

SlideWindow ==
    /\ phase = "slide"
    /\ LET f == IF Current.ref /\ (filler # None \/ ~(pic.adaptive \/ pic.idr)) THEN Slid ELSE fs
       IN  fs' = IF Len(f) = size /\ Unused(f) # {} THEN Removed(f, First(Unused(f))) ELSE f
    /\ Goto("room")
    /\ UNCHANGED <<last_output_poc, max_long_term_pic_idx, pre_frame_num, pic, filler, commands, stream>>

(* A non-reference picture that comes before everything waiting.           *)
GoesFirst == ~Current.ref /\ \A i \in Waiting(fs) : Current.poc < fs[i].poc

(* After store_picture_in_dpb: the next frame of a gap, or exit_picture.   *)
Stored ==
    /\ pre_frame_num' = IF filler # None THEN filler ELSE IF pic.mmco5 THEN 0 ELSE pre_frame_num
    /\ phase' = IF filler # None THEN "gap" ELSE "idle"

direct_output ==
    /\ phase = "room" /\ Full /\ GoesFirst
    /\ shown' = Current.poc /\ Stored
    /\ UNCHANGED <<dpb, pic, filler, commands, error, decoded>>

MakeRoom ==
    /\ phase = "room" /\ Full /\ ~GoesFirst
    /\ OutputOne
    /\ UNCHANGED <<pre_frame_num, pic, filler, commands, decoded>>

insert_picture_in_dpb ==
    /\ phase = "room" /\ ~Full
    /\ IF Current.ref /\ ~Current.lt /\ \E i \in Short(fs) : fs[i].frame_num = Current.frame_num
       THEN Stop("duplicate") /\ UNCHANGED <<fs, pre_frame_num>>
       ELSE fs' = Append(fs, Current) /\ Stored /\ UNCHANGED error
    /\ UNCHANGED <<last_output_poc, max_long_term_pic_idx, pic, filler, commands, stream>>

(* Only the slice header of an IDR picture sets the flag.                   *)
KeepsFlag == UNCHANGED <<no_output_of_prior_pics_flag, kind>>

Marking == \/ KeepsFlag /\ mm_unmark_short_term_for_reference
           \/ KeepsFlag /\ \E n \in Indices : mm_unmark_long_term_for_reference(n)
           \/ KeepsFlag /\ mm_assign_long_term_frame_idx
           \/ KeepsFlag /\ mm_update_max_long_term_frame_idx
           \/ KeepsFlag /\ mm_unmark_all
           \/ KeepsFlag /\ mm_mark_current_picture_long_term
           \/ KeepsFlag /\ EndOfCommands

Stream == \/ StartIdr
          \/ KeepsFlag /\ StartPicture
          \/ KeepsFlag /\ FlushAtEnd
          \/ KeepsFlag /\ activate_sps
          \/ Marking

Decoder == \/ KeepsFlag /\ FillGap
           \/ KeepsFlag /\ Decode
           \/ KeepsFlag /\ DiscardPictures
           \/ KeepsFlag /\ FlushForIdr
           \/ KeepsFlag /\ FlushUnused
           \/ KeepsFlag /\ FlushOutput
           \/ KeepsFlag /\ FlushEnd
           \/ KeepsFlag /\ SlideWindow
           \/ KeepsFlag /\ direct_output
           \/ KeepsFlag /\ MakeRoom
           \/ KeepsFlag /\ insert_picture_in_dpb

Next == Stream \/ Decoder

(* The decoder is one sequential program; the stream may end.              *)
Spec == Init /\ [][Next]_vars /\ WF_vars(Decoder)

-----------------------------------------------------------------------------
(* Between pictures no more than num_ref_frames frames are references.     *)
RefsBounded == phase = "idle" => Cardinality(References(fs)) <= num_ref_frames

(* A legal stream never makes the decoder call error(): not for a frame    *)
(* number it has twice, not for a full buffer without a frame to output,   *)
(* not for the order of its output.                                        *)
NoError == error = "none"

(* The sliding window drops the frame with the smallest FrameNumWrap: it   *)
(* takes the first in the buffer, and the buffer is in that order, also    *)
(* across wraps of frame_num and after frames were removed in between. "If  *)
(* a gap in frame_num is found, try to fill the gap": without memory        *)
(* management commands the numbers are consecutive up to the last one.     *)
WindowOrder ==
    LET last == IF pic.ref THEN pre_frame_num ELSE pre_frame_num - 1
    IN  phase = "idle" =>
          /\ \A i, j \in Short(fs) : i < j => Wrap(fs[i].frame_num) < Wrap(fs[j].frame_num)
          /\ ~Adaptive => {fs[i].frame_num : i \in Short(fs)} =
                             {(last - k) % MaxFrameNum : k \in 0..Cardinality(Short(fs)) - 1}

(* No two long term frames share an index, none has one above the maximum. *)
LongTermIndices == phase = "idle" =>
    \A i, j \in Long(fs) :
        /\ fs[i].long_term_frame_idx = fs[j].long_term_frame_idx => i = j
        /\ fs[i].long_term_frame_idx <= max_long_term_pic_idx

(* "Mark long term picture unused": afterwards the index is free, and the  *)
(* frames with other indices are what they were.                           *)
MarksNamedFrame ==
    [][\A n \in Indices : mm_unmark_long_term_for_reference(n) =>
          /\ WithIndex(n)' = {}
          /\ \A m \in Indices \ {n} : WithIndex(m)' = WithIndex(m)]_vars

(* Storing a picture ends: the loops that fill a gap, that make room and   *)
(* that flush the buffer terminate, if only in front of the commands that  *)
(* come with the picture.                                                  *)
StoreReturns == phase \in {"gap", "decode", "slide", "room", "flush"} ~> phase \in {"mark", "idle", "start", "dead"}

(* Every picture of the stream is written once, in ascending order, unless *)
(* the stream says otherwise.                                              *)
InHand == phase \in {"slide", "room"} /\ filler = None

Order == INSTANCE PictureOrder WITH
    mayDiscard <- pic.noOutput,
    pending <- {fs[i].poc : i \in Waiting(fs)} \cup (IF InHand THEN {pic.poc} ELSE {})

ImplementsOrder == Order!Spec
=============================================================================
