------------------------------ MODULE SliceReader ------------------------------
(***************************************************************************)
(* From NAL units to pictures (ldecod: image.c, parset.c). The encoder     *)
(* sends pictures of several slices, whole or in three partitions, and     *)
(* parameter sets between slices; the network may lose slices and, in      *)
(* another stream, single partitions. Nothing in the stream says where a   *)
(* picture ends: read_new_slice compares each header with the one before   *)
(* it. Parameter sets are kept by id, and the active ones are pointers     *)
(* into that store.                                                        *)
(***************************************************************************)
EXTENDS Integers, SequencesExt

CONSTANTS
    Ids,            \* ids of parameter sets
    SpsContents,    \* contents of an SPS: [size, pic_order_cnt_type]
    PpsVersions,    \* contents of a PPS besides the SPS it names
    FrameNums,    \* more than MaxPictures
    MaxPictures,    \* coded pictures
    SlicesPerPicture,
    MaxSets,        \* parameter sets sent, the first ones not counted
    MaxLosses,      \* NAL units lost
    LosePartitions, \* a partition may be lost without the rest of its slice
    NULL

\* Slice headers, and the coded pictures made of slices.
SliceHeaders == [n : Nat, slice : Nat, pps : Ids, frame_num : Nat, field : BOOLEAN, bottom : BOOLEAN,
            nal_ref_idc : 0..1, idr : BOOLEAN, idr_pic_id : Nat, pic_order_cnt_lsb : Nat, delta_pic_order_cnt : Nat]
Pictures == [opened_by : SliceHeaders, slices : SUBSET (Nat \X Nat)]

ASSUME IdsAssumption == Ids # {} /\ NULL \notin Ids
ASSUME PicturesAssumption == NULL \notin Pictures
ASSUME ContentsAssumption == \A c \in SpsContents : c.pic_order_cnt_type \in 0..2
ASSUME FrameNumsAssumption == FrameNums \in Nat /\ FrameNums > 1
ASSUME ReaderBoundsAssumption == {MaxPictures, SlicesPerPicture, MaxSets, MaxLosses} \subseteq Nat
ASSUME LosePartitionsAssumption == LosePartitions \in BOOLEAN

VARIABLES
    sets,           \* the parameter sets as the encoder sent them last
    coded,          \* the coded picture being sent
    left,           \* slices of it not yet sent
    part,           \* partition to be sent next: 0 for the next slice, or 1, 2
    sends,          \* the encoder's and the network's counts and flags
    d,              \* the decoder
    decoded,        \* history: the slices decoded, and what the last was decoded with
    stored          \* history: the pictures given to the DPB, with their slices

readerVars == <<sets, coded, left, part, sends, d, decoded, stored>>

----------------------------------------------------------------------------
(* The decoder. exit_picture is called in many places, so that the steps   *)
(* are functions of r = [d, stored].                                       *)

Name(h) == <<h.n, h.slice>>

exit_picture(r) ==
    IF r.d.dec_picture = NULL THEN r
    ELSE [d |-> [r.d EXCEPT !.dec_picture = NULL], stored |-> Append(r.stored, r.d.dec_picture)]

\* Mutant: the active set is overwritten as any other.
ProcessSPS_in_place(r, id, content) == [r EXCEPT !.d.SeqParSet[id] = content]

\* A set that differs from the active one of its id ends the picture.
ProcessSPS(r, id, content) ==
    LET changed == r.d.active_sps = id /\ content # r.d.SeqParSet[id]
        q == IF changed THEN exit_picture(r) ELSE r
    IN  [q EXCEPT !.d.SeqParSet[id] = content, !.d.active_sps = IF changed THEN NULL ELSE @]

ProcessPPS(r, id, content) ==
    LET changed == r.d.active_pps = id /\ content # r.d.PicParSet[id]
        q == IF changed THEN exit_picture(r) ELSE r
    IN  [q EXCEPT !.d.PicParSet[id] = content, !.d.active_pps = IF changed THEN NULL ELSE @]

\* img gets its sizes from the SPS only when another one becomes active.
activate_sps(r, id) ==
    IF r.d.active_sps = id THEN r
    ELSE [exit_picture(r) EXCEPT !.d.active_sps = id, !.d.img_sps = r.d.SeqParSet[id]]

activate_pps(r, id) ==
    IF r.d.active_pps = id THEN r ELSE [exit_picture(r) EXCEPT !.d.active_pps = id]

UseParameterSet(r, id) == activate_pps(activate_sps(r, r.d.PicParSet[id].sps), id)

\* Mutant: a picture has one number, structure and kind.
is_new_picture_by_number(q, h) ==
    LET old == q.old_slice
    IN  old.pps # h.pps \/ old.frame_num # h.frame_num \/ old.field # h.field \/ old.idr # h.idr

is_new_picture(q, h) ==
    LET old == q.old_slice
        type == q.SeqParSet[q.active_sps].pic_order_cnt_type
    IN  \/ old.pps # h.pps
        \/ old.frame_num # h.frame_num
        \/ old.field # h.field
        \/ h.field /\ old.field /\ old.bottom # h.bottom
        \/ old.nal_ref_idc # h.nal_ref_idc
        \/ old.idr # h.idr
        \/ h.idr /\ old.idr /\ old.idr_pic_id # h.idr_pic_id
        \/ type = 0 /\ old.pic_order_cnt_lsb # h.pic_order_cnt_lsb
        \/ type = 1 /\ old.delta_pic_order_cnt # h.delta_pic_order_cnt

\* bottom, idr_pic_id and the order counts stay as they were where the slice
\* has none of its own.
exit_slice(q, h) ==
    LET old == q.old_slice
        type == q.SeqParSet[q.active_sps].pic_order_cnt_type
        kept == [h EXCEPT !.bottom = IF h.field THEN @ ELSE old.bottom,
                          !.idr_pic_id = IF h.idr THEN @ ELSE old.idr_pic_id,
                          !.pic_order_cnt_lsb = IF type = 0 THEN @ ELSE old.pic_order_cnt_lsb,
                          !.delta_pic_order_cnt = IF type = 1 THEN @ ELSE old.delta_pic_order_cnt]
    IN  [q EXCEPT !.old_slice = kept]

\* gaps_in_frame_num_value_allowed_flag is 0: a gap is an error. An IDR header
\* has set pre_frame_num itself.
init_picture(r, h) ==
    LET q == exit_picture(r)
        pre == IF h.idr THEN h.frame_num ELSE q.d.pre_frame_num
    IN  IF h.frame_num \notin {pre, (pre + 1) % FrameNums}
        THEN [q EXCEPT !.d.stopped = TRUE]
        ELSE [q EXCEPT !.d.pre_frame_num = h.frame_num,
                       !.d.dec_picture = [opened_by |-> h, slices |-> {}]]

\* The part of read_new_slice that a slice and partition A share.
StartSlice(r, h) ==
    LET q == UseParameterSet(r, h.pps)
        p == IF is_new_picture(q.d, h) THEN init_picture(q, h) ELSE q
    IN  [p EXCEPT !.d.img = h]

\* decode_slice, decode_one_slice: with what the partitions hold.
decode_slice(r) ==
    LET h == r.d.img
        q == exit_slice(r.d, h)
    IN  [r EXCEPT !.d = [q EXCEPT !.dec_picture.slices = @ \cup {Name(h)}]]

----------------------------------------------------------------------------
(* The encoder and the network. *)

SentSets(s, h) == [pps |-> s.pps[h.pps], sps |-> s.sps[s.pps[h.pps].sps]]

NoPicture == [n |-> 0, slice |-> 0, pps |-> CHOOSE i \in Ids : TRUE, frame_num |-> 0, field |-> FALSE,
              bottom |-> FALSE, nal_ref_idc |-> 1, idr |-> FALSE, idr_pic_id |-> 0,
              pic_order_cnt_lsb |-> 0, delta_pic_order_cnt |-> 0]

\* init_old_slice: unlike any slice.
init_old_slice ==
    [NoPicture EXCEPT !.pps = -1, !.frame_num = -1, !.nal_ref_idc = -1, !.pic_order_cnt_lsb = -1,
                      !.delta_pic_order_cnt = -1]

ReaderInit ==
    /\ \E v \in PpsVersions, c \in SpsContents :
           sets = [pps |-> [i \in Ids |-> [sps |-> i, version |-> v]], sps |-> [i \in Ids |-> c]]
    /\ \E dp \in BOOLEAN :
           sends = [sets |-> 0, losses |-> 0, fresh_sps |-> TRUE, ref_frame_num |-> 0, partitioned |-> dp]
    /\ coded = NoPicture
    /\ left = 0
    /\ part = 0
    /\ d = [PicParSet |-> sets.pps, SeqParSet |-> sets.sps, active_pps |-> NULL, active_sps |-> NULL,
            img_sps |-> NULL, dec_picture |-> NULL, old_slice |-> init_old_slice, img |-> NoPicture,
            partitions |-> <<NULL, NULL, NULL>>, pre_frame_num |-> 0, stopped |-> FALSE, ended |-> FALSE]
    /\ decoded = [slices |-> {}, last |-> NULL]
    /\ stored = <<>>

Running == ~d.stopped /\ ~d.ended

Becomes(r) == d' = r.d /\ stored' = r.stored
Here == [d |-> d, stored |-> stored]

\* Between the slices of a picture, the sets it uses stay as they are.
SetsOfPictureStay == left > 0 => SentSets(sets', coded) = SentSets(sets, coded)

\* Parameter sets go between slices and are not lost. An SPS whose content
\* changes, or another SPS, needs an IDR picture next.
SendSPS ==
    /\ Running /\ part = 0 /\ sends.sets < MaxSets
    /\ \E id \in Ids, c \in SpsContents :
        /\ Becomes(ProcessSPS(Here, id, c))
        /\ sets' = [sets EXCEPT !.sps[id] = c]
        /\ sends' = [sends EXCEPT !.sets = @ + 1, !.fresh_sps = @ \/ c # sets.sps[id]]
    /\ SetsOfPictureStay
    /\ UNCHANGED <<coded, left, part, decoded>>

SendPPS ==
    /\ Running /\ part = 0 /\ sends.sets < MaxSets
    /\ \E id, sps \in Ids, v \in PpsVersions :
        LET c == [sps |-> sps, version |-> v]
        IN  /\ Becomes(ProcessPPS(Here, id, c))
            /\ sets' = [sets EXCEPT !.pps[id] = c]
    /\ SetsOfPictureStay
    /\ sends' = [sends EXCEPT !.sets = @ + 1,
                              !.fresh_sps = @ \/ SentSets(sets', coded).sps # SentSets(sets, coded).sps]
    /\ UNCHANGED <<coded, left, part, decoded>>

\* The next picture. Frames and fields may alternate; the second field of a
\* frame has the frame number of the first.
Codable(h, sps) ==
    LET second == h.bottom /\ coded.field /\ ~coded.bottom
        next == (sends.ref_frame_num + 1) % FrameNums
    IN  /\ coded.n = 0 \/ sends.fresh_sps \/ sps # SentSets(sets, coded).sps => h.idr
        /\ h.idr => h.nal_ref_idc = 1 /\ ~h.bottom
        /\ h.bottom => second /\ h.nal_ref_idc = coded.nal_ref_idc
        /\ h.frame_num = IF h.idr THEN 0 ELSE IF second THEN coded.frame_num ELSE next
        /\ sps.pic_order_cnt_type = 2 /\ h.nal_ref_idc = 0 => coded.nal_ref_idc = 1 \/ second

PictureHeader(pps, structure, ref, idr, fn) ==
    LET n == coded.n + 1
    IN  [n |-> n, slice |-> 0, pps |-> pps, frame_num |-> fn, field |-> structure # "FRAME",
         bottom |-> structure = "BOTTOM", nal_ref_idc |-> ref, idr |-> idr, idr_pic_id |-> IF idr THEN n ELSE 0,
         pic_order_cnt_lsb |-> IF idr THEN 0 ELSE n, delta_pic_order_cnt |-> IF ref = 1 THEN 0 ELSE n]

Begin(h) ==
    /\ Codable(h, SentSets(sets, h).sps)
    /\ coded' = h
    /\ sends' = [sends EXCEPT !.fresh_sps = FALSE, !.ref_frame_num = IF h.nal_ref_idc = 1 THEN h.frame_num ELSE @]

NextPicture ==
    /\ Running /\ left = 0 /\ part = 0 /\ coded.n < MaxPictures
    /\ \E pps \in Ids, structure \in {"FRAME", "TOP", "BOTTOM"}, ref \in 0..1, idr \in BOOLEAN,
          fn \in 0..MaxPictures : Begin(PictureHeader(pps, structure, ref, idr, fn))
    /\ left' = SlicesPerPicture
    /\ UNCHANGED <<sets, part, d, decoded, stored>>

TheSlice == [coded EXCEPT !.slice = @ + 1]

\* With the partitions ps.
Decode(r, ps) ==
    LET q == r.d
    IN  /\ Becomes(decode_slice(r))
        /\ decoded' = [slices |-> decoded.slices \cup {Name(q.img)},
                       last |-> [slice |-> Name(q.img), opened_by |-> q.dec_picture.opened_by,
                                 partitions |-> Restrict(q.partitions, ps),
                                 used |-> [pps |-> q.PicParSet[q.active_pps],
                                           sps |-> q.SeqParSet[q.active_sps]],
                                 img_sps |-> q.img_sps, sent |-> SentSets(sets, q.img)]]

\* NALU_TYPE_SLICE, NALU_TYPE_IDR: decoded at once, from one partition.
SLICE ==
    /\ Running /\ left > 0 /\ part = 0
    /\ coded.idr \/ ~sends.partitioned
    /\ LET r == StartSlice([Here EXCEPT !.d.partitions[1] = Name(TheSlice)], TheSlice)
       IN  IF r.d.stopped THEN Becomes(r) /\ UNCHANGED decoded ELSE Decode(r, {1})
    /\ coded' = TheSlice
    /\ left' = left - 1
    /\ UNCHANGED <<sets, part, sends>>

\* NALU_TYPE_DPA: kept until partition C comes.
DPA ==
    /\ Running /\ left > 0 /\ part = 0
    /\ sends.partitioned /\ ~coded.idr
    /\ Becomes(StartSlice([Here EXCEPT !.d.partitions[1] = Name(TheSlice)], TheSlice))
    /\ coded' = TheSlice
    /\ left' = left - 1
    /\ part' = 1
    /\ UNCHANGED <<sets, sends, decoded>>

DPB ==
    /\ Running /\ part = 1
    /\ d' = [d EXCEPT !.partitions[2] = Name(coded)]
    /\ part' = 2
    /\ UNCHANGED <<sets, coded, left, sends, decoded, stored>>

\* NALU_TYPE_DPC: read_new_slice returns, the slice is decoded.
DPC ==
    /\ Running /\ part = 2
    /\ Decode([Here EXCEPT !.d.partitions[3] = Name(coded)], 1..3)
    /\ part' = 0
    /\ UNCHANGED <<sets, coded, left, sends>>

LoseSlice ==
    /\ Running /\ left > 0 /\ part = 0 /\ sends.losses < MaxLosses
    /\ sends' = [sends EXCEPT !.losses = @ + 1]
    /\ coded' = TheSlice
    /\ left' = left - 1
    /\ UNCHANGED <<sets, part, d, decoded, stored>>

LosePartition ==
    /\ LosePartitions
    /\ Running /\ part > 0 /\ sends.losses < MaxLosses
    /\ sends' = [sends EXCEPT !.losses = @ + 1]
    /\ part' = IF part = 1 THEN 2 ELSE 0
    /\ UNCHANGED <<sets, coded, left, d, decoded, stored>>

\* The end of the stream, in decode_one_frame.
EndOfStream ==
    /\ Running /\ left = 0 /\ part = 0 /\ coded.n > 0
    /\ LET r == exit_picture(Here) IN Becomes([r EXCEPT !.d.ended = TRUE])
    /\ UNCHANGED <<sets, coded, left, part, sends, decoded>>

ReaderNext ==
    \/ SendSPS \/ SendPPS \/ NextPicture
    \/ SLICE \/ DPA \/ DPB \/ DPC
    \/ LoseSlice \/ LosePartition
    \/ EndOfStream

ReaderSpec == ReaderInit /\ [][ReaderNext]_readerVars

----------------------------------------------------------------------------
\* A slice is decoded into the picture it was coded in, and at the end every
\* slice decoded is in one picture of the DPB, the pictures in coding order,
\* whichever slices before, between and after them were lost.
SlicesFindTheirPicture ==
    /\ decoded.last # NULL => decoded.last.opened_by.n = decoded.last.slice[1]
    /\ \A i \in 1..(Len(stored) - 1) : stored[i].opened_by.n < stored[i + 1].opened_by.n
    /\ d.ended => UNION {stored[i].slices : i \in DOMAIN stored} = decoded.slices

\* A slice is decoded with the parameter sets that were sent last before it,
\* and with the sizes in img that belong to them, although the store is
\* overwritten in place and img is not.
SetsAreThoseSent ==
    LET last == decoded.last
    IN  last # NULL => last.used = last.sent /\ last.img_sps = last.sent.sps

\* The partitions a slice is decoded with are its own: partition B or C is used
\* when it belongs to partition A (read_new_slice, the comment at NALU_TYPE_DPA).
PartitionsBelongTogether ==
    decoded.last # NULL => \A p \in DOMAIN decoded.last.partitions : decoded.last.partitions[p] = decoded.last.slice
=============================================================================
