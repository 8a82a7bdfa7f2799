----------------------------- MODULE CodingProofs ----------------------------
(***************************************************************************)
(* What is proved of a coded stream.  Of its slices: that each finds its   *)
(* parameter sets, its picture and its partitions, for every number of     *)
(* pictures, slices, parameter sets and lost slices.  Of the arithmetic    *)
(* coder: that the decoder takes the decisions from a codeword that were   *)
(* put in.  Of the byte stream: that it reads the payloads from a file     *)
(* that were written.                                                      *)
(***************************************************************************)
EXTENDS ByteStream, SliceReader, ArithmeticCoder, WellFoundedInduction, TLAPS

(***************************************************************************)
(* Types.  old_slice begins unlike any header, and keeps what a slice does *)
(* not have.                                                               *)
(***************************************************************************)
OldSlices == [n : Nat, slice : Nat, pps : Ids \cup {-1}, frame_num : Int, field : BOOLEAN, bottom : BOOLEAN,
              nal_ref_idc : {-1, 0, 1}, idr : BOOLEAN, idr_pic_id : Nat, pic_order_cnt_lsb : Int,
              delta_pic_order_cnt : Int]

PicParSets == [Ids -> [sps : Ids, version : PpsVersions]]
SeqParSets == [Ids -> SpsContents]

Partitions == [1..3 -> (Nat \X Nat) \cup {NULL}]

Decoders ==
    [PicParSet : PicParSets, SeqParSet : SeqParSets, active_pps : Ids \cup {NULL}, active_sps : Ids \cup {NULL},
     img_sps : SpsContents \cup {NULL}, dec_picture : Pictures \cup {NULL}, old_slice : OldSlices, img : SliceHeaders,
     partitions : Partitions, pre_frame_num : Nat, stopped : BOOLEAN, ended : BOOLEAN]

Steps == [d : Decoders, stored : Seq(Pictures)]

ReaderTypeOK ==
    /\ sets \in [pps : PicParSets, sps : SeqParSets]
    /\ coded \in SliceHeaders /\ left \in Nat /\ part \in 0..2
    /\ sends \in [sets : Nat, losses : Nat, fresh_sps : BOOLEAN, ref_frame_num : Nat, partitioned : BOOLEAN]
    /\ d \in Decoders /\ stored \in Seq(Pictures)
    /\ decoded.slices \subseteq Nat \X Nat

(* The sizes in img are those of the active SPS.                           *)
SizesOf(q) == q.active_sps # NULL => q.img_sps = q.SeqParSet[q.active_sps]

(* The parameter sets of header h are active.                              *)
Active(q, h) == q.active_pps = h.pps /\ q.active_sps = q.PicParSet[h.pps].sps

(* The store of the decoder is what was sent, and while the partitions of  *)
(* a slice arrive its sets are active.                                     *)
SetsKept ==
    /\ d.PicParSet = sets.pps /\ d.SeqParSet = sets.sps
    /\ SizesOf(d)
    /\ part > 0 /\ Running => Active(d, coded) /\ d.img = coded
    /\ SetsAreThoseSent

-----------------------------------------------------------------------------
(* What a header, or old_slice, holds is of its own picture or an earlier  *)
(* one.                                                                    *)
KeptIsOlder(h) == h.idr_pic_id <= h.n /\ h.pic_order_cnt_lsb <= h.n /\ h.delta_pic_order_cnt <= h.n

(* The picture coded last, and what is left of it.                         *)
CodedOK ==
    /\ IF coded.n = 0 THEN left = 0 /\ part = 0 ELSE left + coded.slice = SlicesPerPicture
    /\ part > 0 => coded.slice > 0
    /\ coded.frame_num < FrameNums /\ sends.ref_frame_num < FrameNums
    /\ coded.nal_ref_idc = 1 => sends.ref_frame_num = coded.frame_num
    /\ coded.idr => coded.idr_pic_id = coded.n
    /\ KeptIsOlder(coded)
    /\ coded.n > 0 /\ ~coded.idr => /\ coded.pic_order_cnt_lsb = coded.n
                                    /\ coded.nal_ref_idc = 0 => coded.delta_pic_order_cnt = coded.n

(* old_slice is of the picture of h.                                       *)
SamePicture(old, h) ==
    /\ old.pps = h.pps /\ old.frame_num = h.frame_num /\ old.field = h.field /\ old.nal_ref_idc = h.nal_ref_idc
    /\ old.idr = h.idr
    /\ h.field => old.bottom = h.bottom
    /\ h.idr => old.idr_pic_id = h.idr_pic_id

SameCounts(old, h, type) ==
    /\ type = 0 => old.pic_order_cnt_lsb = h.pic_order_cnt_lsb
    /\ type = 1 => old.delta_pic_order_cnt = h.delta_pic_order_cnt

(* is_new_picture.                                                         *)
Differ(old, h, type) ==
    \/ old.pps # h.pps
    \/ old.frame_num # h.frame_num
    \/ old.field # h.field
    \/ h.field /\ old.field /\ old.bottom # h.bottom
    \/ old.nal_ref_idc # h.nal_ref_idc
    \/ old.idr # h.idr
    \/ h.idr /\ old.idr /\ old.idr_pic_id # h.idr_pic_id
    \/ type = 0 /\ old.pic_order_cnt_lsb # h.pic_order_cnt_lsb
    \/ type = 1 /\ old.delta_pic_order_cnt # h.delta_pic_order_cnt

TypeSent == SentSets(sets, coded).sps.pic_order_cnt_type

OldSliceOK ==
    LET old == d.old_slice
    IN  /\ old.n <= coded.n /\ KeptIsOlder(old)
        /\ old.n = coded.n /\ coded.n > 0 => SamePicture(old, coded)
        /\ old.n = coded.n /\ left > 0 => SameCounts(old, coded, TypeSent)
        /\ coded.n = 0 => old = init_old_slice
        /\ old.n # coded.n => Differ(old, coded, TypeSent)

(* A picture of which nothing was decoded lost all slices sent so far.     *)
LossesOK ==
    /\ sends.losses <= MaxLosses
    /\ part = 0 /\ d.old_slice.n # coded.n => coded.slice <= sends.losses

(* The open picture is that of the slice, and the pictures stored before   *)
(* are older.                                                              *)
OpenOK ==
    LET pic == d.dec_picture
        last == IF part > 0 THEN coded.n ELSE d.old_slice.n
    IN  /\ pic # NULL => pic.opened_by.n = last
        /\ part > 0 \/ (left > 0 /\ d.old_slice.n = coded.n) => pic # NULL /\ Active(d, coded)
        /\ \A i \in DOMAIN stored : /\ stored[i].opened_by.n <= d.old_slice.n
                                    /\ pic # NULL => stored[i].opened_by.n < pic.opened_by.n

(* Every slice decoded is in a picture.                                    *)
In(x, pic, pics) == (pic # NULL /\ x \in pic.slices) \/ \E i \in DOMAIN pics : x \in pics[i].slices

Kept == \A x : x \in decoded.slices <=> In(x, d.dec_picture, stored)

Ascending(pics) == \A i \in 1..Len(pics) - 1 : pics[i].opened_by.n < pics[i + 1].opened_by.n

PicturesOK ==
    /\ CodedOK
    /\ Running => OldSliceOK /\ LossesOK /\ OpenOK
    /\ ~d.stopped => Kept
    /\ d.ended => d.dec_picture = NULL /\ ~d.stopped
    /\ decoded.last # NULL => decoded.last.opened_by.n = decoded.last.slice[1]
    /\ Ascending(stored)

(* The partitions that have arrived are the slice's.                       *)
PartitionsOK ==
    /\ part > 0 /\ Running => d.partitions[1] = Name(coded)
    /\ part = 2 /\ Running => d.partitions[2] = Name(coded)
    /\ PartitionsBelongTogether

(* What the network may not do: lose a partition without its slice, or a   *)
(* picture whole.  When a picture is sent, the last slice that was decoded *)
(* is one of its slices.                                                   *)
SomethingArrives ==
    /\ ~LosePartitions
    /\ Running /\ left = 0 /\ part = 0 => d.old_slice.n = coded.n

ReaderInv == ReaderTypeOK /\ SetsKept /\ PicturesOK /\ PartitionsOK

(***************************************************************************)
(* The steps of the decoder.                                               *)
(***************************************************************************)
(* exit_picture hands the picture over.                                    *)
Closed(r) == IF r.d.dec_picture = NULL THEN r.stored ELSE Append(r.stored, r.d.dec_picture)

(* Neither the sets nor old_slice, the partitions, img, the frame number   *)
(* or the flags change.                                                    *)
SameRest(a, b) ==
    /\ a.PicParSet = b.PicParSet /\ a.SeqParSet = b.SeqParSet /\ a.old_slice = b.old_slice /\ a.img = b.img
    /\ a.partitions = b.partitions /\ a.pre_frame_num = b.pre_frame_num /\ a.stopped = b.stopped /\ a.ended = b.ended

SameActive(a, b) == a.active_pps = b.active_pps /\ a.active_sps = b.active_sps /\ a.img_sps = b.img_sps

(* q is r with the picture as it was, or handed over.                      *)
MayClose(q, r) ==
    \/ q.d.dec_picture = r.d.dec_picture /\ q.stored = r.stored
    \/ q.d.dec_picture = NULL /\ q.stored = Closed(r)

LEMMA ExitPicture ==
    ASSUME NEW r \in Steps
    PROVE  /\ exit_picture(r) \in Steps
           /\ SameRest(exit_picture(r).d, r.d) /\ SameActive(exit_picture(r).d, r.d)
           /\ exit_picture(r).d.dec_picture = NULL /\ exit_picture(r).stored = Closed(r)
<1>1. CASE r.d.dec_picture = NULL
  BY <1>1 DEF exit_picture, SameRest, SameActive, Closed
<1>2. CASE r.d.dec_picture # NULL
  <2>1. exit_picture(r) = [d |-> [r.d EXCEPT !.dec_picture = NULL], stored |-> Append(r.stored, r.d.dec_picture)]
    BY <1>2 DEF exit_picture
  <2>2. r.d \in Decoders /\ r.stored \in Seq(Pictures) /\ r.d.dec_picture \in Pictures
    BY <1>2 DEF Steps, Decoders
  <2>3. [r.d EXCEPT !.dec_picture = NULL] \in Decoders
    BY <2>2 DEF Decoders
  <2>4. Append(r.stored, r.d.dec_picture) \in Seq(Pictures)
    BY <2>2
  <2>5. exit_picture(r) \in Steps
    BY <2>1, <2>3, <2>4 DEF Steps
  <2>6. SameRest(exit_picture(r).d, r.d) /\ SameActive(exit_picture(r).d, r.d) /\ exit_picture(r).d.dec_picture = NULL
    BY <2>1, <2>2 DEF SameRest, SameActive, Decoders
  <2>7. exit_picture(r).stored = Closed(r)
    BY <1>2, <2>1 DEF Closed
  <2>8. QED
    BY <2>5, <2>6, <2>7
<1>3. QED
  BY <1>1, <1>2

LEMMA ActivateSps ==
    ASSUME NEW r \in Steps, NEW id \in Ids, SizesOf(r.d)
    PROVE  LET q == activate_sps(r, id)
           IN  /\ q \in Steps /\ SameRest(q.d, r.d) /\ q.d.active_sps = id /\ q.d.active_pps = r.d.active_pps
               /\ SizesOf(q.d) /\ MayClose(q, r)
               /\ r.d.active_sps = id => q = r
<1> DEFINE q == activate_sps(r, id)
           e == exit_picture(r)
<1>1. CASE r.d.active_sps = id
  BY <1>1 DEF activate_sps, SameRest, MayClose
<1>2. CASE r.d.active_sps # id
  <2>1. q = [e EXCEPT !.d.active_sps = id, !.d.img_sps = r.d.SeqParSet[id]]
    BY <1>2 DEF activate_sps
  <2>2. e \in Steps /\ SameRest(e.d, r.d) /\ SameActive(e.d, r.d) /\ e.d.dec_picture = NULL /\ e.stored = Closed(r)
    BY ExitPicture
  <2>3. e.d \in Decoders /\ e.stored \in Seq(Pictures) /\ r.d.SeqParSet[id] \in SpsContents
    BY <2>2 DEF Steps, Decoders, SeqParSets
  <2> HIDE DEF e
  <2>4. q = [d |-> [e.d EXCEPT !.active_sps = id, !.img_sps = r.d.SeqParSet[id]], stored |-> e.stored]
    BY <2>1, <2>2 DEF Steps
  <2> HIDE DEF q
  <2>5. q \in Steps
    BY <2>3, <2>4 DEF Steps, Decoders
  <2>6. SameRest(q.d, r.d) /\ q.d.active_sps = id /\ q.d.active_pps = r.d.active_pps /\ q.d.img_sps = r.d.SeqParSet[id]
    BY <2>2, <2>3, <2>4 DEF SameRest, SameActive, Decoders
  <2>7. SizesOf(q.d)
    BY <2>6 DEF SizesOf, SameRest
  <2>8. q.d.dec_picture = NULL /\ q.stored = Closed(r)
    BY <2>2, <2>3, <2>4 DEF Decoders
  <2>9. QED
    BY <1>2, <2>5, <2>6, <2>7, <2>8 DEF q, MayClose
<1>3. QED
  BY <1>1, <1>2

LEMMA ActivatePps ==
    ASSUME NEW r \in Steps, NEW id \in Ids, SizesOf(r.d)
    PROVE  LET q == activate_pps(r, id)
           IN  /\ q \in Steps /\ SameRest(q.d, r.d) /\ q.d.active_pps = id /\ q.d.active_sps = r.d.active_sps
               /\ SizesOf(q.d) /\ MayClose(q, r)
               /\ r.d.active_pps = id => q = r
<1> DEFINE q == activate_pps(r, id)
           e == exit_picture(r)
<1>1. CASE r.d.active_pps = id
  BY <1>1 DEF activate_pps, SameRest, MayClose
<1>2. CASE r.d.active_pps # id
  <2>1. q = [e EXCEPT !.d.active_pps = id]
    BY <1>2 DEF activate_pps
  <2>2. e \in Steps /\ SameRest(e.d, r.d) /\ SameActive(e.d, r.d) /\ e.d.dec_picture = NULL /\ e.stored = Closed(r)
    BY ExitPicture
  <2>3. e.d \in Decoders /\ e.stored \in Seq(Pictures)
    BY <2>2 DEF Steps
  <2> HIDE DEF e
  <2>4. q = [d |-> [e.d EXCEPT !.active_pps = id], stored |-> e.stored]
    BY <2>1, <2>2 DEF Steps
  <2> HIDE DEF q
  <2>5. q \in Steps
    BY <2>3, <2>4 DEF Steps, Decoders
  <2>6. SameRest(q.d, r.d) /\ q.d.active_pps = id /\ q.d.active_sps = r.d.active_sps /\ q.d.img_sps = r.d.img_sps
    BY <2>2, <2>3, <2>4 DEF SameRest, SameActive, Decoders
  <2>7. SizesOf(q.d)
    BY <2>6 DEF SizesOf, SameRest
  <2>8. q.d.dec_picture = NULL /\ q.stored = Closed(r)
    BY <2>2, <2>3, <2>4 DEF Decoders
  <2>9. QED
    BY <1>2, <2>5, <2>6, <2>7, <2>8 DEF q, MayClose
<1>3. QED
  BY <1>1, <1>2

(* After UseParameterSet the sets of the header are active, with the sizes *)
(* in img that belong to them; if they were, nothing happens.              *)
LEMMA UsedSets ==
    ASSUME NEW r \in Steps, NEW h \in SliceHeaders, SizesOf(r.d)
    PROVE  LET q == UseParameterSet(r, h.pps)
           IN  /\ q \in Steps /\ SameRest(q.d, r.d) /\ Active(q.d, h) /\ SizesOf(q.d) /\ MayClose(q, r)
               /\ Active(r.d, h) => q = r
<1> DEFINE sps == r.d.PicParSet[h.pps].sps
           p == activate_sps(r, sps)
           q == activate_pps(p, h.pps)
<1>1. h.pps \in Ids /\ sps \in Ids
  BY DEF SliceHeaders, Steps, Decoders, PicParSets
<1>2. /\ p \in Steps /\ SameRest(p.d, r.d) /\ p.d.active_sps = sps /\ p.d.active_pps = r.d.active_pps
      /\ SizesOf(p.d) /\ MayClose(p, r) /\ (r.d.active_sps = sps => p = r)
  BY <1>1, ActivateSps
<1>3. /\ q \in Steps /\ SameRest(q.d, p.d) /\ q.d.active_pps = h.pps /\ q.d.active_sps = p.d.active_sps
      /\ SizesOf(q.d) /\ MayClose(q, p) /\ (p.d.active_pps = h.pps => q = p)
  BY <1>1, <1>2, ActivatePps
<1>4. UseParameterSet(r, h.pps) = q
  BY DEF UseParameterSet
<1> HIDE DEF p, q
<1>5. SameRest(q.d, r.d) /\ Active(q.d, h)
  BY <1>2, <1>3 DEF SameRest, Active
<1>6. MayClose(q, r)
  BY <1>2, <1>3 DEF MayClose, Closed
<1>7. Active(r.d, h) => q = r
  BY <1>2, <1>3 DEF Active
<1>8. QED
  BY <1>3, <1>4, <1>5, <1>6, <1>7

TypeFor(q, h) == q.SeqParSet[q.PicParSet[h.pps].sps].pic_order_cnt_type

(* A slice that differs from the one before opens a picture, if there is   *)
(* no gap; one that does not goes on with the picture it finds.            *)
LEMMA StartedSlice ==
    ASSUME NEW r \in Steps, NEW h \in SliceHeaders, SizesOf(r.d)
    PROVE  LET p == StartSlice(r, h)
           IN  /\ p \in Steps /\ Active(p.d, h) /\ SizesOf(p.d) /\ p.d.img = h
               /\ p.d.PicParSet = r.d.PicParSet /\ p.d.SeqParSet = r.d.SeqParSet /\ p.d.old_slice = r.d.old_slice
               /\ p.d.partitions = r.d.partitions /\ p.d.ended = r.d.ended
               /\ r.d.stopped => p.d.stopped
               /\ IF Differ(r.d.old_slice, h, TypeFor(r.d, h))
                  THEN /\ p.stored = Closed(r)
                       /\ IF p.d.stopped /\ ~r.d.stopped THEN p.d.dec_picture = NULL
                          ELSE p.d.stopped \/ p.d.dec_picture = [opened_by |-> h, slices |-> {}]
                  ELSE /\ p.d.stopped = r.d.stopped
                       /\ Active(r.d, h) => p.d.dec_picture = r.d.dec_picture /\ p.stored = r.stored
<1> DEFINE q == UseParameterSet(r, h.pps)
           e == exit_picture(q)
           i == init_picture(q, h)
           p == StartSlice(r, h)
<1>1. q \in Steps /\ SameRest(q.d, r.d) /\ Active(q.d, h) /\ SizesOf(q.d) /\ MayClose(q, r) /\ (Active(r.d, h) => q = r)
  BY UsedSets
<1>2. e \in Steps /\ SameRest(e.d, q.d) /\ SameActive(e.d, q.d) /\ e.d.dec_picture = NULL /\ e.stored = Closed(q)
  BY <1>1, ExitPicture
<1>3. p = [(IF is_new_picture(q.d, h) THEN i ELSE q) EXCEPT !.d.img = h]
  BY DEF StartSlice
<1>4. is_new_picture(q.d, h) <=> Differ(r.d.old_slice, h, TypeFor(r.d, h))
  BY <1>1 DEF is_new_picture, Differ, TypeFor, SameRest, Active
<1>5. Closed(q) = Closed(r)
  BY <1>1 DEF MayClose, Closed
<1>6. /\ e.d \in Decoders /\ e.stored \in Seq(Pictures) /\ q.d \in Decoders /\ q.stored \in Seq(Pictures)
      /\ h.frame_num \in Nat /\ [opened_by |-> h, slices |-> {}] \in Pictures
  BY <1>1, <1>2 DEF Steps, SliceHeaders, Pictures
<1>7. i = IF h.frame_num \notin {IF h.idr THEN h.frame_num ELSE e.d.pre_frame_num,
                                 ((IF h.idr THEN h.frame_num ELSE e.d.pre_frame_num) + 1) % FrameNums}
          THEN [e EXCEPT !.d.stopped = TRUE]
          ELSE [e EXCEPT !.d.pre_frame_num = h.frame_num, !.d.dec_picture = [opened_by |-> h, slices |-> {}]]
  BY DEF init_picture
<1> HIDE DEF q, e, i, p
<1>8. CASE is_new_picture(q.d, h) /\ i = [e EXCEPT !.d.stopped = TRUE]
  <2>1. p = [d |-> [e.d EXCEPT !.stopped = TRUE, !.img = h], stored |-> e.stored]
    BY <1>2, <1>3, <1>6, <1>8 DEF Steps, Decoders
  <2>2. p \in Steps
    BY <1>6, <2>1 DEF Steps, Decoders
  <2>3. /\ Active(p.d, h) /\ SizesOf(p.d) /\ p.d.img = h /\ p.d.PicParSet = r.d.PicParSet
        /\ p.d.SeqParSet = r.d.SeqParSet /\ p.d.old_slice = r.d.old_slice
        /\ p.d.partitions = r.d.partitions /\ p.d.ended = r.d.ended
        /\ p.d.stopped = TRUE /\ p.d.dec_picture = NULL /\ p.stored = Closed(r)
    BY <1>1, <1>2, <1>5, <1>6, <2>1 DEF Decoders, Active, SizesOf, SameRest, SameActive
  <2>4. QED
    BY <1>4, <1>8, <2>2, <2>3 DEF p
<1>9. CASE is_new_picture(q.d, h) /\ i = [e EXCEPT !.d.pre_frame_num = h.frame_num,
                                                   !.d.dec_picture = [opened_by |-> h, slices |-> {}]]
  <2>1. p = [d |-> [e.d EXCEPT !.pre_frame_num = h.frame_num, !.dec_picture = [opened_by |-> h, slices |-> {}],
                               !.img = h], stored |-> e.stored]
    BY <1>2, <1>3, <1>6, <1>9 DEF Steps, Decoders
  <2>2. p \in Steps
    BY ZenonT(60), <1>6, <2>1 DEF Steps, Decoders
  <2>3. /\ Active(p.d, h) /\ SizesOf(p.d) /\ p.d.img = h /\ p.d.PicParSet = r.d.PicParSet
        /\ p.d.SeqParSet = r.d.SeqParSet /\ p.d.old_slice = r.d.old_slice
        /\ p.d.partitions = r.d.partitions /\ p.d.ended = r.d.ended
        /\ p.d.stopped = r.d.stopped /\ p.d.dec_picture = [opened_by |-> h, slices |-> {}] /\ p.stored = Closed(r)
    BY <1>1, <1>2, <1>5, <1>6, <2>1, ZenonT(60) DEF Decoders, Active, SizesOf, SameRest, SameActive
  <2>4. QED
    BY <1>4, <1>9, <2>2, <2>3 DEF p
<1>10. CASE ~is_new_picture(q.d, h)
  <2>1. p = [d |-> [q.d EXCEPT !.img = h], stored |-> q.stored]
    BY <1>1, <1>3, <1>6, <1>10 DEF Steps, Decoders
  <2>2. p \in Steps
    BY <1>6, <2>1 DEF Steps, Decoders
  <2>3. /\ Active(p.d, h) /\ SizesOf(p.d) /\ p.d.img = h /\ p.d.PicParSet = r.d.PicParSet
        /\ p.d.SeqParSet = r.d.SeqParSet /\ p.d.old_slice = r.d.old_slice
        /\ p.d.partitions = r.d.partitions /\ p.d.ended = r.d.ended
        /\ p.d.stopped = r.d.stopped
        /\ Active(r.d, h) => p.d.dec_picture = r.d.dec_picture /\ p.stored = r.stored
    BY <1>1, <1>2, <1>5, <1>6, <2>1 DEF Decoders, Active, SizesOf, SameRest, SameActive
  <2>4. QED
    BY <1>4, <1>10, <2>2, <2>3 DEF p
<1>11. QED
  BY <1>7, <1>8, <1>9, <1>10

(* What exit_slice makes of old_slice.                                     *)
Exited(h, old, type) ==
    [h EXCEPT !.bottom = IF h.field THEN @ ELSE old.bottom,
              !.idr_pic_id = IF h.idr THEN @ ELSE old.idr_pic_id,
              !.pic_order_cnt_lsb = IF type = 0 THEN @ ELSE old.pic_order_cnt_lsb,
              !.delta_pic_order_cnt = IF type = 1 THEN @ ELSE old.delta_pic_order_cnt]

LEMMA ExitedIs ==
    ASSUME NEW h \in SliceHeaders, NEW old \in OldSlices, NEW type
    PROVE  LET q == Exited(h, old, type)
           IN  /\ q \in OldSlices
               /\ q.n = h.n /\ SamePicture(q, h) /\ SameCounts(q, h, type)
               /\ q.idr_pic_id \in {h.idr_pic_id, old.idr_pic_id}
               /\ q.pic_order_cnt_lsb \in {h.pic_order_cnt_lsb, old.pic_order_cnt_lsb}
               /\ q.delta_pic_order_cnt \in {h.delta_pic_order_cnt, old.delta_pic_order_cnt}
<1> DEFINE Wide == [n : Nat, slice : Nat, pps : Ids, frame_num : Nat, field : BOOLEAN, bottom : BOOLEAN,
                    nal_ref_idc : 0..1, idr : BOOLEAN, idr_pic_id : Nat, pic_order_cnt_lsb : Int,
                    delta_pic_order_cnt : Int]
           bottom == IF h.field THEN h.bottom ELSE old.bottom
           id == IF h.idr THEN h.idr_pic_id ELSE old.idr_pic_id
           lsb == IF type = 0 THEN h.pic_order_cnt_lsb ELSE old.pic_order_cnt_lsb
           delta == IF type = 1 THEN h.delta_pic_order_cnt ELSE old.delta_pic_order_cnt
<1>1. h \in Wide
  BY DEF SliceHeaders
<1>2. bottom \in BOOLEAN /\ id \in Nat /\ lsb \in Int /\ delta \in Int
  <2>1. h.bottom \in BOOLEAN /\ h.idr_pic_id \in Nat /\ h.pic_order_cnt_lsb \in Int /\ h.delta_pic_order_cnt \in Int
    BY DEF SliceHeaders
  <2>2. /\ old.bottom \in BOOLEAN /\ old.idr_pic_id \in Nat /\ old.pic_order_cnt_lsb \in Int
        /\ old.delta_pic_order_cnt \in Int
    BY DEF OldSlices
  <2>3. QED
    BY <2>1, <2>2
<1>3. Exited(h, old, type)
          = [h EXCEPT !.bottom = bottom, !.idr_pic_id = id, !.pic_order_cnt_lsb = lsb, !.delta_pic_order_cnt = delta]
  BY DEF Exited
<1>4. Exited(h, old, type) \in Wide
  <2> HIDE DEF bottom, id, lsb, delta
  <2> QED
    BY <1>1, <1>2, <1>3
<1>5. Wide \subseteq OldSlices
  BY DEF OldSlices
<1>6. /\ Exited(h, old, type).n = h.n /\ SamePicture(Exited(h, old, type), h) /\ SameCounts(Exited(h, old, type), h, type)
      /\ Exited(h, old, type).idr_pic_id \in {h.idr_pic_id, old.idr_pic_id}
      /\ Exited(h, old, type).pic_order_cnt_lsb \in {h.pic_order_cnt_lsb, old.pic_order_cnt_lsb}
      /\ Exited(h, old, type).delta_pic_order_cnt \in {h.delta_pic_order_cnt, old.delta_pic_order_cnt}
  BY <1>1, <1>3 DEF SamePicture, SameCounts
<1>7. QED
  BY <1>4, <1>5, <1>6

LEMMA WithSlice ==
    ASSUME NEW pic \in Pictures, NEW x \in Nat \X Nat
    PROVE  LET q == [pic EXCEPT !.slices = @ \cup {x}]
           IN  q \in Pictures /\ q.opened_by = pic.opened_by /\ q.slices = pic.slices \cup {x}
  BY DEF Pictures

(* decode_slice puts the slice in the open picture and keeps its header.   *)
LEMMA DecodedSlice ==
    ASSUME NEW r \in Steps, r.d.dec_picture # NULL
    PROVE  LET p == decode_slice(r)
               h == r.d.img
               type == r.d.SeqParSet[r.d.active_sps].pic_order_cnt_type
           IN  /\ p \in Steps /\ p.stored = r.stored /\ SameActive(p.d, r.d) /\ p.d.partitions = r.d.partitions
               /\ p.d.PicParSet = r.d.PicParSet /\ p.d.SeqParSet = r.d.SeqParSet
               /\ p.d.stopped = r.d.stopped /\ p.d.ended = r.d.ended /\ p.d.img = h
               /\ p.d.dec_picture \in Pictures
               /\ p.d.dec_picture.opened_by = r.d.dec_picture.opened_by
               /\ p.d.dec_picture.slices = r.d.dec_picture.slices \cup {Name(h)}
               /\ p.d.old_slice = Exited(h, r.d.old_slice, type)
<1> DEFINE h == r.d.img
           type == r.d.SeqParSet[r.d.active_sps].pic_order_cnt_type
           q == Exited(h, r.d.old_slice, type)
           pic == [r.d.dec_picture EXCEPT !.slices = @ \cup {Name(h)}]
           p == decode_slice(r)
<1>1. /\ r.d \in Decoders /\ r.stored \in Seq(Pictures) /\ h \in SliceHeaders /\ r.d.old_slice \in OldSlices
      /\ r.d.dec_picture \in Pictures
  BY DEF Steps, Decoders
<1>2. q \in OldSlices
  BY <1>1, ExitedIs
<1>3. Name(h) \in Nat \X Nat
  BY <1>1 DEF Name, SliceHeaders
<1>4. /\ pic \in Pictures /\ pic.opened_by = r.d.dec_picture.opened_by
      /\ pic.slices = r.d.dec_picture.slices \cup {Name(h)}
  BY <1>1, <1>3, WithSlice
<1>5. p = [r EXCEPT !.d = [r.d EXCEPT !.old_slice = q, !.dec_picture = pic]]
  <2>1. exit_slice(r.d, h) = [r.d EXCEPT !.old_slice = q]
    BY DEF exit_slice, Exited
  <2>2. [r.d EXCEPT !.old_slice = q].dec_picture = r.d.dec_picture
    BY <1>1 DEF Decoders
  <2>3. p = [r EXCEPT !.d = [exit_slice(r.d, h) EXCEPT !.dec_picture.slices = exit_slice(r.d, h).dec_picture.slices
                                                                                \cup {Name(h)}]]
    BY DEF decode_slice
  <2>4. p = [r EXCEPT !.d = [exit_slice(r.d, h) EXCEPT !.dec_picture = pic]]
    BY <2>1, <2>2, <2>3
  <2> HIDE DEF p, q, pic
  <2>5. QED
    BY <2>1, <2>4
<1> HIDE DEF p, q, pic
<1>6. p \in Steps
  BY <1>1, <1>2, <1>4, <1>5 DEF Steps, Decoders
<1>7. /\ p.stored = r.stored /\ SameActive(p.d, r.d) /\ p.d.partitions = r.d.partitions
      /\ p.d.PicParSet = r.d.PicParSet /\ p.d.SeqParSet = r.d.SeqParSet
      /\ p.d.stopped = r.d.stopped /\ p.d.ended = r.d.ended /\ p.d.img = h
      /\ p.d.dec_picture = pic /\ p.d.old_slice = q
  BY <1>1, <1>5 DEF Steps, Decoders, SameActive
<1>8. QED
  BY <1>4, <1>6, <1>7 DEF p, q

(* A new SPS or PPS replaces the one with its id; if that is the active    *)
(* one and differs, the picture ends and none is active.                   *)
LEMMA ProcessedSps ==
    ASSUME NEW r \in Steps, NEW id \in Ids, NEW c \in SpsContents, SizesOf(r.d)
    PROVE  LET p == ProcessSPS(r, id, c)
           IN  /\ p \in Steps /\ SizesOf(p.d) /\ MayClose(p, r)
               /\ p.d.PicParSet = r.d.PicParSet /\ p.d.SeqParSet = [r.d.SeqParSet EXCEPT ![id] = c]
               /\ p.d.old_slice = r.d.old_slice /\ p.d.partitions = r.d.partitions
               /\ p.d.stopped = r.d.stopped /\ p.d.ended = r.d.ended
<1> DEFINE changed == r.d.active_sps = id /\ c # r.d.SeqParSet[id]
           q == IF changed THEN exit_picture(r) ELSE r
           p == ProcessSPS(r, id, c)
<1>1. q \in Steps /\ SameRest(q.d, r.d) /\ SameActive(q.d, r.d) /\ MayClose(q, r)
  BY ExitPicture DEF MayClose, SameRest, SameActive
<1>2. q.d \in Decoders /\ q.stored \in Seq(Pictures)
  BY <1>1 DEF Steps
<1>3. p = [q EXCEPT !.d.SeqParSet[id] = c, !.d.active_sps = IF changed THEN NULL ELSE @]
  BY DEF ProcessSPS
<1> HIDE DEF q, p
<1>4. p = [d |-> [q.d EXCEPT !.SeqParSet = [@ EXCEPT ![id] = c],
                             !.active_sps = IF changed THEN NULL ELSE q.d.active_sps], stored |-> q.stored]
  <2> HIDE DEF changed
  <2>1. QED
    BY <1>1, <1>3 DEF Steps, Decoders
<1>5. [q.d.SeqParSet EXCEPT ![id] = c] \in SeqParSets
  BY <1>2 DEF Decoders, SeqParSets
<1>6. (IF changed THEN NULL ELSE q.d.active_sps) \in Ids \cup {NULL}
  BY <1>2 DEF Decoders
<1>7. p \in Steps
  <2> DEFINE active == IF changed THEN NULL ELSE q.d.active_sps
             set == [q.d.SeqParSet EXCEPT ![id] = c]
  <2>1. p = [d |-> [q.d EXCEPT !.SeqParSet = set, !.active_sps = active], stored |-> q.stored]
    BY <1>4
  <2>2. active \in Ids \cup {NULL} /\ set \in SeqParSets
    BY <1>5, <1>6
  <2> HIDE DEF active, set
  <2>3. QED
    BY <1>2, <2>1, <2>2 DEF Steps, Decoders
<1>8. /\ p.d.PicParSet = r.d.PicParSet /\ p.d.SeqParSet = [r.d.SeqParSet EXCEPT ![id] = c]
      /\ p.d.old_slice = r.d.old_slice /\ p.d.partitions = r.d.partitions
      /\ p.d.stopped = r.d.stopped /\ p.d.ended = r.d.ended /\ p.d.img_sps = r.d.img_sps
      /\ p.d.active_sps = (IF changed THEN NULL ELSE r.d.active_sps)
      /\ p.d.dec_picture = q.d.dec_picture /\ p.stored = q.stored
  <2> HIDE DEF changed
  <2>1. QED
    BY <1>1, <1>2, <1>4 DEF Steps, Decoders, SameRest, SameActive
<1>9. SizesOf(p.d)
  BY <1>8 DEF SizesOf, Steps, Decoders, SeqParSets
<1>10. MayClose(p, r)
  BY <1>1, <1>8 DEF MayClose
<1>11. QED
  BY <1>7, <1>8, <1>9, <1>10 DEF p

LEMMA ProcessedPps ==
    ASSUME NEW r \in Steps, NEW id \in Ids, NEW c \in [sps : Ids, version : PpsVersions], SizesOf(r.d)
    PROVE  LET p == ProcessPPS(r, id, c)
           IN  /\ p \in Steps /\ SizesOf(p.d) /\ MayClose(p, r)
               /\ p.d.PicParSet = [r.d.PicParSet EXCEPT ![id] = c] /\ p.d.SeqParSet = r.d.SeqParSet
               /\ p.d.old_slice = r.d.old_slice /\ p.d.partitions = r.d.partitions
               /\ p.d.stopped = r.d.stopped /\ p.d.ended = r.d.ended
<1> DEFINE changed == r.d.active_pps = id /\ c # r.d.PicParSet[id]
           q == IF changed THEN exit_picture(r) ELSE r
           p == ProcessPPS(r, id, c)
<1>1. q \in Steps /\ SameRest(q.d, r.d) /\ SameActive(q.d, r.d) /\ MayClose(q, r)
  BY ExitPicture DEF MayClose, SameRest, SameActive
<1>2. q.d \in Decoders /\ q.stored \in Seq(Pictures)
  BY <1>1 DEF Steps
<1>3. p = [q EXCEPT !.d.PicParSet[id] = c, !.d.active_pps = IF changed THEN NULL ELSE @]
  BY DEF ProcessPPS
<1> HIDE DEF q, p
<1>4. p = [d |-> [q.d EXCEPT !.PicParSet = [@ EXCEPT ![id] = c],
                             !.active_pps = IF changed THEN NULL ELSE q.d.active_pps], stored |-> q.stored]
  <2> HIDE DEF changed
  <2>1. QED
    BY <1>1, <1>3 DEF Steps, Decoders
<1>5. [q.d.PicParSet EXCEPT ![id] = c] \in PicParSets
  BY <1>2 DEF Decoders, PicParSets
<1>6. (IF changed THEN NULL ELSE q.d.active_pps) \in Ids \cup {NULL}
  BY <1>2 DEF Decoders
<1>7. p \in Steps
  <2> DEFINE active == IF changed THEN NULL ELSE q.d.active_pps
             set == [q.d.PicParSet EXCEPT ![id] = c]
  <2>1. p = [d |-> [q.d EXCEPT !.PicParSet = set, !.active_pps = active], stored |-> q.stored]
    BY <1>4
  <2>2. active \in Ids \cup {NULL} /\ set \in PicParSets
    BY <1>5, <1>6
  <2> HIDE DEF active, set
  <2>3. QED
    BY <1>2, <2>1, <2>2 DEF Steps, Decoders
<1>8. /\ p.d.PicParSet = [r.d.PicParSet EXCEPT ![id] = c] /\ p.d.SeqParSet = r.d.SeqParSet
      /\ p.d.old_slice = r.d.old_slice /\ p.d.partitions = r.d.partitions
      /\ p.d.stopped = r.d.stopped /\ p.d.ended = r.d.ended /\ p.d.img_sps = r.d.img_sps
      /\ p.d.active_sps = r.d.active_sps
      /\ p.d.dec_picture = q.d.dec_picture /\ p.stored = q.stored
  <2> HIDE DEF changed
  <2>1. QED
    BY <1>1, <1>2, <1>4 DEF Steps, Decoders, SameRest, SameActive
<1>9. SizesOf(p.d)
  BY <1>8 DEF SizesOf
<1>10. MayClose(p, r)
  BY <1>1, <1>8 DEF MayClose
<1>11. QED
  BY <1>7, <1>8, <1>9, <1>10 DEF p

(***************************************************************************)
(* The pictures handed over.                                               *)
(***************************************************************************)
Newest(r) == \A i \in DOMAIN r.stored : r.stored[i].opened_by.n < r.d.dec_picture.opened_by.n

LEMMA InClosed ==
    ASSUME NEW r \in Steps
    PROVE  /\ Closed(r) \in Seq(Pictures)
           /\ \A x : In(x, r.d.dec_picture, r.stored) <=> \E i \in DOMAIN Closed(r) : x \in Closed(r)[i].slices
           /\ \A i \in DOMAIN Closed(r) : \/ i \in DOMAIN r.stored /\ Closed(r)[i] = r.stored[i]
                                          \/ r.d.dec_picture # NULL /\ Closed(r)[i] = r.d.dec_picture
           /\ Ascending(r.stored) /\ (r.d.dec_picture # NULL => Newest(r)) => Ascending(Closed(r))
<1>1. r.stored \in Seq(Pictures) /\ r.d.dec_picture \in Pictures \cup {NULL}
  BY DEF Steps, Decoders
<1>2. CASE r.d.dec_picture = NULL
  BY <1>1, <1>2 DEF Closed, In
<1>3. CASE r.d.dec_picture # NULL
  <2> DEFINE s == Closed(r)
             k == Len(r.stored)
  <2>1. s = Append(r.stored, r.d.dec_picture) /\ k \in Nat
    BY <1>1, <1>3 DEF Closed
  <2>2. /\ s \in Seq(Pictures) /\ Len(s) = k + 1 /\ s[k + 1] = r.d.dec_picture
        /\ \A i \in 1..k : s[i] = r.stored[i]
    BY <1>1, <1>3, <2>1
  <2>3. DOMAIN s = 1..k + 1 /\ DOMAIN r.stored = 1..k
    BY <1>1, <2>2
  <2> HIDE DEF s, k
  <2>4. \A x : In(x, r.d.dec_picture, r.stored) <=> \E i \in DOMAIN s : x \in s[i].slices
    <3>1. TAKE x
    <3>2. ASSUME In(x, r.d.dec_picture, r.stored) PROVE \E i \in DOMAIN s : x \in s[i].slices
      <4>1. CASE x \in r.d.dec_picture.slices
        BY <2>1, <2>2, <2>3, <4>1
      <4>2. CASE \E i \in DOMAIN r.stored : x \in r.stored[i].slices
        <5>1. PICK i \in 1..k : x \in r.stored[i].slices
          BY <2>3, <4>2
        <5>2. i \in 1..k + 1 /\ s[i] = r.stored[i]
          BY <2>1, <2>2
        <5>3. QED
          BY <2>3, <5>1, <5>2
      <4>3. QED
        BY <3>2, <4>1, <4>2 DEF In
    <3>3. ASSUME NEW i \in DOMAIN s, x \in s[i].slices PROVE In(x, r.d.dec_picture, r.stored)
      <4>1. i = k + 1 \/ i \in 1..k
        BY <2>1, <2>3
      <4>2. QED
        BY <1>3, <2>2, <2>3, <3>3, <4>1 DEF In
    <3>4. QED
      BY <3>2, <3>3
  <2>5. \A i \in DOMAIN s : \/ i \in DOMAIN r.stored /\ s[i] = r.stored[i]
                            \/ r.d.dec_picture # NULL /\ s[i] = r.d.dec_picture
    <3>1. TAKE i \in DOMAIN s
    <3>2. i = k + 1 \/ i \in 1..k
      BY <2>1, <2>3
    <3>3. QED
      BY <1>3, <2>2, <2>3, <3>2
  <2>6. ASSUME Ascending(r.stored), Newest(r) PROVE Ascending(s)
    <3>1. SUFFICES ASSUME NEW i \in 1..Len(s) - 1 PROVE s[i].opened_by.n < s[i + 1].opened_by.n
      BY DEF Ascending
    <3>2. i \in 1..k /\ s[i] = r.stored[i]
      BY <2>1, <2>2
    <3>3. CASE i = k
      BY <2>2, <2>3, <2>6, <3>2, <3>3 DEF Newest
    <3>4. CASE i < k
      <4>1. i + 1 \in 1..k /\ i \in 1..Len(r.stored) - 1
        BY <2>1, <3>2, <3>4 DEF k
      <4>2. QED
        BY <2>2, <2>6, <3>2, <4>1 DEF Ascending
    <3>5. QED
      BY <2>1, <3>2, <3>3, <3>4
  <2>7. QED
    BY <1>3, <2>2, <2>4, <2>5, <2>6 DEF s
<1>4. QED
  BY <1>2, <1>3

(***************************************************************************)
(* Types and parameter sets.                                               *)
(***************************************************************************)
LEMMA HereIs == ReaderTypeOK => Here \in Steps /\ Here.d = d /\ Here.stored = stored
  BY DEF ReaderTypeOK, Here, Steps

LEMMA TheSliceIs ==
    ReaderTypeOK =>
        /\ TheSlice \in SliceHeaders /\ TheSlice.slice = coded.slice + 1
        /\ TheSlice.n = coded.n /\ TheSlice.pps = coded.pps /\ TheSlice.frame_num = coded.frame_num
        /\ TheSlice.field = coded.field /\ TheSlice.bottom = coded.bottom
        /\ TheSlice.nal_ref_idc = coded.nal_ref_idc /\ TheSlice.idr = coded.idr
        /\ TheSlice.idr_pic_id = coded.idr_pic_id /\ TheSlice.pic_order_cnt_lsb = coded.pic_order_cnt_lsb
        /\ TheSlice.delta_pic_order_cnt = coded.delta_pic_order_cnt
<1> SUFFICES ASSUME ReaderTypeOK
             PROVE  /\ TheSlice \in SliceHeaders /\ TheSlice.slice = coded.slice + 1
                    /\ TheSlice.n = coded.n /\ TheSlice.pps = coded.pps /\ TheSlice.frame_num = coded.frame_num
                    /\ TheSlice.field = coded.field /\ TheSlice.bottom = coded.bottom
                    /\ TheSlice.nal_ref_idc = coded.nal_ref_idc /\ TheSlice.idr = coded.idr
                    /\ TheSlice.idr_pic_id = coded.idr_pic_id /\ TheSlice.pic_order_cnt_lsb = coded.pic_order_cnt_lsb
                    /\ TheSlice.delta_pic_order_cnt = coded.delta_pic_order_cnt
  OBVIOUS
<1>1. coded \in SliceHeaders /\ coded.slice + 1 \in Nat
  BY DEF ReaderTypeOK, SliceHeaders
<1>2. TheSlice = [coded EXCEPT !.slice = coded.slice + 1]
  BY DEF TheSlice
<1> HIDE DEF TheSlice
<1>3. TheSlice \in SliceHeaders
  BY <1>1, <1>2 DEF SliceHeaders
<1>4. QED
  BY <1>1, <1>2, <1>3 DEF SliceHeaders

LEMMA WithPartition ==
    ASSUME ReaderTypeOK, NEW k \in 1..3, NEW x \in Nat \X Nat
    PROVE  LET r == [Here EXCEPT !.d.partitions[k] = x]
           IN  /\ r \in Steps /\ SameActive(r.d, d) /\ r.stored = stored
               /\ r.d = [d EXCEPT !.partitions[k] = x]
               /\ r.d.PicParSet = d.PicParSet /\ r.d.SeqParSet = d.SeqParSet /\ r.d.old_slice = d.old_slice
               /\ r.d.partitions = [d.partitions EXCEPT ![k] = x] /\ r.d.img = d.img
               /\ r.d.stopped = d.stopped /\ r.d.ended = d.ended /\ r.d.dec_picture = d.dec_picture
<1> DEFINE ps == [d.partitions EXCEPT ![k] = x]
           e == [d EXCEPT !.partitions = ps]
           r == [Here EXCEPT !.d.partitions[k] = x]
<1>1. d \in Decoders /\ stored \in Seq(Pictures)
  BY DEF ReaderTypeOK
<1>2. d.partitions \in Partitions
  BY <1>1 DEF Decoders
<1>3. ps \in Partitions
  BY <1>2 DEF Partitions
<1>4. r = [d |-> e, stored |-> stored] /\ e = [d EXCEPT !.partitions[k] = x]
  BY DEF Here
<1> HIDE DEF ps, r
<1>5. e \in Decoders
  BY <1>1, <1>3 DEF Decoders
<1>6. r \in Steps
  BY <1>1, <1>4, <1>5 DEF Steps
<1>7. /\ SameActive(e, d) /\ e.PicParSet = d.PicParSet /\ e.SeqParSet = d.SeqParSet /\ e.old_slice = d.old_slice
      /\ e.partitions = ps /\ e.img = d.img
      /\ e.stopped = d.stopped /\ e.ended = d.ended /\ e.dec_picture = d.dec_picture
  BY <1>1 DEF SameActive, Decoders
<1>8. QED
  BY <1>4, <1>6, <1>7 DEF ps, r

Started == StartSlice([Here EXCEPT !.d.partitions[1] = Name(TheSlice)], TheSlice)

(* The next slice, whole or its partition A, reaches the decoder.          *)
LEMMA SliceStarts ==
    ASSUME ReaderTypeOK, SetsKept
    PROVE  LET r == Started
           IN  /\ r \in Steps /\ Active(r.d, TheSlice) /\ SizesOf(r.d) /\ r.d.img = TheSlice
               /\ r.d.PicParSet = sets.pps /\ r.d.SeqParSet = sets.sps /\ r.d.old_slice = d.old_slice
               /\ r.d.partitions = [d.partitions EXCEPT ![1] = Name(TheSlice)] /\ r.d.ended = d.ended
               /\ d.stopped => r.d.stopped
               /\ IF Differ(d.old_slice, coded, TypeSent)
                  THEN /\ r.stored = Closed(Here)
                       /\ IF r.d.stopped /\ ~d.stopped THEN r.d.dec_picture = NULL
                          ELSE r.d.stopped \/ r.d.dec_picture = [opened_by |-> TheSlice, slices |-> {}]
                  ELSE /\ r.d.stopped = d.stopped
                       /\ Active(d, coded) => r.d.dec_picture = d.dec_picture /\ r.stored = stored
<1> DEFINE q == [Here EXCEPT !.d.partitions[1] = Name(TheSlice)]
<1>1. TheSlice \in SliceHeaders /\ Name(TheSlice) \in Nat \X Nat
  BY TheSliceIs DEF Name, SliceHeaders
<1>2. /\ q \in Steps /\ SameActive(q.d, d) /\ q.stored = stored
      /\ q.d.PicParSet = d.PicParSet /\ q.d.SeqParSet = d.SeqParSet /\ q.d.old_slice = d.old_slice
      /\ q.d.partitions = [d.partitions EXCEPT ![1] = Name(TheSlice)]
      /\ q.d.stopped = d.stopped /\ q.d.ended = d.ended /\ q.d.dec_picture = d.dec_picture
  <2>1. ReaderTypeOK /\ 1 \in 1..3
    OBVIOUS
  <2>2. QED
    BY <1>1, <2>1, WithPartition
<1>3. SizesOf(q.d)
  BY <1>2 DEF SetsKept, SizesOf, SameActive
<1>4. Closed(q) = Closed(Here)
  BY <1>2, HereIs DEF Closed
<1>5. Started = StartSlice(q, TheSlice)
  BY DEF Started
<1>6. Differ(q.d.old_slice, TheSlice, TypeFor(q.d, TheSlice)) <=> Differ(d.old_slice, coded, TypeSent)
  <2>1. TypeFor(q.d, TheSlice) = TypeSent
    BY <1>2, TheSliceIs, SMTT(60) DEF SetsKept, TypeFor, TypeSent, SentSets
  <2> DEFINE type == TypeSent
  <2> HIDE DEF type
  <2>2. Differ(d.old_slice, TheSlice, type) <=> Differ(d.old_slice, coded, type)
    BY TheSliceIs DEF Differ
  <2>3. QED
    BY <1>2, <2>1, <2>2 DEF type
<1>7. Active(q.d, TheSlice) <=> Active(d, coded)
  BY <1>2, TheSliceIs DEF Active, SameActive
<1> HIDE DEF q
<1>8. QED
  BY <1>1, <1>2, <1>3, <1>4, <1>5, <1>6, <1>7, StartedSlice DEF SetsKept

(* A slice is decoded into the open picture.                               *)
LEMMA SliceDecoded ==
    ASSUME ReaderTypeOK, NEW ps, NEW r \in Steps, Decode(r, ps), r.d.dec_picture # NULL,
           Active(r.d, r.d.img), SizesOf(r.d), r.d.PicParSet = sets.pps, r.d.SeqParSet = sets.sps
    PROVE  /\ d' \in Decoders /\ stored' = r.stored /\ stored' \in Seq(Pictures)
           /\ d'.PicParSet = sets.pps /\ d'.SeqParSet = sets.sps
           /\ SizesOf(d') /\ Active(d', r.d.img) /\ d'.img = r.d.img /\ d'.partitions = r.d.partitions
           /\ d'.stopped = r.d.stopped /\ d'.ended = r.d.ended
           /\ d'.dec_picture \in Pictures /\ d'.dec_picture.opened_by = r.d.dec_picture.opened_by
           /\ d'.dec_picture.slices = r.d.dec_picture.slices \cup {Name(r.d.img)}
           /\ d'.old_slice = Exited(r.d.img, r.d.old_slice, SentSets(sets, r.d.img).sps.pic_order_cnt_type)
           /\ decoded'.slices = decoded.slices \cup {Name(r.d.img)} /\ decoded'.slices \subseteq Nat \X Nat
           /\ decoded'.last.slice = Name(r.d.img) /\ decoded'.last.opened_by = r.d.dec_picture.opened_by
           /\ decoded'.last.partitions = Restrict(r.d.partitions, ps)
           /\ decoded'.last.used = SentSets(sets, r.d.img) /\ decoded'.last.sent = SentSets(sets, r.d.img)
           /\ decoded'.last.img_sps = SentSets(sets, r.d.img).sps
<1> DEFINE p == decode_slice(r)
           h == r.d.img
<1>1. /\ p \in Steps /\ p.stored = r.stored /\ SameActive(p.d, r.d) /\ p.d.partitions = r.d.partitions
      /\ p.d.PicParSet = r.d.PicParSet /\ p.d.SeqParSet = r.d.SeqParSet
      /\ p.d.stopped = r.d.stopped /\ p.d.ended = r.d.ended /\ p.d.img = h
      /\ p.d.dec_picture \in Pictures /\ p.d.dec_picture.opened_by = r.d.dec_picture.opened_by
      /\ p.d.dec_picture.slices = r.d.dec_picture.slices \cup {Name(h)}
      /\ p.d.old_slice = Exited(h, r.d.old_slice, r.d.SeqParSet[r.d.active_sps].pic_order_cnt_type)
  BY DecodedSlice
<1>2. d' = p.d /\ stored' = p.stored
  BY DEF Decode, Becomes
<1> HIDE DEF p
<1>3. h \in SliceHeaders /\ Name(h) \in Nat \X Nat
  BY DEF Steps, Decoders, Name, SliceHeaders
<1>4. SentSets(sets, h) = [pps |-> r.d.PicParSet[r.d.active_pps], sps |-> r.d.SeqParSet[r.d.active_sps]]
  BY DEF SentSets, Active
<1>5. /\ decoded'.slices = decoded.slices \cup {Name(h)}
      /\ decoded'.last.slice = Name(h) /\ decoded'.last.opened_by = r.d.dec_picture.opened_by
      /\ decoded'.last.partitions = Restrict(r.d.partitions, ps)
      /\ decoded'.last.used = SentSets(sets, h) /\ decoded'.last.sent = SentSets(sets, h)
      /\ decoded'.last.img_sps = r.d.img_sps
  BY <1>4 DEF Decode
<1>6. r.d.img_sps = SentSets(sets, h).sps
  <2>1. h.pps \in Ids /\ r.d.active_sps \in Ids
    BY <1>3 DEF Active, Steps, Decoders, PicParSets, SliceHeaders
  <2>2. QED
    BY <1>4, <2>1, IdsAssumption DEF SizesOf
<1>7. decoded'.slices \subseteq Nat \X Nat
  BY <1>3, <1>5 DEF ReaderTypeOK
<1>8. d' \in Decoders /\ stored' \in Seq(Pictures) /\ stored' = r.stored
  BY <1>1, <1>2 DEF Steps
<1>9. SizesOf(d') /\ Active(d', h)
  BY <1>1, <1>2 DEF SizesOf, Active, SameActive
<1>10. d'.old_slice = Exited(h, r.d.old_slice, SentSets(sets, h).sps.pic_order_cnt_type)
  BY <1>1, <1>2, <1>4
<1>11. QED
  BY <1>1, <1>2, <1>5, <1>6, <1>7, <1>8, <1>9, <1>10

(***************************************************************************)
(* One slice.                                                              *)
(***************************************************************************)
(* r is the decoder with the picture of h open, and everything decoded so  *)
(* far in it or in older pictures.                                         *)
OpenFor(r, h) ==
    /\ r.d.dec_picture \in Pictures /\ r.d.dec_picture.opened_by.n = h.n
    /\ \A i \in DOMAIN r.stored : r.stored[i].opened_by.n < h.n
    /\ Ascending(r.stored)
    /\ \A x : x \in decoded.slices <=> In(x, r.d.dec_picture, r.stored)

LEMMA OldIsThere ==
    ASSUME ReaderTypeOK, SetsKept, PicturesOK, Running
    PROVE  /\ d.old_slice \in OldSlices /\ d.old_slice.n \in Nat /\ d.old_slice.n <= coded.n /\ coded.n \in Nat
           /\ stored \in Seq(Pictures) /\ d.dec_picture \in Pictures \cup {NULL}
           /\ \A i \in DOMAIN stored : stored[i].opened_by.n \in Nat
           /\ d.dec_picture # NULL => d.dec_picture.opened_by.n \in Nat
<1>1. coded.n \in Nat
  BY DEF ReaderTypeOK, SliceHeaders
<1>2. d \in Decoders /\ stored \in Seq(Pictures)
  BY DEF ReaderTypeOK
<1>3. d.old_slice \in OldSlices /\ d.dec_picture \in Pictures \cup {NULL}
  BY <1>2 DEF Decoders
<1>4. d.old_slice.n \in Nat /\ d.old_slice.n <= coded.n
  BY <1>3 DEF OldSlices, PicturesOK, OldSliceOK
<1>5. \A p \in Pictures : p.opened_by.n \in Nat
  BY DEF Pictures, SliceHeaders
<1>6. QED
  BY <1>1, <1>2, <1>3, <1>4, <1>5

(* A slice that comes in is of the picture that was open, or opens one,    *)
(* unless there is a gap.                                                  *)
LEMMA SliceFindsPicture ==
    ASSUME ReaderTypeOK, SetsKept, PicturesOK, Running, left > 0, part = 0
    PROVE  /\ ~Started.d.stopped => OpenFor(Started, TheSlice)
           /\ Ascending(Started.stored) /\ Started.stored \in Seq(Pictures)
           /\ \A i \in DOMAIN Started.stored : Started.stored[i].opened_by.n <= d.old_slice.n
<1> DEFINE r == Started
           old == d.old_slice
<1>1. /\ r \in Steps /\ Active(r.d, TheSlice) /\ SizesOf(r.d) /\ r.d.img = TheSlice
      /\ IF Differ(old, coded, TypeSent)
         THEN /\ r.stored = Closed(Here)
              /\ IF r.d.stopped /\ ~d.stopped THEN r.d.dec_picture = NULL
                 ELSE r.d.stopped \/ r.d.dec_picture = [opened_by |-> TheSlice, slices |-> {}]
         ELSE /\ r.d.stopped = d.stopped
              /\ Active(d, coded) => r.d.dec_picture = d.dec_picture /\ r.stored = stored
  BY SliceStarts
<1>2. /\ old \in OldSlices /\ old.n \in Nat /\ old.n <= coded.n /\ coded.n \in Nat
      /\ stored \in Seq(Pictures) /\ d.dec_picture \in Pictures \cup {NULL}
      /\ \A i \in DOMAIN stored : stored[i].opened_by.n \in Nat
      /\ d.dec_picture # NULL => d.dec_picture.opened_by.n \in Nat
  BY OldIsThere
<1>3. TheSlice.n = coded.n /\ TheSlice \in SliceHeaders
  BY TheSliceIs
<1>4. /\ d.dec_picture # NULL => d.dec_picture.opened_by.n = old.n
      /\ left > 0 /\ old.n = coded.n => d.dec_picture # NULL /\ Active(d, coded)
      /\ \A i \in DOMAIN stored : /\ stored[i].opened_by.n <= old.n
                                  /\ d.dec_picture # NULL => stored[i].opened_by.n < d.dec_picture.opened_by.n
  BY DEF PicturesOK, OpenOK
<1>5. Ascending(stored) /\ \A x : x \in decoded.slices <=> In(x, d.dec_picture, stored)
  BY DEF PicturesOK, Kept, Running
<1>6. /\ Closed(Here) \in Seq(Pictures)
      /\ \A x : In(x, d.dec_picture, stored) <=> \E i \in DOMAIN Closed(Here) : x \in Closed(Here)[i].slices
      /\ \A i \in DOMAIN Closed(Here) : \/ i \in DOMAIN stored /\ Closed(Here)[i] = stored[i]
                                        \/ d.dec_picture # NULL /\ Closed(Here)[i] = d.dec_picture
      /\ Ascending(stored) /\ (d.dec_picture # NULL => Newest(Here)) => Ascending(Closed(Here))
  BY HereIs, InClosed
<1>7. d.dec_picture # NULL => Newest(Here)
  BY <1>4, HereIs DEF Newest
<1> HIDE DEF r
<1>8. CASE old.n # coded.n
  <2>1. Differ(old, coded, TypeSent)
    BY <1>8 DEF PicturesOK, OldSliceOK
  <2>2. r.stored = Closed(Here)
    BY <1>1, <2>1
  <2>3. \A i \in DOMAIN r.stored : r.stored[i].opened_by.n <= old.n /\ r.stored[i].opened_by.n < coded.n
    BY <1>2, <1>4, <1>6, <1>8, <2>2, SMTT(30)
  <2>4. ASSUME ~r.d.stopped PROVE OpenFor(r, TheSlice)
    <3>1. r.d.dec_picture = [opened_by |-> TheSlice, slices |-> {}]
      BY <1>1, <2>1, <2>4
    <3>2. r.d.dec_picture \in Pictures /\ r.d.dec_picture.opened_by.n = TheSlice.n /\ r.d.dec_picture.slices = {}
      BY <1>3, <3>1 DEF Pictures
    <3>3. \A x : x \in decoded.slices <=> In(x, r.d.dec_picture, r.stored)
      BY <1>5, <1>6, <2>2, <3>2 DEF In
    <3>4. QED
      BY <1>3, <1>5, <1>6, <1>7, <2>2, <2>3, <3>2, <3>3 DEF OpenFor
  <2>5. QED
    BY <1>5, <1>6, <1>7, <2>2, <2>3, <2>4 DEF r
<1>9. CASE old.n = coded.n
  <2>1. coded.n > 0
    BY <1>2 DEF PicturesOK, CodedOK
  <2>2. SamePicture(old, coded) /\ SameCounts(old, coded, TypeSent)
    BY <1>9, <2>1 DEF PicturesOK, OldSliceOK
  <2>3. ~Differ(old, coded, TypeSent)
    BY <2>2 DEF Differ, SamePicture, SameCounts
  <2>4. r.d.dec_picture = d.dec_picture /\ r.stored = stored /\ d.dec_picture \in Pictures
    BY <1>1, <1>2, <1>4, <1>9, <2>3
  <2>5. \A i \in DOMAIN r.stored : r.stored[i].opened_by.n <= old.n /\ r.stored[i].opened_by.n < coded.n
    BY <1>2, <1>4, <1>9, <2>4
  <2>6. OpenFor(r, TheSlice)
    BY <1>2, <1>3, <1>4, <1>5, <1>9, <2>4, <2>5 DEF OpenFor
  <2>7. QED
    BY <1>2, <1>5, <2>4, <2>5, <2>6 DEF r
<1>10. QED
  BY <1>8, <1>9

(* The slice's header becomes old_slice, and the slice is in its picture.  *)
LEMMA DecodedInPicture ==
    ASSUME ReaderTypeOK, SetsKept, PicturesOK, Running, NEW r \in Steps, NEW ps, Decode(r, ps),
           OpenFor(r, r.d.img), r.d.img = coded', coded' \in SliceHeaders, coded'.n = coded.n, coded.n > 0, CodedOK',
           Active(r.d, r.d.img), SizesOf(r.d), r.d.PicParSet = sets.pps, r.d.SeqParSet = sets.sps,
           r.d.old_slice = d.old_slice, ~r.d.stopped, r.d.ended = FALSE, sets' = sets, part' = 0,
           sends' = sends
    PROVE  /\ d' \in Decoders /\ stored' \in Seq(Pictures) /\ decoded'.slices \subseteq Nat \X Nat
           /\ SetsKept' /\ PicturesOK'
           /\ decoded'.last.slice = Name(coded') /\ decoded'.last.partitions = Restrict(r.d.partitions, ps)
<1> DEFINE h == r.d.img
           type == SentSets(sets, h).sps.pic_order_cnt_type
           old == d.old_slice
<1>1. r.d.dec_picture \in Pictures /\ r.d.dec_picture # NULL
  BY PicturesAssumption DEF OpenFor
<1>2. /\ d' \in Decoders /\ stored' = r.stored /\ stored' \in Seq(Pictures)
      /\ d'.PicParSet = sets.pps /\ d'.SeqParSet = sets.sps
      /\ SizesOf(d') /\ Active(d', h) /\ d'.img = h /\ d'.partitions = r.d.partitions
      /\ d'.stopped = r.d.stopped /\ d'.ended = r.d.ended
      /\ d'.dec_picture \in Pictures /\ d'.dec_picture.opened_by = r.d.dec_picture.opened_by
      /\ d'.dec_picture.slices = r.d.dec_picture.slices \cup {Name(h)}
      /\ d'.old_slice = Exited(h, old, type)
      /\ decoded'.slices = decoded.slices \cup {Name(h)} /\ decoded'.slices \subseteq Nat \X Nat
      /\ decoded'.last.slice = Name(h) /\ decoded'.last.opened_by = r.d.dec_picture.opened_by
      /\ decoded'.last.partitions = Restrict(r.d.partitions, ps)
      /\ decoded'.last.used = SentSets(sets, h) /\ decoded'.last.sent = SentSets(sets, h)
      /\ decoded'.last.img_sps = SentSets(sets, h).sps
  BY <1>1, SliceDecoded
<1>3. SetsKept'
  BY <1>2 DEF SetsKept, SetsAreThoseSent, Running
<1>4. /\ old \in OldSlices /\ old.n \in Nat /\ old.n <= coded.n /\ coded.n \in Nat
  BY OldIsThere
<1>5. /\ d'.old_slice.n = h.n /\ SamePicture(d'.old_slice, h) /\ SameCounts(d'.old_slice, h, type)
      /\ d'.old_slice.idr_pic_id \in {h.idr_pic_id, old.idr_pic_id}
      /\ d'.old_slice.pic_order_cnt_lsb \in {h.pic_order_cnt_lsb, old.pic_order_cnt_lsb}
      /\ d'.old_slice.delta_pic_order_cnt \in {h.delta_pic_order_cnt, old.delta_pic_order_cnt}
  BY <1>2, <1>4, ExitedIs
<1>6. d'.old_slice.n = coded'.n /\ coded'.n \in Nat /\ coded'.n > 0
  BY <1>4, <1>5
<1>7. KeptIsOlder(d'.old_slice)
  <2>1. KeptIsOlder(old) /\ KeptIsOlder(h)
    BY DEF PicturesOK, OldSliceOK, CodedOK
  <2>2. /\ h.idr_pic_id \in Int /\ h.pic_order_cnt_lsb \in Int /\ h.delta_pic_order_cnt \in Int /\ h.n \in Int
        /\ old.idr_pic_id \in Int /\ old.pic_order_cnt_lsb \in Int /\ old.delta_pic_order_cnt \in Int /\ old.n \in Int
    BY <1>4 DEF SliceHeaders, OldSlices
  <2>3. QED
    BY <1>4, <1>5, <2>1, <2>2 DEF KeptIsOlder
<1>8. TypeSent' = type
  BY DEF TypeSent, SentSets
<1>9. OldSliceOK'
  BY <1>5, <1>6, <1>7, <1>8 DEF OldSliceOK
<1>10. LossesOK'
  BY <1>6 DEF LossesOK, PicturesOK
<1>11. d'.dec_picture # NULL
  BY <1>2, PicturesAssumption
<1>12. OpenOK'
  <2>1. d'.dec_picture.opened_by.n = d'.old_slice.n
    BY <1>2, <1>5 DEF OpenFor
  <2>2. \A i \in DOMAIN stored' : stored'[i].opened_by.n < d'.old_slice.n /\ stored'[i].opened_by.n \in Nat
    <3>1. TAKE i \in DOMAIN stored'
    <3>2. stored'[i] \in Pictures /\ stored'[i].opened_by.n < h.n
      BY <1>2 DEF OpenFor
    <3>3. QED
      BY <1>5, <3>2 DEF Pictures, SliceHeaders
  <2>3. Active(d', coded')
    BY <1>2
  <2>4. QED
    BY <1>6, <1>11, <2>1, <2>2, <2>3 DEF OpenOK
<1>13. Kept'
  BY <1>1, <1>2, <1>11 DEF Kept, OpenFor, In
<1>14. decoded'.last.opened_by.n = decoded'.last.slice[1]
  BY <1>2 DEF OpenFor, Name
<1>15. PicturesOK'
  BY <1>2, <1>9, <1>10, <1>12, <1>13, <1>14 DEF PicturesOK, OpenFor, Ascending
<1>16. QED
  BY <1>2, <1>3, <1>15

(***************************************************************************)
(* The steps.                                                              *)
(***************************************************************************)
LEMMA NextSliceCoded ==
    ASSUME ReaderTypeOK, CodedOK, left > 0, coded' = TheSlice, left' = left - 1,
           sends'.ref_frame_num = sends.ref_frame_num
    PROVE  CodedOK'
<1>1. /\ left \in Nat /\ coded.slice \in Nat /\ coded.n \in Nat /\ SlicesPerPicture \in Nat
  BY ReaderBoundsAssumption DEF ReaderTypeOK, SliceHeaders
<1>2. coded.n # 0 /\ left + coded.slice = SlicesPerPicture
  BY <1>1 DEF CodedOK
<1>3. /\ coded'.slice = coded.slice + 1 /\ coded'.n = coded.n /\ coded'.frame_num = coded.frame_num
      /\ coded'.nal_ref_idc = coded.nal_ref_idc /\ coded'.idr = coded.idr
      /\ coded'.idr_pic_id = coded.idr_pic_id /\ coded'.pic_order_cnt_lsb = coded.pic_order_cnt_lsb
      /\ coded'.delta_pic_order_cnt = coded.delta_pic_order_cnt
  BY TheSliceIs
<1>4. coded'.n # 0 /\ left' + coded'.slice = SlicesPerPicture /\ coded'.slice > 0
  BY <1>1, <1>2, <1>3
<1>5. KeptIsOlder(coded')
  BY <1>3 DEF CodedOK, KeptIsOlder
<1>6. QED
  BY <1>3, <1>4, <1>5 DEF CodedOK

LEMMA SliceComes == ReaderInv /\ SLICE => ReaderInv'
<1> SUFFICES ASSUME ReaderInv, SLICE PROVE ReaderInv'
  OBVIOUS
<1> DEFINE r == Started
<1>1. /\ Running /\ left > 0 /\ part = 0 /\ coded' = TheSlice /\ left' = left - 1
      /\ UNCHANGED <<sets, part, sends>>
      /\ IF r.d.stopped THEN Becomes(r) /\ UNCHANGED decoded ELSE Decode(r, {1})
  BY DEF SLICE, Started
<1>2. ReaderTypeOK /\ SetsKept /\ PicturesOK /\ PartitionsOK
  BY DEF ReaderInv
<1>3. /\ r \in Steps /\ Active(r.d, TheSlice) /\ SizesOf(r.d) /\ r.d.img = TheSlice
      /\ r.d.PicParSet = sets.pps /\ r.d.SeqParSet = sets.sps /\ r.d.old_slice = d.old_slice
      /\ r.d.partitions = [d.partitions EXCEPT ![1] = Name(TheSlice)] /\ r.d.ended = d.ended
  BY <1>2, SliceStarts
<1>4. /\ ~r.d.stopped => OpenFor(r, TheSlice)
      /\ Ascending(r.stored) /\ r.stored \in Seq(Pictures)
  BY <1>1, <1>2, SliceFindsPicture
<1>5. TheSlice \in SliceHeaders /\ left - 1 \in Nat /\ coded.n \in Nat /\ coded.n > 0
  BY <1>1, <1>2, TheSliceIs DEF ReaderTypeOK, PicturesOK, CodedOK, SliceHeaders
<1>6. CodedOK'
  BY <1>1, <1>2, NextSliceCoded DEF PicturesOK
<1>7. r.d.ended = FALSE
  BY <1>1, <1>2, <1>3 DEF Running, ReaderTypeOK, Decoders
<1>8. r.d.partitions[1] = Name(TheSlice)
  BY <1>2, <1>3 DEF ReaderTypeOK, Partitions, Decoders
<1> HIDE DEF r
<1>9. CASE r.d.stopped
  <2>1. d' = r.d /\ stored' = r.stored /\ decoded' = decoded
    BY <1>1, <1>9 DEF Becomes
  <2>2. ReaderTypeOK'
    BY <1>1, <1>2, <1>3, <1>5, <2>1 DEF ReaderTypeOK, Steps
  <2>3. SetsKept'
    BY <1>1, <1>2, <1>3, <1>9, <2>1 DEF SetsKept, SetsAreThoseSent, Running
  <2>4. PicturesOK'
    BY <1>2, <1>4, <1>6, <1>7, <1>9, <2>1 DEF PicturesOK, Running, Ascending
  <2>5. PartitionsOK'
    BY <1>1, <1>2, <2>1 DEF PartitionsOK, PartitionsBelongTogether
  <2>6. QED
    BY <2>2, <2>3, <2>4, <2>5 DEF ReaderInv
<1>10. CASE ~r.d.stopped
  <2>1. /\ d' \in Decoders /\ stored' \in Seq(Pictures) /\ decoded'.slices \subseteq Nat \X Nat
        /\ SetsKept' /\ PicturesOK'
        /\ decoded'.last.slice = Name(coded') /\ decoded'.last.partitions = Restrict(r.d.partitions, {1})
    BY <1>1, <1>2, <1>3, <1>4, <1>5, <1>6, <1>7, <1>10, TheSliceIs, DecodedInPicture
  <2>2. ReaderTypeOK'
    BY <1>1, <1>2, <1>5, <2>1 DEF ReaderTypeOK
  <2>3. PartitionsOK'
    BY <1>1, <1>8, <2>1 DEF PartitionsOK, PartitionsBelongTogether, Restrict
  <2>4. QED
    BY <2>1, <2>2, <2>3 DEF ReaderInv
<1>11. QED
  BY <1>9, <1>10

LEMMA PartitionAComes == ReaderInv /\ DPA => ReaderInv'
<1> SUFFICES ASSUME ReaderInv, DPA PROVE ReaderInv'
  OBVIOUS
<1> DEFINE r == Started
<1>1. /\ Running /\ left > 0 /\ part = 0 /\ coded' = TheSlice /\ left' = left - 1 /\ part' = 1
      /\ UNCHANGED <<sets, sends, decoded>> /\ d' = r.d /\ stored' = r.stored
  BY DEF DPA, Started, Becomes
<1>2. ReaderTypeOK /\ SetsKept /\ PicturesOK /\ PartitionsOK
  BY DEF ReaderInv
<1>3. /\ r \in Steps /\ Active(r.d, TheSlice) /\ SizesOf(r.d) /\ r.d.img = TheSlice
      /\ r.d.PicParSet = sets.pps /\ r.d.SeqParSet = sets.sps /\ r.d.old_slice = d.old_slice
      /\ r.d.partitions = [d.partitions EXCEPT ![1] = Name(TheSlice)] /\ r.d.ended = d.ended
  BY <1>2, SliceStarts
<1>4. /\ ~r.d.stopped => OpenFor(r, TheSlice)
      /\ Ascending(r.stored) /\ r.stored \in Seq(Pictures)
      /\ \A i \in DOMAIN r.stored : r.stored[i].opened_by.n <= d.old_slice.n
  BY <1>1, <1>2, SliceFindsPicture
<1>5. TheSlice \in SliceHeaders /\ left - 1 \in Nat
  BY <1>1, <1>2, TheSliceIs DEF ReaderTypeOK
<1>6. CodedOK'
  BY <1>1, <1>2, NextSliceCoded DEF PicturesOK
<1>7. r.d.ended = FALSE
  BY <1>1, <1>2, <1>3 DEF Running, ReaderTypeOK, Decoders
<1>8. r.d.partitions[1] = Name(TheSlice)
  BY <1>2, <1>3 DEF ReaderTypeOK, Partitions, Decoders
<1> HIDE DEF r
<1>9. ReaderTypeOK'
  BY <1>1, <1>2, <1>3, <1>5 DEF ReaderTypeOK, Steps
<1>10. SetsKept'
  BY <1>1, <1>2, <1>3 DEF SetsKept, SetsAreThoseSent
<1>11. PartitionsOK'
  BY <1>1, <1>2, <1>8 DEF PartitionsOK, PartitionsBelongTogether
<1>12. ASSUME ~r.d.stopped PROVE OldSliceOK' /\ LossesOK' /\ OpenOK'
  <2>1. TypeSent' = TypeSent
    BY <1>1, <1>2, TheSliceIs DEF TypeSent, SentSets
  <2>2. OldSliceOK
    BY <1>1, <1>2 DEF PicturesOK
  <2>3. coded.n \in Nat /\ coded.n > 0 /\ left' = left - 1 /\ left \in Nat
    BY <1>1, <1>2 DEF ReaderTypeOK, PicturesOK, CodedOK, SliceHeaders
  <2>4. OldSliceOK'
    BY <1>1, <1>2, <1>3, <2>1, <2>2, <2>3, TheSliceIs DEF OldSliceOK, SamePicture, SameCounts, Differ
  <2>5. LossesOK'
    BY <1>1, <1>2 DEF PicturesOK, LossesOK
  <2>6. OpenOK'
    BY <1>1, <1>3, <1>4, <1>12, TheSliceIs, <1>2, PicturesAssumption DEF OpenOK, OpenFor
  <2>7. QED
    BY <2>4, <2>5, <2>6
<1>13. PicturesOK'
  <2>1. ~d'.stopped => Kept'
    BY <1>1, <1>4, PicturesAssumption DEF Kept, OpenFor
  <2>2. Running' => ~r.d.stopped
    BY <1>1 DEF Running
  <2>3. d'.ended = FALSE /\ Ascending(stored)' /\ (decoded.last # NULL => decoded.last.opened_by.n = decoded.last.slice[1])'
    BY <1>1, <1>2, <1>4, <1>7 DEF PicturesOK, Ascending
  <2>4. QED
    BY <1>6, <1>12, <2>1, <2>2, <2>3 DEF PicturesOK
<1>14. QED
  BY <1>9, <1>10, <1>11, <1>13 DEF ReaderInv

LEMMA PartitionBComes == ReaderInv /\ DPB => ReaderInv'
<1> SUFFICES ASSUME ReaderInv, DPB PROVE ReaderInv'
  OBVIOUS
<1>1. /\ Running /\ part = 1 /\ d' = [d EXCEPT !.partitions[2] = Name(coded)] /\ part' = 2
      /\ UNCHANGED <<sets, coded, left, sends, decoded, stored>>
  BY DEF DPB
<1>2. ReaderTypeOK /\ SetsKept /\ PicturesOK /\ PartitionsOK
  BY DEF ReaderInv
<1>3. Name(coded) \in Nat \X Nat /\ 2 \in 1..3
  BY <1>2 DEF Name, SliceHeaders, ReaderTypeOK
<1>4. /\ d' \in Decoders /\ SameActive(d', d)
      /\ d'.PicParSet = d.PicParSet /\ d'.SeqParSet = d.SeqParSet /\ d'.old_slice = d.old_slice
      /\ d'.partitions = [d.partitions EXCEPT ![2] = Name(coded)] /\ d'.img = d.img
      /\ d'.stopped = d.stopped /\ d'.ended = d.ended /\ d'.dec_picture = d.dec_picture
  <2> DEFINE q == [Here EXCEPT !.d.partitions[2] = Name(coded)]
  <2>1. /\ q \in Steps /\ SameActive(q.d, d) /\ q.d = [d EXCEPT !.partitions[2] = Name(coded)]
        /\ q.d.PicParSet = d.PicParSet /\ q.d.SeqParSet = d.SeqParSet /\ q.d.old_slice = d.old_slice
        /\ q.d.partitions = [d.partitions EXCEPT ![2] = Name(coded)] /\ q.d.img = d.img
        /\ q.d.stopped = d.stopped /\ q.d.ended = d.ended /\ q.d.dec_picture = d.dec_picture
    BY <1>2, <1>3, WithPartition
  <2> HIDE DEF q
  <2>2. q.d \in Decoders /\ d' = q.d
    BY <1>1, <2>1 DEF Steps
  <2>3. QED
    BY <2>1, <2>2
<1>5. ReaderTypeOK'
  BY <1>1, <1>2, <1>4 DEF ReaderTypeOK
<1>6. SetsKept'
  BY <1>1, <1>2, <1>4 DEF SetsKept, SizesOf, Active, SameActive, SetsAreThoseSent, Running
<1>7. PartitionsOK'
  BY <1>1, <1>2, <1>4 DEF PartitionsOK, PartitionsBelongTogether, ReaderTypeOK, Partitions, Decoders
<1>8. PicturesOK'
  <2>1. CodedOK'
    BY <1>1, <1>2 DEF PicturesOK, CodedOK
  <2>2. OldSliceOK' /\ LossesOK' /\ OpenOK'
    <3>1. OldSliceOK /\ LossesOK /\ OpenOK
      BY <1>1, <1>2 DEF PicturesOK
    <3>2. TypeSent' = TypeSent
      BY <1>1 DEF TypeSent
    <3>3. OldSliceOK'
      BY <1>1, <1>4, <3>1, <3>2 DEF OldSliceOK
    <3>4. LossesOK'
      BY <1>1, <3>1 DEF LossesOK
    <3>5. OpenOK'
      BY <1>1, <1>4, <3>1 DEF OpenOK, Active, SameActive
    <3>6. QED
      BY <3>3, <3>4, <3>5
  <2>3. Kept' /\ Ascending(stored)' /\ d'.ended = d.ended /\ ~d.ended /\ ~d.stopped
    BY <1>1, <1>2, <1>4 DEF PicturesOK, Kept, Ascending, Running
  <2>4. QED
    BY <1>1, <1>2, <2>1, <2>2, <2>3 DEF PicturesOK, Kept
<1>9. QED
  BY <1>5, <1>6, <1>7, <1>8 DEF ReaderInv

LEMMA PartitionCComes == ReaderInv /\ DPC => ReaderInv'
<1> SUFFICES ASSUME ReaderInv, DPC PROVE ReaderInv'
  OBVIOUS
<1> DEFINE r == [Here EXCEPT !.d.partitions[3] = Name(coded)]
<1>1. /\ Running /\ part = 2 /\ part' = 0 /\ Decode(r, 1..3)
      /\ UNCHANGED <<sets, coded, left, sends>>
  BY DEF DPC
<1>2. ReaderTypeOK /\ SetsKept /\ PicturesOK /\ PartitionsOK
  BY DEF ReaderInv
<1>3. Name(coded) \in Nat \X Nat /\ 3 \in 1..3 /\ coded \in SliceHeaders /\ coded.n \in Nat
  BY <1>2 DEF Name, SliceHeaders, ReaderTypeOK
<1>4. /\ r \in Steps /\ SameActive(r.d, d) /\ r.stored = stored
      /\ r.d.PicParSet = d.PicParSet /\ r.d.SeqParSet = d.SeqParSet /\ r.d.old_slice = d.old_slice
      /\ r.d.partitions = [d.partitions EXCEPT ![3] = Name(coded)] /\ r.d.img = d.img
      /\ r.d.stopped = d.stopped /\ r.d.ended = d.ended /\ r.d.dec_picture = d.dec_picture
  BY <1>2, <1>3, WithPartition
<1> HIDE DEF r
<1>5. r.d.img = coded /\ Active(r.d, coded) /\ SizesOf(r.d) /\ r.d.PicParSet = sets.pps /\ r.d.SeqParSet = sets.sps
  BY <1>1, <1>2, <1>4 DEF SetsKept, SameActive, Active, SizesOf
<1>6. coded.n > 0
  BY <1>1, <1>2, <1>3 DEF PicturesOK, CodedOK
<1>7. OpenFor(r, coded)
  <2>1. OpenOK /\ Kept /\ Ascending(stored) /\ d.dec_picture \in Pictures \cup {NULL}
    BY <1>1, <1>2 DEF PicturesOK, Running, ReaderTypeOK, Decoders
  <2>2. QED
    BY <1>1, <1>4, <2>1 DEF OpenFor, OpenOK, Kept
<1>8. CodedOK'
  BY <1>1, <1>2 DEF PicturesOK, CodedOK
<1>9. ~r.d.stopped /\ r.d.ended = FALSE
  BY <1>1, <1>2, <1>4 DEF Running, ReaderTypeOK, Decoders
<1>10. /\ d' \in Decoders /\ stored' \in Seq(Pictures) /\ decoded'.slices \subseteq Nat \X Nat
       /\ SetsKept' /\ PicturesOK'
       /\ decoded'.last.slice = Name(coded') /\ decoded'.last.partitions = Restrict(r.d.partitions, 1..3)
  BY <1>1, <1>2, <1>3, <1>4, <1>5, <1>6, <1>7, <1>8, <1>9, DecodedInPicture
<1>11. ReaderTypeOK'
  BY <1>1, <1>2, <1>10 DEF ReaderTypeOK
<1>12. \A p \in 1..3 : r.d.partitions[p] = Name(coded)
  BY <1>1, <1>2, <1>4 DEF PartitionsOK, ReaderTypeOK, Partitions, Decoders
<1>13. PartitionsOK'
  BY <1>1, <1>10, <1>12 DEF PartitionsOK, PartitionsBelongTogether, Restrict
<1>14. QED
  BY <1>10, <1>11, <1>13 DEF ReaderInv

(* When the last slice of a picture is sent, one of its slices has been    *)
(* decoded: so if fewer slices are lost in all than a picture has.         *)
LEMMA PictureArrived == ReaderInv /\ ~LosePartitions /\ MaxLosses < SlicesPerPicture => SomethingArrives
<1> SUFFICES ASSUME ReaderInv, ~LosePartitions, MaxLosses < SlicesPerPicture, Running, left = 0, part = 0
             PROVE  d.old_slice.n = coded.n
  BY DEF SomethingArrives
<1>1. ReaderTypeOK /\ CodedOK /\ OldSliceOK /\ LossesOK
  BY DEF ReaderInv, PicturesOK
<1>2. /\ coded.n \in Nat /\ coded.slice \in Nat /\ sends.losses \in Nat
      /\ {SlicesPerPicture, MaxLosses} \subseteq Nat
  BY <1>1, ReaderBoundsAssumption DEF ReaderTypeOK, SliceHeaders
<1>3. CASE coded.n = 0
  BY <1>1, <1>3 DEF OldSliceOK, init_old_slice, NoPicture
<1>4. CASE coded.n # 0
  <2>1. coded.slice = SlicesPerPicture
    BY <1>1, <1>2, <1>4 DEF CodedOK
  <2>2. ~(coded.slice <= sends.losses)
    BY <1>1, <1>2, <2>1 DEF LossesOK
  <2>3. QED
    BY <1>1, <2>2 DEF LossesOK
<1>5. QED
  BY <1>3, <1>4

(* The picture that is open between two slices may be handed over.         *)
LEMMA MayCloseBetween ==
    ASSUME ReaderInv, Running, part = 0, NEW q \in Steps, MayClose(q, Here)
    PROVE  /\ Ascending(q.stored)
           /\ \A x : x \in decoded.slices <=> In(x, q.d.dec_picture, q.stored)
           /\ q.d.dec_picture # NULL => q.d.dec_picture.opened_by.n = d.old_slice.n
           /\ \A i \in DOMAIN q.stored : /\ q.stored[i].opened_by.n <= d.old_slice.n
                                         /\ q.d.dec_picture # NULL => q.stored[i].opened_by.n < q.d.dec_picture.opened_by.n
<1>1. ReaderTypeOK /\ SetsKept /\ PicturesOK
  BY DEF ReaderInv
<1>2. OpenOK /\ Kept /\ Ascending(stored) /\ Here \in Steps /\ Here.d = d /\ Here.stored = stored
  BY <1>1, HereIs DEF PicturesOK, Running
<1>3. CASE q.d.dec_picture = Here.d.dec_picture /\ q.stored = Here.stored
  BY <1>2, <1>3 DEF OpenOK, Kept
<1>4. CASE q.d.dec_picture = NULL /\ q.stored = Closed(Here)
  <2>1. d.old_slice.n \in Nat
    BY <1>1, OldIsThere
  <2>2. d.dec_picture # NULL => Newest(Here)
    BY <1>2 DEF Newest, OpenOK
  <2>3. /\ \A x : In(x, d.dec_picture, stored) <=> \E i \in DOMAIN q.stored : x \in q.stored[i].slices
        /\ \A i \in DOMAIN q.stored : \/ i \in DOMAIN stored /\ q.stored[i] = stored[i]
                                      \/ d.dec_picture # NULL /\ q.stored[i] = d.dec_picture
        /\ Ascending(q.stored)
    BY <1>2, <1>4, <2>2, InClosed
  <2>4. \A x : x \in decoded.slices <=> In(x, q.d.dec_picture, q.stored)
    BY <1>2, <1>4, <2>3 DEF Kept, In
  <2>5. \A i \in DOMAIN q.stored : q.stored[i].opened_by.n <= d.old_slice.n
    BY <1>2, <2>1, <2>3 DEF OpenOK
  <2>6. QED
    BY <1>4, <2>3, <2>4, <2>5
<1>5. QED
  BY <1>3, <1>4 DEF MayClose

(* The sets of a picture whose slices are being decoded are active.        *)
LEMMA ActiveWithin ==
    ASSUME ReaderInv, Running, left > 0, d.old_slice.n = coded.n
    PROVE  /\ Here.d = d /\ d.dec_picture # NULL
           /\ d.active_pps = coded.pps /\ d.active_sps = sets.pps[coded.pps].sps
           /\ d.PicParSet = sets.pps /\ d.SeqParSet = sets.sps
<1>1. ReaderTypeOK /\ SetsKept /\ OpenOK
  BY DEF ReaderInv, PicturesOK
<1>2. QED
  BY <1>1 DEF SetsKept, OpenOK, Active, Here

(* A parameter set between two slices.                                     *)
LEMMA SetComes ==
    ASSUME SomethingArrives, ReaderInv, Running, part = 0, NEW q \in Steps, MayClose(q, Here), SizesOf(q.d),
           q.d.old_slice = d.old_slice, q.d.stopped = d.stopped, q.d.ended = d.ended,
           d' = q.d, stored' = q.stored, UNCHANGED <<coded, left, part, decoded>>,
           q.d.PicParSet = sets'.pps, q.d.SeqParSet = sets'.sps,
           sends'.losses = sends.losses, sends'.ref_frame_num = sends.ref_frame_num, SetsOfPictureStay,
           left > 0 /\ d.old_slice.n = coded.n => q.d.dec_picture = d.dec_picture /\ SameActive(q.d, d)
    PROVE  SetsKept' /\ PicturesOK' /\ PartitionsOK'
<1>1. ReaderTypeOK /\ SetsKept /\ PicturesOK /\ PartitionsOK
  BY DEF ReaderInv
<1>2. SetsKept'
  BY <1>1 DEF SetsKept, SetsAreThoseSent
<1>3. PartitionsOK'
  BY <1>1 DEF PartitionsOK, PartitionsBelongTogether
<1>4. /\ Ascending(q.stored)
      /\ \A x : x \in decoded.slices <=> In(x, q.d.dec_picture, q.stored)
      /\ q.d.dec_picture # NULL => q.d.dec_picture.opened_by.n = d.old_slice.n
      /\ \A i \in DOMAIN q.stored : /\ q.stored[i].opened_by.n <= d.old_slice.n
                                    /\ q.d.dec_picture # NULL => q.stored[i].opened_by.n < q.d.dec_picture.opened_by.n
  BY MayCloseBetween
<1>5. /\ left = 0 => d.old_slice.n = coded.n
      /\ left # 0 => left > 0 /\ SentSets(sets', coded) = SentSets(sets, coded) /\ TypeSent' = TypeSent
  <2>1. left # 0 => left > 0
    BY <1>1 DEF ReaderTypeOK
  <2>2. QED
    BY <2>1 DEF SomethingArrives, SetsOfPictureStay, TypeSent
<1>6. CodedOK'
  BY <1>1 DEF PicturesOK, CodedOK
<1>7. OldSliceOK'
  <2>1. OldSliceOK /\ d'.old_slice = d.old_slice /\ coded' = coded /\ left' = left
    BY <1>1 DEF PicturesOK
  <2>2. CASE left = 0
    BY <1>5, <2>1, <2>2 DEF OldSliceOK
  <2>3. CASE left # 0
    BY <1>5, <2>1, <2>3 DEF OldSliceOK
  <2>4. QED
    BY <2>2, <2>3
<1>8. LossesOK'
  BY <1>1 DEF PicturesOK, LossesOK
<1>9. OpenOK'
  <2>1. left > 0 /\ d.old_slice.n = coded.n => q.d.dec_picture # NULL /\ Active(q.d, coded)
    <3> SUFFICES ASSUME left > 0, d.old_slice.n = coded.n PROVE q.d.dec_picture # NULL /\ Active(q.d, coded)
      OBVIOUS
    <3>1. /\ d.dec_picture # NULL
          /\ d.active_pps = coded.pps /\ d.active_sps = sets.pps[coded.pps].sps
      BY ActiveWithin
    <3>2. sets'.pps[coded.pps] = sets.pps[coded.pps]
      BY DEF SetsOfPictureStay, SentSets
    <3>3. QED
      BY <3>1, <3>2 DEF Active, SameActive
  <2>2. QED
    BY <1>4, <2>1 DEF OpenOK
<1>10. Kept' /\ Ascending(stored)'
  BY <1>4 DEF Kept, Ascending
<1>11. d'.ended => d'.dec_picture = NULL /\ ~d'.stopped
  BY DEF Running
<1>12. QED
  BY <1>1, <1>2, <1>3, <1>6, <1>7, <1>8, <1>9, <1>10, <1>11 DEF PicturesOK

LEMMA SpsComes == SomethingArrives /\ ReaderInv /\ SendSPS => ReaderInv'
<1> SUFFICES ASSUME SomethingArrives, ReaderInv, SendSPS PROVE ReaderInv'
  OBVIOUS
<1>1. PICK id \in Ids, c \in SpsContents :
          /\ Becomes(ProcessSPS(Here, id, c)) /\ sets' = [sets EXCEPT !.sps[id] = c]
          /\ sends' = [sends EXCEPT !.sets = @ + 1, !.fresh_sps = @ \/ c # sets.sps[id]]
  BY DEF SendSPS
<1>2. Running /\ part = 0 /\ UNCHANGED <<coded, left, part, decoded>> /\ SetsOfPictureStay
  BY DEF SendSPS
<1>3. ReaderTypeOK /\ SetsKept
  BY DEF ReaderInv
<1>4. Here \in Steps /\ Here.d = d /\ Here.stored = stored /\ SizesOf(d)
  BY <1>3, HereIs DEF SetsKept
<1> DEFINE q == ProcessSPS(Here, id, c)
<1>5. /\ q \in Steps /\ SizesOf(q.d) /\ MayClose(q, Here)
      /\ q.d.PicParSet = d.PicParSet /\ q.d.SeqParSet = [d.SeqParSet EXCEPT ![id] = c]
      /\ q.d.old_slice = d.old_slice /\ q.d.stopped = d.stopped /\ q.d.ended = d.ended
  BY <1>4, ProcessedSps
<1>6. d' = q.d /\ stored' = q.stored
  BY <1>1 DEF Becomes
<1>13. ASSUME left > 0, d.old_slice.n = coded.n PROVE q.d.dec_picture = d.dec_picture /\ SameActive(q.d, d)
  <2>1. /\ Here.d = d /\ d.active_sps = sets.pps[coded.pps].sps /\ d.SeqParSet = sets.sps
    BY <1>2, <1>13, ActiveWithin
  <2>2. sets'.sps[id] = c /\ sets'.pps = sets.pps
    BY <1>1, <1>3 DEF ReaderTypeOK, SeqParSets
  <2>3. d.active_sps = id => c = d.SeqParSet[id]
    BY <1>2, <1>13, <2>1, <2>2 DEF SetsOfPictureStay, SentSets
  <2>4. q = [Here EXCEPT !.d.SeqParSet[id] = c, !.d.active_sps = @]
    BY <2>1, <2>3 DEF ProcessSPS
  <2>5. QED
    BY <1>4, <2>4 DEF SameActive, Steps, Decoders
<1> HIDE DEF q
<1>7. sets' = [sets EXCEPT !.sps = [sets.sps EXCEPT ![id] = c]]
  BY <1>1
<1>8. sets' \in [pps : PicParSets, sps : SeqParSets] /\ sets'.pps = sets.pps /\ sets'.sps = [sets.sps EXCEPT ![id] = c]
  <2>1. [sets.sps EXCEPT ![id] = c] \in SeqParSets
    BY <1>3 DEF ReaderTypeOK, SeqParSets
  <2>2. QED
    BY <1>3, <1>7, <2>1 DEF ReaderTypeOK
<1>9. /\ sends' \in [sets : Nat, losses : Nat, fresh_sps : BOOLEAN, ref_frame_num : Nat, partitioned : BOOLEAN]
      /\ sends'.losses = sends.losses /\ sends'.ref_frame_num = sends.ref_frame_num
  <2> DEFINE fresh == sends.fresh_sps \/ c # sets.sps[id]
             count == sends.sets + 1
  <2>1. fresh \in BOOLEAN
    BY Zenon
  <2>2. sends' = [sends EXCEPT !.sets = count, !.fresh_sps = fresh]
    BY <1>1, Zenon
  <2>3. count \in Nat
    BY <1>3 DEF ReaderTypeOK
  <2> HIDE DEF fresh, count
  <2>4. QED
    BY <1>3, <2>1, <2>2, <2>3 DEF ReaderTypeOK
<1>10. SetsKept' /\ PicturesOK' /\ PartitionsOK'
  <2>1. q.d.PicParSet = sets'.pps /\ q.d.SeqParSet = sets'.sps
    BY <1>3, <1>5, <1>8 DEF SetsKept
  <2>2. QED
    BY <1>2, <1>5, <1>6, <1>9, <1>13, <2>1, SetComes
<1>11. ReaderTypeOK'
  BY <1>2, <1>3, <1>5, <1>6, <1>8, <1>9 DEF ReaderTypeOK, Steps
<1>12. QED
  BY <1>10, <1>11 DEF ReaderInv

LEMMA PpsComes == SomethingArrives /\ ReaderInv /\ SendPPS => ReaderInv'
<1> SUFFICES ASSUME SomethingArrives, ReaderInv, SendPPS PROVE ReaderInv'
  OBVIOUS
<1>1. PICK id \in Ids, sps \in Ids, v \in PpsVersions :
          /\ Becomes(ProcessPPS(Here, id, [sps |-> sps, version |-> v]))
          /\ sets' = [sets EXCEPT !.pps[id] = [sps |-> sps, version |-> v]]
  BY DEF SendPPS
<1>2. /\ Running /\ part = 0 /\ UNCHANGED <<coded, left, part, decoded>> /\ SetsOfPictureStay
      /\ sends' = [sends EXCEPT !.sets = @ + 1,
                                !.fresh_sps = @ \/ SentSets(sets', coded).sps # SentSets(sets, coded).sps]
  BY DEF SendPPS
<1>3. ReaderTypeOK /\ SetsKept
  BY DEF ReaderInv
<1>4. Here \in Steps /\ Here.d = d /\ Here.stored = stored /\ SizesOf(d)
  BY <1>3, HereIs DEF SetsKept
<1> DEFINE c == [sps |-> sps, version |-> v]
           q == ProcessPPS(Here, id, c)
<1>5. c \in [sps : Ids, version : PpsVersions]
  OBVIOUS
<1>6. d' = q.d /\ stored' = q.stored /\ sets' = [sets EXCEPT !.pps[id] = c]
  BY <1>1 DEF Becomes
<1> HIDE DEF c
<1>7. /\ q \in Steps /\ SizesOf(q.d) /\ MayClose(q, Here)
      /\ q.d.PicParSet = [d.PicParSet EXCEPT ![id] = c] /\ q.d.SeqParSet = d.SeqParSet
      /\ q.d.old_slice = d.old_slice /\ q.d.stopped = d.stopped /\ q.d.ended = d.ended
  BY <1>4, <1>5, ProcessedPps
<1>13. ASSUME left > 0, d.old_slice.n = coded.n PROVE q.d.dec_picture = d.dec_picture /\ SameActive(q.d, d)
  <2>1. /\ Here.d = d /\ d.active_pps = coded.pps /\ d.PicParSet = sets.pps
    BY <1>2, <1>13, ActiveWithin
  <2>2. sets'.pps[id] = c
    BY <1>3, <1>6 DEF ReaderTypeOK, PicParSets
  <2>3. d.active_pps = id => c = d.PicParSet[id]
    BY <1>2, <1>13, <2>1, <2>2 DEF SetsOfPictureStay, SentSets
  <2>4. q = [Here EXCEPT !.d.PicParSet[id] = c, !.d.active_pps = @]
    BY <2>1, <2>3 DEF ProcessPPS
  <2>5. QED
    BY <1>4, <2>4 DEF SameActive, Steps, Decoders
<1> HIDE DEF q
<1>8. sets' \in [pps : PicParSets, sps : SeqParSets] /\ sets'.sps = sets.sps /\ sets'.pps = [sets.pps EXCEPT ![id] = c]
  <2>1. [sets.pps EXCEPT ![id] = c] \in PicParSets
    BY <1>3, <1>5 DEF ReaderTypeOK, PicParSets
  <2>2. sets' = [sets EXCEPT !.pps = [sets.pps EXCEPT ![id] = c]]
    BY <1>6
  <2>3. QED
    BY <1>3, <2>1, <2>2 DEF ReaderTypeOK
<1>9. /\ sends' \in [sets : Nat, losses : Nat, fresh_sps : BOOLEAN, ref_frame_num : Nat, partitioned : BOOLEAN]
      /\ sends'.losses = sends.losses /\ sends'.ref_frame_num = sends.ref_frame_num
  <2> DEFINE fresh == sends.fresh_sps \/ SentSets(sets', coded).sps # SentSets(sets, coded).sps
             count == sends.sets + 1
  <2>1. fresh \in BOOLEAN
    BY Zenon
  <2>2. sends' = [sends EXCEPT !.sets = count, !.fresh_sps = fresh]
    BY <1>2, Zenon
  <2>3. count \in Nat
    BY <1>3 DEF ReaderTypeOK
  <2> HIDE DEF fresh, count
  <2>4. QED
    BY <1>3, <2>1, <2>2, <2>3 DEF ReaderTypeOK
<1>10. SetsKept' /\ PicturesOK' /\ PartitionsOK'
  <2>1. q.d.PicParSet = sets'.pps /\ q.d.SeqParSet = sets'.sps
    BY <1>3, <1>7, <1>8 DEF SetsKept
  <2>2. QED
    BY <1>2, <1>6, <1>7, <1>9, <1>13, <2>1, SetComes
<1>11. ReaderTypeOK'
  BY <1>2, <1>3, <1>6, <1>7, <1>8, <1>9 DEF ReaderTypeOK, Steps
<1>12. QED
  BY <1>10, <1>11 DEF ReaderInv

(* The header of the next picture.                                         *)
LEMMA PictureHeaderIs ==
    ASSUME coded.n \in Nat, NEW pps \in Ids, NEW structure \in {"FRAME", "TOP", "BOTTOM"}, NEW ref \in 0..1,
           NEW idr \in BOOLEAN, NEW fn \in Nat
    PROVE  LET h == PictureHeader(pps, structure, ref, idr, fn)
           IN  /\ h \in SliceHeaders /\ h.n = coded.n + 1 /\ h.slice = 0 /\ h.pps = pps /\ h.frame_num = fn
               /\ h.nal_ref_idc = ref /\ (h.bottom => h.field) /\ KeptIsOlder(h)
               /\ h.idr => h.idr_pic_id = coded.n + 1
               /\ ~h.idr => h.pic_order_cnt_lsb = coded.n + 1
               /\ ref = 0 => h.delta_pic_order_cnt = coded.n + 1
<1> DEFINE n == coded.n + 1
           field == structure # "FRAME"
           bottom == structure = "BOTTOM"
           id == IF idr THEN n ELSE 0
           lsb == IF idr THEN 0 ELSE n
           delta == IF ref = 1 THEN 0 ELSE n
<1>1. n \in Nat /\ id \in Nat /\ lsb \in Nat /\ delta \in Nat
  OBVIOUS
<1>2. field \in BOOLEAN /\ bottom \in BOOLEAN
  BY Zenon
<1>3. /\ bottom => field
      /\ idr => id = n
      /\ ~idr => lsb = n
      /\ ref = 0 => delta = n
      /\ id <= n /\ lsb <= n /\ delta <= n
  OBVIOUS
<1>4. PictureHeader(pps, structure, ref, idr, fn)
          = [n |-> n, slice |-> 0, pps |-> pps, frame_num |-> fn, field |-> field, bottom |-> bottom, nal_ref_idc |-> ref,
             idr |-> idr, idr_pic_id |-> id, pic_order_cnt_lsb |-> lsb, delta_pic_order_cnt |-> delta]
  BY Zenon DEF PictureHeader
<1>5. n = coded.n + 1
  OBVIOUS
<1> HIDE DEF n, field, bottom, id, lsb, delta
<1>6. PictureHeader(pps, structure, ref, idr, fn) \in SliceHeaders
  BY <1>1, <1>2, <1>4 DEF SliceHeaders
<1>7. QED
  BY <1>3, <1>4, <1>5, <1>6 DEF KeptIsOlder

(* The header of a new picture differs from old_slice, which is of the     *)
(* picture before.                                                         *)
LEMMA NewDiffers ==
    ASSUME ReaderTypeOK, CodedOK, OldSliceOK, d.old_slice.n = coded.n, NEW h \in SliceHeaders, h.n = coded.n + 1,
           NEW sps, sps.pic_order_cnt_type \in 0..2, Codable(h, sps), h.bottom => h.field,
           h.idr => h.idr_pic_id = coded.n + 1,
           ~h.idr => h.pic_order_cnt_lsb = coded.n + 1,
           h.nal_ref_idc = 0 => h.delta_pic_order_cnt = coded.n + 1
    PROVE  Differ(d.old_slice, h, sps.pic_order_cnt_type)
<1> DEFINE old == d.old_slice
           second == h.bottom /\ coded.field /\ ~coded.bottom
<1>1. /\ coded.n \in Nat /\ coded.frame_num \in Nat /\ coded.nal_ref_idc \in 0..1 /\ h.nal_ref_idc \in 0..1
      /\ FrameNums \in Nat /\ FrameNums > 1 /\ sends.ref_frame_num \in Nat
  BY FrameNumsAssumption DEF ReaderTypeOK, SliceHeaders
<1>2. /\ old.idr_pic_id \in Nat /\ old.pic_order_cnt_lsb \in Int /\ old.delta_pic_order_cnt \in Int
      /\ old.idr \in BOOLEAN /\ h.idr \in BOOLEAN /\ old.bottom \in BOOLEAN /\ h.bottom \in BOOLEAN
  BY DEF ReaderTypeOK, Decoders, OldSlices, SliceHeaders
<1>3. old.idr_pic_id <= coded.n /\ old.pic_order_cnt_lsb <= coded.n /\ old.delta_pic_order_cnt <= coded.n
  BY DEF OldSliceOK, KeptIsOlder
<1>4. CASE coded.n = 0
  <2>1. old.nal_ref_idc = -1
    BY <1>4 DEF OldSliceOK, init_old_slice, NoPicture
  <2>2. QED
    BY <1>1, <2>1 DEF Differ
<1>5. CASE coded.n > 0
  <2>1. SamePicture(old, coded)
    BY <1>5 DEF OldSliceOK
  <2>2. CASE old.idr # h.idr
    BY <2>2 DEF Differ
  <2>3. CASE old.idr /\ h.idr
    <3>1. old.idr_pic_id # h.idr_pic_id
      BY <1>1, <1>2, <1>3, <2>3
    <3>2. QED
      BY <2>3, <3>1 DEF Differ
  <2>4. CASE ~old.idr /\ ~h.idr
    <3>1. CASE second
      BY <1>2, <2>1, <3>1 DEF SamePicture, Differ
    <3>2. CASE ~second
      <4>1. h.frame_num = (sends.ref_frame_num + 1) % FrameNums
        BY <2>4, <3>2 DEF Codable
      <4>2. CASE coded.nal_ref_idc = 1
        <5>1. sends.ref_frame_num = coded.frame_num /\ coded.frame_num < FrameNums
          BY <4>2 DEF CodedOK
        <5>2. h.frame_num # coded.frame_num
          <6>1. CASE coded.frame_num + 1 < FrameNums
            BY <1>1, <4>1, <5>1, <6>1
          <6>2. CASE coded.frame_num + 1 = FrameNums
            BY <1>1, <4>1, <5>1, <6>2
          <6>3. QED
            BY <1>1, <5>1, <6>1, <6>2
        <5>3. QED
          BY <2>1, <5>2 DEF SamePicture, Differ
      <4>3. CASE coded.nal_ref_idc = 0 /\ h.nal_ref_idc = 1
        BY <2>1, <4>3 DEF SamePicture, Differ
      <4>4. CASE coded.nal_ref_idc = 0 /\ h.nal_ref_idc = 0
        <5>1. sps.pic_order_cnt_type # 2
          BY <3>2, <4>4 DEF Codable
        <5>2. old.pic_order_cnt_lsb # h.pic_order_cnt_lsb /\ old.delta_pic_order_cnt # h.delta_pic_order_cnt
          BY <1>1, <1>2, <1>3, <2>4, <4>4
        <5>3. sps.pic_order_cnt_type = 0 \/ sps.pic_order_cnt_type = 1
          BY <5>1
        <5>4. QED
          BY <5>2, <5>3 DEF Differ
      <4>5. QED
        BY <1>1, <4>2, <4>3, <4>4
    <3>3. QED
      BY <3>1, <3>2
  <2>5. QED
    BY <1>2, <2>2, <2>3, <2>4
<1>6. QED
  BY <1>1, <1>4, <1>5

LEMMA PictureBegins == SomethingArrives /\ ReaderInv /\ NextPicture => ReaderInv'
<1> SUFFICES ASSUME SomethingArrives, ReaderInv, NextPicture PROVE ReaderInv'
  OBVIOUS
<1>1. PICK pps \in Ids, structure \in {"FRAME", "TOP", "BOTTOM"}, ref \in 0..1, idr \in BOOLEAN, fn \in 0..MaxPictures :
          Begin(PictureHeader(pps, structure, ref, idr, fn))
  BY DEF NextPicture
<1> DEFINE h == PictureHeader(pps, structure, ref, idr, fn)
           sps == SentSets(sets, h).sps
<1>2. /\ Running /\ left = 0 /\ part = 0 /\ left' = SlicesPerPicture /\ UNCHANGED <<sets, part, d, decoded, stored>>
  BY DEF NextPicture
<1>3. ReaderTypeOK /\ SetsKept /\ PicturesOK /\ PartitionsOK /\ CodedOK /\ OldSliceOK /\ LossesOK /\ OpenOK
  BY <1>2 DEF ReaderInv, PicturesOK
<1>4. fn \in Nat /\ coded.n \in Nat /\ SlicesPerPicture \in Nat
  BY <1>3, ReaderBoundsAssumption DEF ReaderTypeOK, SliceHeaders
<1>5. /\ h \in SliceHeaders /\ h.n = coded.n + 1 /\ h.slice = 0 /\ h.pps = pps /\ h.frame_num = fn
      /\ h.nal_ref_idc = ref /\ (h.bottom => h.field) /\ KeptIsOlder(h)
      /\ h.idr => h.idr_pic_id = coded.n + 1
      /\ ~h.idr => h.pic_order_cnt_lsb = coded.n + 1
      /\ ref = 0 => h.delta_pic_order_cnt = coded.n + 1
  BY <1>4, PictureHeaderIs
<1>6. /\ Codable(h, sps) /\ coded' = h
      /\ sends' = [sends EXCEPT !.fresh_sps = FALSE,
                                !.ref_frame_num = IF h.nal_ref_idc = 1 THEN h.frame_num ELSE @]
  <2> HIDE DEF h
  <2>1. Begin(h)
    BY <1>1 DEF h
  <2>2. QED
    BY <2>1 DEF Begin
<1> HIDE DEF h
<1>7. sps.pic_order_cnt_type \in 0..2
  <2>1. sets.sps[sets.pps[h.pps].sps] \in SpsContents
    BY <1>3, <1>5 DEF ReaderTypeOK, PicParSets, SeqParSets
  <2>2. QED
    BY <2>1, ContentsAssumption DEF SentSets
<1>8. d.old_slice.n = coded.n
  BY <1>2 DEF SomethingArrives
<1>9. Differ(d.old_slice, h, sps.pic_order_cnt_type)
  <2>1. h.nal_ref_idc = 0 => h.delta_pic_order_cnt = coded.n + 1
    BY <1>5
  <2> HIDE DEF sps
  <2>2. QED
    BY <1>3, <1>5, <1>6, <1>7, <1>8, <2>1, NewDiffers
<1>10. /\ sends' \in [sets : Nat, losses : Nat, fresh_sps : BOOLEAN, ref_frame_num : Nat, partitioned : BOOLEAN]
       /\ sends'.losses = sends.losses
       /\ sends'.ref_frame_num = IF ref = 1 THEN fn ELSE sends.ref_frame_num
  <2> DEFINE num == IF h.nal_ref_idc = 1 THEN h.frame_num ELSE sends.ref_frame_num
  <2>1. num \in Nat
    BY <1>3, <1>4, <1>5 DEF ReaderTypeOK
  <2>2. sends' = [sends EXCEPT !.fresh_sps = FALSE, !.ref_frame_num = num]
    BY <1>6
  <2> HIDE DEF num
  <2>3. sends' \in [sets : Nat, losses : Nat, fresh_sps : BOOLEAN, ref_frame_num : Nat, partitioned : BOOLEAN]
        /\ sends'.losses = sends.losses /\ sends'.ref_frame_num = num
    BY <1>3, <2>1, <2>2 DEF ReaderTypeOK
  <2>4. QED
    BY <1>5, <2>3 DEF num
<1>11. ReaderTypeOK'
  BY <1>2, <1>3, <1>4, <1>5, <1>6, <1>10 DEF ReaderTypeOK
<1>12. SetsKept' /\ PartitionsOK'
  BY <1>2, <1>3 DEF SetsKept, SetsAreThoseSent, PartitionsOK, PartitionsBelongTogether
<1>13. fn < FrameNums
  <2>1. FrameNums \in Nat /\ FrameNums > 1 /\ sends.ref_frame_num \in Nat /\ coded.frame_num < FrameNums
    BY <1>3, FrameNumsAssumption DEF CodedOK, ReaderTypeOK
  <2>2. fn \in {0, coded.frame_num, (sends.ref_frame_num + 1) % FrameNums}
    BY <1>5, <1>6 DEF Codable
  <2>3. (sends.ref_frame_num + 1) % FrameNums < FrameNums
    BY <2>1
  <2>4. QED
    BY <2>1, <2>2, <2>3
<1>14. CodedOK'
  <2>1. h.n # 0 /\ left' + h.slice = SlicesPerPicture
    BY <1>2, <1>4, <1>5
  <2>2. sends.ref_frame_num < FrameNums
    BY <1>3 DEF CodedOK
  <2>3. sends'.ref_frame_num < FrameNums /\ (h.nal_ref_idc = 1 => sends'.ref_frame_num = h.frame_num)
    BY <1>5, <1>10, <1>13, <2>2
  <2>4. /\ h.idr => h.idr_pic_id = h.n
        /\ ~h.idr => h.pic_order_cnt_lsb = h.n
        /\ h.nal_ref_idc = 0 => h.delta_pic_order_cnt = h.n
    BY <1>5
  <2>5. QED
    BY <1>2, <1>5, <1>6, <1>13, <2>1, <2>3, <2>4 DEF CodedOK
<1>15. OldSliceOK'
  <2>1. TypeSent' = sps.pic_order_cnt_type
    BY <1>2, <1>6 DEF TypeSent, SentSets
  <2>2. d.old_slice.n # h.n /\ d.old_slice.n <= h.n /\ h.n # 0
    BY <1>4, <1>5, <1>8
  <2>3. KeptIsOlder(d.old_slice)
    BY <1>3 DEF OldSliceOK
  <2> HIDE DEF sps
  <2>4. QED
    BY <1>2, <1>6, <1>9, <2>1, <2>2, <2>3 DEF OldSliceOK
<1>16. LossesOK'
  BY <1>2, <1>3, <1>5, <1>6, <1>10 DEF LossesOK, ReaderTypeOK
<1>17. OpenOK'
  <2>1. d.old_slice.n # h.n
    BY <1>4, <1>5, <1>8
  <2>2. QED
    BY <1>2, <1>3, <1>6, <2>1 DEF OpenOK
<1>18. PicturesOK'
  BY <1>2, <1>3, <1>14, <1>15, <1>16, <1>17 DEF PicturesOK, Kept, Ascending
<1>19. QED
  BY <1>11, <1>12, <1>18 DEF ReaderInv

LEMMA SliceIsLost == ReaderInv /\ LoseSlice => ReaderInv'
<1> SUFFICES ASSUME ReaderInv, LoseSlice PROVE ReaderInv'
  OBVIOUS
<1>1. /\ Running /\ left > 0 /\ part = 0 /\ sends.losses < MaxLosses
      /\ sends' = [sends EXCEPT !.losses = @ + 1] /\ coded' = TheSlice /\ left' = left - 1
      /\ UNCHANGED <<sets, part, d, decoded, stored>>
  BY DEF LoseSlice
<1>2. ReaderTypeOK /\ SetsKept /\ PicturesOK /\ PartitionsOK /\ CodedOK /\ OldSliceOK /\ LossesOK /\ OpenOK
  BY <1>1 DEF ReaderInv, PicturesOK
<1>3. /\ TheSlice \in SliceHeaders /\ left - 1 \in Nat /\ left \in Nat /\ coded.slice \in Nat
      /\ coded.n \in Nat /\ d.old_slice.n \in Nat /\ MaxLosses \in Nat
  <2>1. TheSlice \in SliceHeaders /\ left - 1 \in Nat /\ left \in Nat
    BY <1>1, <1>2, TheSliceIs DEF ReaderTypeOK
  <2>2. coded.slice \in Nat /\ coded.n \in Nat
    BY <1>2 DEF ReaderTypeOK, SliceHeaders
  <2>3. d.old_slice.n \in Nat
    BY <1>1, <1>2, OldIsThere
  <2>4. QED
    BY <2>1, <2>2, <2>3, ReaderBoundsAssumption
<1>4. /\ sends' \in [sets : Nat, losses : Nat, fresh_sps : BOOLEAN, ref_frame_num : Nat, partitioned : BOOLEAN]
      /\ sends'.losses = sends.losses + 1 /\ sends.losses \in Nat /\ sends'.ref_frame_num = sends.ref_frame_num
  BY <1>1, <1>2 DEF ReaderTypeOK
<1>5. CodedOK'
  BY <1>1, <1>2, <1>4, NextSliceCoded
<1>6. ReaderTypeOK'
  BY <1>1, <1>2, <1>3, <1>4 DEF ReaderTypeOK
<1>7. SetsKept' /\ PartitionsOK'
  BY <1>1, <1>2 DEF SetsKept, SetsAreThoseSent, PartitionsOK, PartitionsBelongTogether
<1>8. TypeSent' = TypeSent
  BY <1>1, <1>2, TheSliceIs DEF TypeSent, SentSets
<1>9. OldSliceOK'
  BY <1>1, <1>2, <1>3, <1>8, TheSliceIs DEF OldSliceOK, SamePicture, SameCounts, Differ
<1>10. LossesOK'
  BY <1>1, <1>2, <1>3, <1>4, TheSliceIs DEF LossesOK
<1>11. OpenOK'
  BY <1>1, <1>2, <1>3, TheSliceIs DEF OpenOK, Active
<1>12. PicturesOK'
  BY <1>1, <1>2, <1>5, <1>9, <1>10, <1>11 DEF PicturesOK, Kept, Ascending
<1>13. QED
  BY <1>6, <1>7, <1>12 DEF ReaderInv

LEMMA StreamEnds == ReaderInv /\ EndOfStream => ReaderInv'
<1> SUFFICES ASSUME ReaderInv, EndOfStream PROVE ReaderInv'
  OBVIOUS
<1> DEFINE e == exit_picture(Here)
           q == [e EXCEPT !.d.ended = TRUE]
<1>1. /\ Running /\ left = 0 /\ part = 0 /\ d' = q.d /\ stored' = q.stored
      /\ UNCHANGED <<sets, coded, left, part, sends, decoded>>
  BY DEF EndOfStream, Becomes
<1>2. ReaderTypeOK /\ SetsKept /\ PicturesOK /\ PartitionsOK
  BY DEF ReaderInv
<1>3. Here \in Steps /\ Here.d = d /\ Here.stored = stored
  BY <1>2, HereIs
<1>4. e \in Steps /\ SameRest(e.d, d) /\ SameActive(e.d, d) /\ e.d.dec_picture = NULL /\ e.stored = Closed(Here)
  BY <1>3, ExitPicture
<1>5. /\ Ascending(e.stored) /\ \A x : x \in decoded.slices <=> In(x, e.d.dec_picture, e.stored)
  <2>1. MayClose(e, Here)
    BY <1>4 DEF MayClose
  <2> HIDE DEF e
  <2>2. QED
    BY <1>1, <1>4, <2>1, MayCloseBetween
<1> HIDE DEF e
<1>6. q = [d |-> [e.d EXCEPT !.ended = TRUE], stored |-> e.stored]
  <2>1. q = [e EXCEPT !.d.ended = TRUE]
    OBVIOUS
  <2> HIDE DEF q
  <2>2. e \in Steps
    BY <1>4
  <2>3. QED
    BY <2>1, <2>2 DEF Steps
<1> HIDE DEF q
<1>7. /\ d' = [e.d EXCEPT !.ended = TRUE] /\ stored' = e.stored
  BY <1>1, <1>6
<1>8. /\ d' \in Decoders /\ stored' \in Seq(Pictures) /\ d'.ended = TRUE /\ d'.dec_picture = NULL /\ d'.stopped = d.stopped
      /\ d'.PicParSet = d.PicParSet /\ d'.SeqParSet = d.SeqParSet /\ SameActive(d', d)
  BY <1>4, <1>7 DEF Steps, Decoders, SameRest, SameActive
<1>9. ReaderTypeOK'
  BY <1>1, <1>2, <1>8 DEF ReaderTypeOK
<1>10. SetsKept' /\ PartitionsOK'
  BY <1>1, <1>2, <1>8 DEF SetsKept, SizesOf, SameActive, SetsAreThoseSent, PartitionsOK, PartitionsBelongTogether
<1>11. PicturesOK'
  <2>1. CodedOK' /\ ~Running' /\ (decoded.last # NULL => decoded.last.opened_by.n = decoded.last.slice[1])'
    BY <1>1, <1>2, <1>8 DEF PicturesOK, CodedOK, Running
  <2>2. Kept' /\ Ascending(stored)'
    BY <1>1, <1>4, <1>5, <1>7, <1>8 DEF Kept, Ascending
  <2>3. ~d'.stopped /\ d'.dec_picture = NULL
    BY <1>1, <1>8 DEF Running
  <2>4. QED
    BY <2>1, <2>2, <2>3 DEF PicturesOK
<1>12. QED
  BY <1>9, <1>10, <1>11 DEF ReaderInv

LEMMA ReaderStarts == ReaderInit => ReaderInv
<1> SUFFICES ASSUME ReaderInit PROVE ReaderInv
  OBVIOUS
<1>1. PICK v \in PpsVersions, c \in SpsContents :
          sets = [pps |-> [i \in Ids |-> [sps |-> i, version |-> v]], sps |-> [i \in Ids |-> c]]
  BY DEF ReaderInit
<1>2. PICK dp \in BOOLEAN :
          sends = [sets |-> 0, losses |-> 0, fresh_sps |-> TRUE, ref_frame_num |-> 0, partitioned |-> dp]
  BY DEF ReaderInit
<1>3. /\ coded = NoPicture /\ left = 0 /\ part = 0 /\ decoded = [slices |-> {}, last |-> NULL] /\ stored = <<>>
      /\ d = [PicParSet |-> sets.pps, SeqParSet |-> sets.sps, active_pps |-> NULL, active_sps |-> NULL,
              img_sps |-> NULL, dec_picture |-> NULL, old_slice |-> init_old_slice, img |-> NoPicture,
              partitions |-> <<NULL, NULL, NULL>>, pre_frame_num |-> 0, stopped |-> FALSE, ended |-> FALSE]
  BY DEF ReaderInit
<1>4. sets \in [pps : PicParSets, sps : SeqParSets] /\ sets.pps \in PicParSets /\ sets.sps \in SeqParSets
  BY <1>1 DEF PicParSets, SeqParSets
<1>5. /\ NoPicture \in SliceHeaders /\ NoPicture.n = 0 /\ NoPicture.frame_num = 0 /\ NoPicture.nal_ref_idc = 1
      /\ NoPicture.idr = FALSE /\ KeptIsOlder(NoPicture)
  <2> DEFINE i == CHOOSE i \in Ids : TRUE
  <2>1. i \in Ids
    BY IdsAssumption
  <2>2. NoPicture = [n |-> 0, slice |-> 0, pps |-> i, frame_num |-> 0, field |-> FALSE,
                     bottom |-> FALSE, nal_ref_idc |-> 1, idr |-> FALSE, idr_pic_id |-> 0,
                     pic_order_cnt_lsb |-> 0, delta_pic_order_cnt |-> 0]
    BY DEF NoPicture
  <2> HIDE DEF i
  <2>3. QED
    BY <2>1, <2>2 DEF SliceHeaders, KeptIsOlder
<1>6. init_old_slice \in OldSlices /\ init_old_slice.n = 0 /\ KeptIsOlder(init_old_slice)
  <2>1. NoPicture \in OldSlices
    BY <1>5 DEF SliceHeaders, OldSlices
  <2>2. init_old_slice \in OldSlices
    <3> DEFINE none == -1
    <3>1. none \in Int /\ none \in {-1, 0, 1} /\ none \in Ids \cup {-1}
      OBVIOUS
    <3>2. init_old_slice = [NoPicture EXCEPT !.pps = none, !.frame_num = none, !.nal_ref_idc = none,
                                             !.pic_order_cnt_lsb = none, !.delta_pic_order_cnt = none]
      BY Zenon DEF init_old_slice
    <3> HIDE DEF none
    <3>3. QED
      BY <2>1, <3>1, <3>2 DEF OldSlices
  <2>3. init_old_slice.n = NoPicture.n /\ init_old_slice.idr_pic_id = NoPicture.idr_pic_id
    BY <2>1 DEF init_old_slice, OldSlices
  <2>4. init_old_slice.pic_order_cnt_lsb = -1 /\ init_old_slice.delta_pic_order_cnt = -1
    BY <2>1 DEF init_old_slice, OldSlices
  <2>5. QED
    BY <1>5, <2>2, <2>3, <2>4 DEF KeptIsOlder
<1>7. <<NULL, NULL, NULL>> \in Partitions
  BY DEF Partitions
<1>8. d \in Decoders
  <2> HIDE DEF NoPicture, init_old_slice
  <2> DEFINE ps == <<NULL, NULL, NULL>>
  <2> HIDE DEF ps
  <2>1. QED
    BY <1>3, <1>4, <1>5, <1>6, <1>7 DEF Decoders, ps
<1>9. ReaderTypeOK
  BY <1>2, <1>3, <1>4, <1>5, <1>8 DEF ReaderTypeOK
<1>10. /\ d.PicParSet = sets.pps /\ d.SeqParSet = sets.sps /\ d.active_sps = NULL /\ d.dec_picture = NULL
       /\ d.old_slice = init_old_slice /\ d.ended = FALSE /\ d.stopped = FALSE /\ decoded.last = NULL
       /\ decoded.slices = {} /\ sends.losses = 0 /\ sends.ref_frame_num = 0
  BY <1>2, <1>3
<1>11. SetsKept /\ PartitionsOK
  BY <1>3, <1>10 DEF SetsKept, SizesOf, SetsAreThoseSent, PartitionsOK, PartitionsBelongTogether
<1>12. CodedOK
  BY <1>3, <1>5, <1>10, FrameNumsAssumption DEF CodedOK
<1>13. OldSliceOK /\ LossesOK /\ OpenOK
  BY <1>3, <1>5, <1>6, <1>10, ReaderBoundsAssumption DEF OldSliceOK, LossesOK, OpenOK
<1>14. Kept /\ Ascending(stored)
  BY <1>3, <1>10 DEF Kept, In, Ascending
<1>15. QED
  BY <1>9, <1>10, <1>11, <1>12, <1>13, <1>14 DEF ReaderInv, PicturesOK

LEMMA ReaderStep == SomethingArrives /\ ReaderInv /\ [ReaderNext]_readerVars => ReaderInv'
<1> SUFFICES ASSUME SomethingArrives, ReaderInv, [ReaderNext]_readerVars PROVE ReaderInv'
  OBVIOUS
<1>1. CASE SendSPS
  BY <1>1, SpsComes
<1>2. CASE SendPPS
  BY <1>2, PpsComes
<1>3. CASE NextPicture
  BY <1>3, PictureBegins
<1>4. CASE SLICE
  BY <1>4, SliceComes
<1>5. CASE DPA
  BY <1>5, PartitionAComes
<1>6. CASE DPB
  BY <1>6, PartitionBComes
<1>7. CASE DPC
  BY <1>7, PartitionCComes
<1>8. CASE LoseSlice
  BY <1>8, SliceIsLost
<1>9. CASE LosePartition
  BY <1>9 DEF LosePartition, SomethingArrives
<1>10. CASE EndOfStream
  BY <1>10, StreamEnds
<1>11. CASE UNCHANGED readerVars
  <2>1. /\ sets' = sets /\ coded' = coded /\ left' = left /\ part' = part /\ sends' = sends /\ d' = d
        /\ decoded' = decoded /\ stored' = stored
    BY <1>11 DEF readerVars
  <2>2. ReaderTypeOK /\ SetsKept /\ PicturesOK /\ PartitionsOK
    BY DEF ReaderInv
  <2>3. ReaderTypeOK' /\ SetsKept' /\ PartitionsOK'
    BY <2>1, <2>2 DEF ReaderTypeOK, SetsKept, SetsAreThoseSent, PartitionsOK, PartitionsBelongTogether, Running
  <2>4. CodedOK' /\ (OldSliceOK => OldSliceOK') /\ (LossesOK => LossesOK') /\ (OpenOK => OpenOK')
    BY <2>1, <2>2 DEF PicturesOK, CodedOK, OldSliceOK, TypeSent, LossesOK, OpenOK
  <2>5. PicturesOK'
    BY <2>1, <2>2, <2>4 DEF PicturesOK, Kept, Ascending, Running
  <2>6. QED
    BY <2>3, <2>5 DEF ReaderInv
<1>12. QED
  BY <1>1, <1>2, <1>3, <1>4, <1>5, <1>6, <1>7, <1>8, <1>9, <1>10, <1>11 DEF ReaderNext

(***************************************************************************)
(* The results.                                                            *)
(***************************************************************************)
(* What the invariant says of the properties.  At the end of the stream no *)
(* picture is open, so that every slice decoded is in a stored one.        *)
LEMMA InvariantGives ==
    ReaderInv => SetsAreThoseSent /\ SlicesFindTheirPicture /\ PartitionsBelongTogether
<1> SUFFICES ASSUME ReaderInv PROVE SetsAreThoseSent /\ SlicesFindTheirPicture /\ PartitionsBelongTogether
  OBVIOUS
<1>1. ReaderTypeOK /\ SetsKept /\ PicturesOK /\ PartitionsOK
  BY DEF ReaderInv
<1>2. SetsAreThoseSent /\ PartitionsBelongTogether
  BY <1>1 DEF SetsKept, PartitionsOK
<1>3. ASSUME d.ended PROVE UNION {stored[i].slices : i \in DOMAIN stored} = decoded.slices
  BY <1>1, <1>3 DEF PicturesOK, Kept, In
<1>4. SlicesFindTheirPicture
  BY <1>1, <1>3 DEF PicturesOK, Ascending, SlicesFindTheirPicture
<1>5. QED
  BY <1>2, <1>4

LEMMA ReaderInvHolds == ReaderSpec /\ []SomethingArrives => []ReaderInv
<1>1. ReaderInit => ReaderInv
  BY ReaderStarts
<1>2. SomethingArrives /\ ReaderInv /\ [ReaderNext]_readerVars => ReaderInv'
  BY ReaderStep
<1>3. QED
  BY <1>1, <1>2, PTL DEF ReaderSpec

(* The network of the runs, which loses fewer slices in all than a picture *)
(* has, never loses a picture whole: the hypothesis of the theorems below  *)
(* holds there.                                                            *)
THEOREM FewLosses ==
    ASSUME ~LosePartitions, MaxLosses < SlicesPerPicture
    PROVE  ReaderSpec => []SomethingArrives
<1>1. ReaderInit => ReaderInv
  BY ReaderStarts
<1>2. ReaderInv => SomethingArrives
  BY PictureArrived
<1>3. ReaderInv /\ [ReaderNext]_readerVars => ReaderInv'
  BY <1>2, ReaderStep
<1>4. QED
  BY <1>1, <1>2, <1>3, PTL DEF ReaderSpec

(* Every slice is decoded with the parameter sets sent last before it and  *)
(* with the sizes that belong to them, although ProcessSPS and ProcessPPS  *)
(* overwrite the store in place and activate_sps sets the sizes only when  *)
(* another SPS becomes active.                                             *)
THEOREM SetsAreCurrent == ReaderSpec /\ []SomethingArrives => []SetsAreThoseSent
<1>1. ReaderInv => SetsAreThoseSent
  BY InvariantGives
<1>2. QED
  BY <1>1, ReaderInvHolds, PTL

(* is_new_picture finds every end of a picture and no other: each slice is *)
(* decoded into the picture it was coded in, the pictures are stored in    *)
(* coding order, and at the end nothing decoded is missing, whichever      *)
(* slices are lost as long as no picture is lost whole.                    *)
THEOREM SlicesInTheirPicture == ReaderSpec /\ []SomethingArrives => []SlicesFindTheirPicture
<1>1. ReaderInv => SlicesFindTheirPicture
  BY InvariantGives
<1>2. QED
  BY <1>1, ReaderInvHolds, PTL

(* Where slices are lost with all their partitions, the partitions that    *)
(* read_new_slice puts together are of one slice.                          *)
THEOREM PartitionsAreOwn == ReaderSpec /\ []SomethingArrives => []PartitionsBelongTogether
<1>1. ReaderInv => PartitionsBelongTogether
  BY InvariantGives
<1>2. QED
  BY <1>1, ReaderInvHolds, PTL

(***************************************************************************)
(* The arithmetic coder. The states of a context and the tables.           *)
(***************************************************************************)
States == 0..62
Models == [DOMAIN CtxIni -> States \X {0, 1}]
Contexts == DOMAIN CtxIni \cup {EqProb, FinalBin}

LEMMA LpsRange ==
    ASSUME NEW m \in States \X {0, 1}, NEW r \in QUARTER..HALF - 2
    PROVE  rLPS(m, r) \in 2..240
<1>1. \A i \in 1..64 : \A j \in 1..4 : rLPS_table_64x4[i][j] \in 2..240
  BY SMTT(120) DEF rLPS_table_64x4
<1>2. m[1] + 1 \in 1..64 /\ ((r \div 64) % 4) + 1 \in 1..4
  BY DEF States, QUARTER, HALF
<1> QED BY <1>1, <1>2 DEF rLPS

LEMMA MovedModel ==
    ASSUME NEW m \in States \X {0, 1}, NEW bin \in {0, 1}
    PROVE  Moved(m, bin) \in States \X {0, 1}
<1>1. \A i \in 1..63 : AC_next_state_LPS_64[i] \in States
  BY SMTT(60) DEF AC_next_state_LPS_64, States
<1>2. m[1] \in States /\ m[2] \in {0, 1} /\ AC_next_state_LPS_64[m[1] + 1] \in States
  BY <1>1, SMTT(30) DEF States
<1>3. AC_next_state_MPS_64(m[1]) \in States
  BY <1>2 DEF AC_next_state_MPS_64, States
<1> QED BY <1>2, <1>3 DEF Moved

LEMMA StartModels == init_contexts \in Models
<1> SUFFICES ASSUME NEW c \in DOMAIN CtxIni
             PROVE  biari_init_context(CtxIni[c]) \in States \X {0, 1}
  BY DEF init_contexts, Models
<1> DEFINE ini == CtxIni[c]
           p == ((ini[1] * Qp) \div 16) + ini[2]
<1>1. ini[1] \in Int /\ ini[2] \in Int /\ Qp \in Int
  BY CoderAssumption
<1>2. ini[1] * Qp \in Int
  BY <1>1
<1>3. p \in Int
  BY <1>1, <1>2
<1>4. biari_init_context(ini) = LET pstate == IF p < 1 THEN 1 ELSE IF p > 126 THEN 126 ELSE p
                                IN  IF pstate >= 64 THEN <<pstate - 64, 1>> ELSE <<63 - pstate, 0>>
  BY DEF biari_init_context
<1> HIDE DEF p, ini
<1>5. biari_init_context(ini) \in States \X {0, 1}
  BY <1>3, <1>4 DEF States
<1> QED BY <1>5 DEF ini

-----------------------------------------------------------------------------
(* Where the encoder is in its codeword: so many bits are settled, the first  *)
(* and redundant one among them, so many are to follow, and low is what the   *)
(* ten bits from the last one on must not be below.                           *)
CoderState ==
    {e \in [low : Nat, range : Nat, follow : Nat, first : BOOLEAN, bits : Seq({0, 1}), models : Models] :
        e.first => e.bits = <<>>}

Place(e) == IF e.first THEN 0 ELSE Len(e.bits) + 1
At(e) == Place(e) + e.follow + 10
Window(e, w) == HALF * BitAt(w, Place(e)) + Nine(w, Place(e) + e.follow + 1)

\* The codeword w has the bits that are written, and those to follow.
Agrees(e, w) ==
    /\ \A i \in 1..Len(e.bits) : BitAt(w, i) = e.bits[i]
    /\ \A i \in 1..e.follow : BitAt(w, Place(e) + i) = 1 - BitAt(w, Place(e))

Fits(e, w) == Agrees(e, w) /\ e.low <= Window(e, w) /\ Window(e, w) < e.low + e.range

LEMMA BitIs ==
    ASSUME NEW w \in Seq({0, 1}), NEW i \in Int
    PROVE  BitAt(w, i) \in {0, 1} /\ (i <= 0 => BitAt(w, i) = 0)
BY DEF BitAt

LEMMA CoderFields ==
    ASSUME NEW e \in CoderState
    PROVE  /\ e.low \in Nat /\ e.range \in Nat /\ e.follow \in Nat /\ e.first \in BOOLEAN
           /\ e.bits \in Seq({0, 1}) /\ e.models \in Models
           /\ e.first => e.bits = <<>>
           /\ Len(e.bits) \in Nat /\ Place(e) \in Nat /\ Len(e.bits) <= Place(e)
           /\ e.first => Place(e) = 0 /\ Len(e.bits) = 0
           /\ ~e.first => Place(e) = Len(e.bits) + 1
<1>1. /\ e.low \in Nat /\ e.range \in Nat /\ e.follow \in Nat /\ e.first \in BOOLEAN
      /\ e.bits \in Seq({0, 1}) /\ e.models \in Models
      /\ e.first => e.bits = <<>>
  BY DEF CoderState
<1>2. Len(e.bits) \in Nat
  BY <1>1
<1>3. CASE e.first
  <2>1. Place(e) = 0 /\ Len(e.bits) = 0
    BY <1>1, <1>3 DEF Place
  <2> QED BY <1>1, <1>2, <1>3, <2>1
<1>4. CASE ~e.first
  <2>1. Place(e) = Len(e.bits) + 1
    BY <1>4 DEF Place
  <2> QED BY <1>1, <1>2, <1>4, <2>1
<1> QED BY <1>3, <1>4

LEMMA PutIs ==
    ASSUME NEW e \in CoderState, NEW b \in {0, 1}, NEW t, t = put_one_bit_plus_outstanding(e, b)
    PROVE  /\ t \in CoderState
           /\ t.low = e.low /\ t.range = e.range /\ t.models = e.models /\ t.follow = 0 /\ ~t.first
           /\ Len(t.bits) = Place(e) + e.follow
           /\ \A i \in 1..Len(e.bits) : t.bits[i] = e.bits[i]
           /\ ~e.first => t.bits[Place(e)] = b
           /\ \A i \in 1..e.follow : t.bits[Place(e) + i] = 1 - b
<1> DEFINE head == IF e.first THEN e.bits ELSE Append(e.bits, b)
           tail == [i \in 1..e.follow |-> 1 - b]
           n == e.follow
           p == Place(e)
           l == Len(e.bits)
<1>1. n \in Nat /\ l \in Nat /\ p \in Nat /\ l <= p
  BY CoderFields
<1>2. /\ head \in Seq({0, 1}) /\ Len(head) = p
      /\ \A i \in 1..l : head[i] = e.bits[i]
      /\ ~e.first => p \in 1..p /\ head[p] = b
  <2>1. CASE e.first
    BY <2>1, CoderFields
  <2>2. CASE ~e.first
    <3>1. head = Append(e.bits, b) /\ p = l + 1 /\ e.bits \in Seq({0, 1})
      BY <2>2, CoderFields
    <3> QED BY <3>1, <1>1
  <2> QED BY <2>1, <2>2
<1>3. tail \in Seq({0, 1}) /\ Len(tail) = n /\ \A i \in 1..n : tail[i] = 1 - b
  BY <1>1
<1>4. t = [e EXCEPT !.bits = head \o tail, !.first = FALSE, !.follow = 0]
  BY DEF put_one_bit_plus_outstanding
<1> HIDE DEF head, tail
<1>5. head \o tail \in Seq({0, 1})
  BY <1>2, <1>3
<1>6. /\ t \in CoderState /\ t.bits = head \o tail
      /\ t.low = e.low /\ t.range = e.range /\ t.models = e.models /\ t.follow = 0 /\ ~t.first
  <2>1. e \in [low : Nat, range : Nat, follow : Nat, first : BOOLEAN, bits : Seq({0, 1}), models : Models]
    BY DEF CoderState
  <2>2. /\ t.bits = head \o tail /\ t.low = e.low /\ t.range = e.range /\ t.models = e.models
        /\ t.follow = 0 /\ ~t.first
    BY <1>4, <2>1
  <2>3. t \in [low : Nat, range : Nat, follow : Nat, first : BOOLEAN, bits : Seq({0, 1}), models : Models]
    <3>1. t = [low |-> e.low, range |-> e.range, follow |-> 0, first |-> FALSE, bits |-> head \o tail, models |-> e.models]
      BY <1>4, <2>1
    <3>2. e.low \in Nat /\ e.range \in Nat /\ e.models \in Models
      BY <2>1
    <3> QED BY <1>5, <3>1, <3>2
  <2> QED BY <2>2, <2>3 DEF CoderState
<1> HIDE DEF n, p, l
<1>7. /\ Len(head \o tail) = p + n
      /\ \A i \in 1..p : (head \o tail)[i] = head[i]
      /\ \A i \in 1..n : (head \o tail)[p + i] = tail[i]
  BY <1>1, <1>2, <1>3
<1>8. \A i \in 1..l : t.bits[i] = e.bits[i]
  BY <1>1, <1>2, <1>6, <1>7
<1>9. ~e.first => t.bits[p] = b
  BY <1>2, <1>6, <1>7
<1>10. \A i \in 1..n : t.bits[p + i] = 1 - b
  BY <1>3, <1>6, <1>7
<1> QED BY <1>6, <1>7, <1>8, <1>9, <1>10 DEF n, p, l

\* What must follow a bit that is put.
LEMMA PutAgrees ==
    ASSUME NEW e \in CoderState, NEW b \in {0, 1}, e.first => b = 0, NEW w \in Seq({0, 1}),
           NEW t, t = put_one_bit_plus_outstanding(e, b), Agrees(t, w)
    PROVE  /\ Agrees(e, w) /\ BitAt(w, Place(e)) = b
           /\ Place(t) = Place(e) + e.follow + 1
<1> DEFINE n == e.follow
           p == Place(e)
           l == Len(e.bits)
<1>1. n \in Nat /\ l \in Nat /\ p \in Nat /\ l <= p /\ (~e.first => p \in 1..p) /\ (e.first => p = 0)
  BY CoderFields
<1>2. /\ t.follow = 0 /\ ~t.first /\ Len(t.bits) = p + n
      /\ \A i \in 1..l : t.bits[i] = e.bits[i]
      /\ ~e.first => t.bits[p] = b
      /\ \A i \in 1..n : t.bits[p + i] = 1 - b
  BY PutIs
<1>3. Place(t) = p + n + 1
  BY <1>2 DEF Place
<1> HIDE DEF n, p, l
<1>4. \A i \in 1..p + n : BitAt(w, i) = t.bits[i]
  BY <1>2 DEF Agrees
<1>5. \A i \in 1..l : BitAt(w, i) = e.bits[i]
  BY <1>1, <1>2, <1>4
<1>6. \A i \in 1..n : BitAt(w, p + i) = 1 - b
  <2>1. TAKE i \in 1..n
  <2>2. p + i \in 1..p + n
    BY <1>1, <2>1
  <2>3. BitAt(w, p + i) = t.bits[p + i]
    BY <1>4, <2>2
  <2> QED BY <1>2, <2>1, <2>3
<1>7. BitAt(w, p) = b
  <2>1. CASE ~e.first
    BY <2>1, <1>1, <1>2, <1>4
  <2>2. CASE e.first
    BY <2>2, <1>1, BitIs
  <2> QED BY <2>1, <2>2
<1> QED BY <1>3, <1>5, <1>6, <1>7 DEF Agrees, n, p, l

LEMMA PlaceAfterPut ==
    ASSUME NEW e \in CoderState, NEW b \in {0, 1}, NEW t, t = put_one_bit_plus_outstanding(e, b)
    PROVE  Place(t) = Place(e) + e.follow + 1 /\ At(t) = At(e) + 1
<1>1. Len(t.bits) = Place(e) + e.follow /\ ~t.first /\ t.follow = 0
  BY PutIs
<1>2. Place(t) = Place(e) + e.follow + 1
  BY <1>1 DEF Place
<1>3. Place(e) \in Nat /\ e.follow \in Nat
  BY CoderFields
<1> QED BY <1>1, <1>2, <1>3 DEF At

\* One more bit to follow.
Followed(e, q) == [e EXCEPT !.follow = @ + 1, !.low = @ - q]

LEMMA FollowAgrees ==
    ASSUME NEW e \in CoderState, NEW q \in Nat, e.low >= q, NEW t, t = Followed(e, q)
    PROVE  /\ t \in CoderState
           /\ t.low = e.low - q /\ t.range = e.range /\ t.models = e.models /\ t.follow = e.follow + 1
           /\ (t.first <=> e.first) /\ t.bits = e.bits
           /\ Place(t) = Place(e) /\ At(t) = At(e) + 1
           /\ \A w \in Seq({0, 1}) :
                 Agrees(t, w) => Agrees(e, w) /\ BitAt(w, Place(e) + e.follow + 1) = 1 - BitAt(w, Place(e))
<1>1. /\ e.low \in Nat /\ e.range \in Nat /\ e.follow \in Nat /\ e.first \in BOOLEAN
      /\ e.bits \in Seq({0, 1}) /\ e.models \in Models
  BY CoderFields
<1>2. e \in [low : Nat, range : Nat, follow : Nat, first : BOOLEAN, bits : Seq({0, 1}), models : Models]
  BY DEF CoderState
<1>3. t = [low |-> e.low - q, range |-> e.range, follow |-> e.follow + 1, first |-> e.first,
           bits |-> e.bits, models |-> e.models]
  BY <1>2 DEF Followed
<1>4. e.low - q \in Nat /\ e.follow + 1 \in Nat
  BY <1>1
<1>5. t \in [low : Nat, range : Nat, follow : Nat, first : BOOLEAN, bits : Seq({0, 1}), models : Models]
  BY <1>1, <1>3, <1>4
<1>6. /\ t.low = e.low - q /\ t.range = e.range /\ t.models = e.models /\ t.follow = e.follow + 1
      /\ (t.first <=> e.first) /\ t.bits = e.bits
  BY <1>3
<1>7. t \in CoderState
  BY <1>5, <1>6 DEF CoderState
<1>8. Place(t) = Place(e)
  BY <1>6 DEF Place
<1>9. Place(e) \in Nat
  BY CoderFields
<1>10. At(t) = At(e) + 1
  BY <1>1, <1>6, <1>8, <1>9 DEF At
<1>11. ASSUME NEW w \in Seq({0, 1}), Agrees(t, w)
       PROVE  Agrees(e, w) /\ BitAt(w, Place(e) + e.follow + 1) = 1 - BitAt(w, Place(e))
  <2>1. \A i \in 1..Len(e.bits) : BitAt(w, i) = e.bits[i]
    BY <1>6, <1>11 DEF Agrees
  <2>2. \A i \in 1..e.follow + 1 : BitAt(w, Place(e) + i) = 1 - BitAt(w, Place(e))
    BY <1>6, <1>8, <1>11 DEF Agrees
  <2>3. /\ e.follow + 1 \in 1..e.follow + 1 /\ \A i \in 1..e.follow : i \in 1..e.follow + 1
        /\ Place(e) + e.follow + 1 = Place(e) + (e.follow + 1)
    <3>1. e.follow \in Nat
      BY <1>1
    <3> QED BY <3>1, <1>9
  <2> QED BY <2>1, <2>2, <2>3 DEF Agrees
<1> QED BY <1>6, <1>7, <1>8, <1>10, <1>11

LEMMA NineShifts ==
    ASSUME NEW w \in Seq({0, 1}), NEW i \in Nat
    PROVE  /\ Nine(w, i) \in 0..511
           /\ HALF * BitAt(w, i) + Nine(w, i + 1) = 2 * Nine(w, i) + BitAt(w, i + 9)
<1>1. PICK b0 \in 0..1 : b0 = BitAt(w, i + 0)
  BY BitIs
<1>2. PICK b1 \in 0..1 : b1 = BitAt(w, i + 1)
  BY BitIs
<1>3. PICK b2 \in 0..1 : b2 = BitAt(w, i + 2)
  BY BitIs
<1>4. PICK b3 \in 0..1 : b3 = BitAt(w, i + 3)
  BY BitIs
<1>5. PICK b4 \in 0..1 : b4 = BitAt(w, i + 4)
  BY BitIs
<1>6. PICK b5 \in 0..1 : b5 = BitAt(w, i + 5)
  BY BitIs
<1>7. PICK b6 \in 0..1 : b6 = BitAt(w, i + 6)
  BY BitIs
<1>8. PICK b7 \in 0..1 : b7 = BitAt(w, i + 7)
  BY BitIs
<1>9. PICK b8 \in 0..1 : b8 = BitAt(w, i + 8)
  BY BitIs
<1>10. PICK b9 \in 0..1 : b9 = BitAt(w, i + 9)
  BY BitIs
<1>11. Nine(w, i) = 256 * b0 + 128 * b1 + 64 * b2 + 32 * b3 + 16 * b4 + 8 * b5 + 4 * b6 + 2 * b7 + b8
  BY <1>1, <1>2, <1>3, <1>4, <1>5, <1>6, <1>7, <1>8, <1>9 DEF Nine
<1>12. Nine(w, i + 1) = 256 * b1 + 128 * b2 + 64 * b3 + 32 * b4 + 16 * b5 + 8 * b6 + 4 * b7 + 2 * b8 + b9
  <2>1. /\ i + 1 + 0 = i + 1 /\ i + 1 + 1 = i + 2 /\ i + 1 + 2 = i + 3 /\ i + 1 + 3 = i + 4 /\ i + 1 + 4 = i + 5
        /\ i + 1 + 5 = i + 6 /\ i + 1 + 6 = i + 7 /\ i + 1 + 7 = i + 8 /\ i + 1 + 8 = i + 9
    OBVIOUS
  <2> QED BY <2>1, <1>2, <1>3, <1>4, <1>5, <1>6, <1>7, <1>8, <1>9, <1>10 DEF Nine
<1>13. 512 * b0 + Nine(w, i + 1) = 2 * Nine(w, i) + b9
  BY <1>11, <1>12
<1>14. Nine(w, i) \in 0..511
  BY <1>11
<1> QED BY <1>1, <1>10, <1>13, <1>14 DEF HALF

\* One shift of low by twice, once or none of q: the window moves on by one bit.
ShiftsBy(e, q, t, k) ==
    /\ t \in CoderState /\ t.range = e.range /\ t.models = e.models /\ At(t) = At(e) + 1
    /\ \/ k = 0 /\ e.low < q /\ t.low = e.low /\ ~t.first
       \/ k = 1 /\ e.low >= q /\ e.low < 2 * q /\ t.low = e.low - q /\ (t.first <=> e.first)
       \/ k = 2 /\ e.low >= 2 * q /\ t.low = e.low - 2 * q /\ ~t.first
    /\ \A w \in Seq({0, 1}) :
          Agrees(t, w) => Agrees(e, w) /\ Window(t, w) = 2 * Window(e, w) + BitAt(w, At(e)) - HALF * k

LEMMA WindowMoves ==
    ASSUME NEW e \in CoderState, NEW w \in Seq({0, 1}), NEW p \in Nat, p = Place(e) + e.follow + 1
    PROVE  HALF * BitAt(w, p) + Nine(w, p + 1) = 2 * Nine(w, p) + BitAt(w, At(e))
<1>1. At(e) = p + 9
  <2>1. Place(e) \in Nat /\ e.follow \in Nat
    BY CoderFields
  <2> QED BY <2>1 DEF At
<1> QED BY <1>1, NineShifts, ZenonT(60)

LEMMA PutShifts ==
    ASSUME NEW e \in CoderState, NEW b \in {0, 1}, e.first => b = 0, NEW w \in Seq({0, 1}),
           NEW t, t = put_one_bit_plus_outstanding(e, b), Agrees(t, w)
    PROVE  Agrees(e, w) /\ Window(t, w) = 2 * Window(e, w) + BitAt(w, At(e)) - 1024 * b
<1> DEFINE p == Place(e) + e.follow + 1
<1>1. Agrees(e, w) /\ BitAt(w, Place(e)) = b /\ Place(t) = p
  BY PutAgrees
<1>2. p \in Nat
  <2>1. Place(e) \in Nat /\ e.follow \in Nat
    BY CoderFields
  <2> QED BY <2>1
<1>3. t.follow = 0
  BY PutIs
<1>4. Window(e, w) = HALF * b + Nine(w, p)
  BY <1>1 DEF Window
<1> HIDE DEF p
<1>5. Window(t, w) = HALF * BitAt(w, p) + Nine(w, p + 1)
  <2>1. p + 0 + 1 = p + 1
    BY <1>2
  <2> QED BY <1>1, <1>3, <2>1 DEF Window
<1>6. HALF * BitAt(w, p) + Nine(w, p + 1) = 2 * Nine(w, p) + BitAt(w, At(e))
  BY <1>2, WindowMoves DEF p
<1>7. Nine(w, p) \in 0..511 /\ BitAt(w, At(e)) \in {0, 1}
  <2>1. At(e) \in Int
    <3>1. Place(e) \in Nat /\ e.follow \in Nat
      BY CoderFields
    <3> QED BY <3>1 DEF At
  <2>2. Nine(w, p) \in 0..511
    BY <1>2, NineShifts, ZenonT(60)
  <2>3. BitAt(w, At(e)) \in {0, 1}
    BY <2>1, BitIs
  <2> QED BY <2>2, <2>3
<1>8. Window(t, w) = 2 * Window(e, w) + BitAt(w, At(e)) - 1024 * b
  <2>1. PICK n \in 0..511, c \in {0, 1} : n = Nine(w, p) /\ c = BitAt(w, At(e))
    BY <1>7
  <2>2. Window(e, w) = 512 * b + n
    BY <1>4, <2>1 DEF HALF
  <2>3. Window(t, w) = 2 * n + c
    BY <1>5, <1>6, <2>1
  <2> QED BY <2>1, <2>2, <2>3
<1> QED BY <1>1, <1>8

LEMMA FollowShifts ==
    ASSUME NEW e \in CoderState, NEW q \in Nat, e.low >= q, NEW w \in Seq({0, 1}),
           NEW t, t = Followed(e, q), Agrees(t, w)
    PROVE  Agrees(e, w) /\ Window(t, w) = 2 * Window(e, w) + BitAt(w, At(e)) - 512
<1> DEFINE p == Place(e) + e.follow + 1
           b == BitAt(w, Place(e))
<1>1. Agrees(e, w) /\ BitAt(w, p) = 1 - b /\ Place(t) = Place(e) /\ t.follow = e.follow + 1
  BY FollowAgrees
<1>2. Place(e) \in Nat /\ e.follow \in Nat /\ p \in Nat /\ b \in {0, 1}
  <2>1. Place(e) \in Nat /\ e.follow \in Nat
    BY CoderFields
  <2> QED BY <2>1, BitIs
<1>3. Window(e, w) = HALF * b + Nine(w, p)
  BY DEF Window
<1>4. Window(t, w) = HALF * b + Nine(w, p + 1)
  <2>1. Place(e) + (e.follow + 1) + 1 = p + 1
    BY <1>2
  <2> QED BY <1>1, <2>1 DEF Window
<1> HIDE DEF p, b
<1>5. HALF * BitAt(w, p) + Nine(w, p + 1) = 2 * Nine(w, p) + BitAt(w, At(e))
  BY <1>2, WindowMoves DEF p
<1>6. Nine(w, p) \in 0..511 /\ Nine(w, p + 1) \in 0..511 /\ BitAt(w, At(e)) \in {0, 1}
  <2>1. At(e) \in Int /\ p + 1 \in Nat
    BY <1>2 DEF At
  <2>2. Nine(w, p) \in 0..511 /\ Nine(w, p + 1) \in 0..511
    BY <1>2, <2>1, NineShifts, ZenonT(60)
  <2>3. BitAt(w, At(e)) \in {0, 1}
    BY <2>1, BitIs
  <2> QED BY <2>2, <2>3
<1>7. Window(t, w) = 2 * Window(e, w) + BitAt(w, At(e)) - 512
  <2>1. PICK n \in 0..511, m \in 0..511, c \in {0, 1}, f \in {0, 1} :
            n = Nine(w, p) /\ m = Nine(w, p + 1) /\ c = BitAt(w, At(e)) /\ f = b
    BY <1>2, <1>6, ZenonT(60)
  <2>2. Window(e, w) = 512 * f + n /\ Window(t, w) = 512 * f + m
    BY <1>3, <1>4, <2>1 DEF HALF
  <2>3. 512 * (1 - f) + m = 2 * n + c
    BY <1>1, <1>5, <2>1 DEF HALF
  <2>4. 512 * f + m = 2 * (512 * f + n) + c - 512
    BY <2>3
  <2> QED BY <2>1, <2>2, <2>4
<1> QED BY <1>1, <1>7

LEMMA ShiftedIs ==
    ASSUME NEW e \in CoderState, NEW q \in Nat, e.first => e.low < 2 * q
    PROVE  \E k \in 0..2 : ShiftsBy(e, q, Shifted(e, 2 * q, q), k)
<1> DEFINE t == Shifted(e, 2 * q, q)
<1>1. e.low \in Nat
  BY CoderFields
<1>2. CASE e.low >= 2 * q
  <2> DEFINE u == put_one_bit_plus_outstanding(e, 1)
  <2>1. ~e.first
    BY <1>1, <1>2
  <2>2. t = [u EXCEPT !.low = e.low - 2 * q]
    BY <1>1, <1>2 DEF Shifted
  <2>3. u \in CoderState /\ u.range = e.range /\ u.models = e.models /\ ~u.first /\ At(u) = At(e) + 1
    BY PutIs, PlaceAfterPut
  <2> HIDE DEF u
  <2>4. e.low - 2 * q \in Nat
    BY <1>1, <1>2
  <2>5. /\ t \in CoderState /\ t.range = u.range /\ t.models = u.models /\ t.low = e.low - 2 * q
        /\ t.bits = u.bits /\ (t.first <=> u.first) /\ t.follow = u.follow
    BY <2>2, <2>3, <2>4 DEF CoderState
  <2>6. Place(t) = Place(u) /\ At(t) = At(u)
    BY <2>5 DEF Place, At
  <2>7. ASSUME NEW w \in Seq({0, 1}), Agrees(t, w)
        PROVE  Agrees(e, w) /\ Window(t, w) = 2 * Window(e, w) + BitAt(w, At(e)) - HALF * 2
    <3>1. Agrees(u, w) /\ Window(t, w) = Window(u, w)
      BY <2>5, <2>6, <2>7 DEF Agrees, Window
    <3>2. Agrees(e, w) /\ Window(u, w) = 2 * Window(e, w) + BitAt(w, At(e)) - 1024 * 1
      BY <2>1, <2>7, <3>1, PutShifts DEF u
    <3> QED BY <3>1, <3>2 DEF HALF
  <2>8. ShiftsBy(e, q, t, 2)
    BY <1>2, <2>3, <2>5, <2>6, <2>7 DEF ShiftsBy
  <2> QED BY <2>8
<1>3. CASE e.low < q
  <2>1. t = put_one_bit_plus_outstanding(e, 0)
    BY <1>1, <1>3 DEF Shifted
  <2>2. t \in CoderState /\ t.range = e.range /\ t.models = e.models /\ ~t.first /\ t.low = e.low /\ At(t) = At(e) + 1
    BY <2>1, PutIs, PlaceAfterPut
  <2>3. ASSUME NEW w \in Seq({0, 1}), Agrees(t, w)
        PROVE  Agrees(e, w) /\ Window(t, w) = 2 * Window(e, w) + BitAt(w, At(e)) - HALF * 0
    <3>1. Agrees(e, w) /\ Window(t, w) = 2 * Window(e, w) + BitAt(w, At(e)) - 1024 * 0
      BY <2>1, <2>3, PutShifts
    <3> QED BY <3>1 DEF HALF
  <2>4. ShiftsBy(e, q, t, 0)
    BY <1>3, <2>2, <2>3 DEF ShiftsBy
  <2> QED BY <2>4
<1>4. CASE e.low >= q /\ e.low < 2 * q
  <2>1. t = Followed(e, q)
    BY <1>1, <1>4 DEF Shifted, Followed
  <2>2. /\ t \in CoderState /\ t.range = e.range /\ t.models = e.models /\ (t.first <=> e.first) /\ t.low = e.low - q
        /\ At(t) = At(e) + 1
    BY <1>4, <2>1, FollowAgrees
  <2>3. ASSUME NEW w \in Seq({0, 1}), Agrees(t, w)
        PROVE  Agrees(e, w) /\ Window(t, w) = 2 * Window(e, w) + BitAt(w, At(e)) - HALF * 1
    <3>1. Agrees(e, w) /\ Window(t, w) = 2 * Window(e, w) + BitAt(w, At(e)) - 512
      BY <1>4, <2>1, <2>3, FollowShifts
    <3> QED BY <3>1 DEF HALF
  <2>4. ShiftsBy(e, q, t, 1)
    BY <1>4, <2>2, <2>3 DEF ShiftsBy
  <2> QED BY <2>4
<1> QED BY <1>1, <1>2, <1>3, <1>4

-----------------------------------------------------------------------------
(* The interval stays within its ten bits, and within nine until the first   *)
(* bit is put.                                                               *)
Within(e) ==
    /\ e \in CoderState /\ e.range \in 2..HALF - 2
    /\ e.low + e.range <= ONE
    /\ e.first => e.low + e.range <= HALF

Ready(e) == Within(e) /\ e.range >= QUARTER

DecoderState == [value : Int, range : Nat, at : Nat, bits : Seq({0, 1}), bin : {0, 1}, models : Models]

\* The decoder is where the encoder was, with how far the codeword is above low.
Tracks(e, dec, w) ==
    /\ dec \in DecoderState /\ dec.bits = w /\ dec.at = At(e)
    /\ dec.range = e.range /\ dec.models = e.models
    /\ dec.value = Window(e, w) - e.low

\* A codeword for what comes after is one for what comes before, and the decoder keeps up.
Follows(e, t, dec, u, w) ==
    Fits(t, w) => Fits(e, w) /\ (Tracks(e, dec, w) => Tracks(t, u, w) /\ u.bin = dec.bin)

LEMMA FollowsOn ==
    ASSUME NEW e, NEW s, NEW t, NEW dec, NEW c, NEW u, NEW w, Follows(e, s, dec, c, w), Follows(s, t, c, u, w)
    PROVE  Follows(e, t, dec, u, w)
BY DEF Follows

LEMMA WindowIsInt ==
    ASSUME NEW e \in CoderState, NEW w \in Seq({0, 1})
    PROVE  Window(e, w) \in Nat /\ At(e) \in Nat /\ BitAt(w, At(e)) \in {0, 1}
<1>1. Place(e) \in Nat /\ e.follow \in Nat
  BY CoderFields
<1>2. Place(e) + e.follow + 1 \in Nat /\ At(e) \in Nat
  BY <1>1 DEF At
<1>3. PICK n \in 0..511 : n = Nine(w, Place(e) + e.follow + 1)
  BY <1>2, NineShifts, ZenonT(60)
<1>4. PICK b \in {0, 1} : b = BitAt(w, Place(e))
  BY <1>1, BitIs
<1>5. Window(e, w) = 512 * b + n
  BY <1>3, <1>4 DEF Window, HALF
<1>6. Window(e, w) \in Nat
  BY <1>5
<1> QED BY <1>2, <1>6, BitIs

LEMMA ShiftInIs ==
    ASSUME NEW dec \in DecoderState
    PROVE  /\ ShiftIn(dec) \in DecoderState /\ ShiftIn(dec).bits = dec.bits /\ ShiftIn(dec).at = dec.at + 1
           /\ ShiftIn(dec).range = dec.range /\ ShiftIn(dec).models = dec.models /\ ShiftIn(dec).bin = dec.bin
           /\ ShiftIn(dec).value = 2 * dec.value + NextBit(dec)
<1>1. dec.at \in Nat /\ dec.value \in Int /\ dec.bits \in Seq({0, 1})
  BY DEF DecoderState
<1>2. NextBit(dec) \in {0, 1}
  BY <1>1, BitIs DEF NextBit
<1>3. 2 * dec.value + NextBit(dec) \in Int /\ dec.at + 1 \in Nat
  BY <1>1, <1>2
<1>4. ShiftIn(dec) = [dec EXCEPT !.value = 2 * dec.value + NextBit(dec), !.at = dec.at + 1]
  BY DEF ShiftIn
<1> QED BY <1>3, <1>4 DEF DecoderState

LEMMA DoubledIs ==
    ASSUME NEW e, Within(e), e.range < QUARTER, NEW t, t = Doubled(e)
    PROVE  /\ Within(t) /\ t.models = e.models /\ t.range = 2 * e.range
           /\ \E k \in 0..2 : t.low = 2 * e.low - 512 * k
           /\ \A w \in Seq({0, 1}) : \A dec : Follows(e, t, dec, Refill(dec), w)
<1> DEFINE s == Shifted(e, HALF, QUARTER)
<1>1. e \in CoderState /\ e.low \in Nat /\ e.range \in 2..255 /\ e.low + e.range <= 1024
  <2>1. e \in CoderState /\ e.range \in 2..510 /\ e.low + e.range <= 1024 /\ e.range < 256
    BY DEF Within, QUARTER, HALF, ONE
  <2>2. e.low \in Nat
    BY <2>1, CoderFields
  <2>3. e.range \in 2..255
    BY <2>1
  <2> QED BY <2>1, <2>2, <2>3
<1>2. e.first => e.low + e.range <= 512
  BY DEF Within, HALF
<1>3. PICK k \in 0..2 : ShiftsBy(e, QUARTER, s, k)
  <2>1. QUARTER \in Nat /\ HALF = 2 * QUARTER
    BY DEF HALF, QUARTER
  <2>2. e.first => e.low < 2 * QUARTER
    BY <1>1, <1>2 DEF QUARTER
  <2> QED BY <1>1, <2>1, <2>2, ShiftedIs
<1>4. /\ s \in CoderState /\ s.range = e.range /\ s.models = e.models /\ At(s) = At(e) + 1
      /\ s.first => e.first /\ k = 1
  BY <1>3 DEF ShiftsBy
<1>5. s.low = e.low - 256 * k /\ s.low \in Nat /\ (k = 0 => e.low < 256) /\ (k = 1 => e.low < 512)
  <2>1. \/ k = 0 /\ e.low < 256 /\ s.low = e.low
        \/ k = 1 /\ e.low >= 256 /\ e.low < 512 /\ s.low = e.low - 256
        \/ k = 2 /\ e.low >= 512 /\ s.low = e.low - 512
    BY <1>3 DEF ShiftsBy, QUARTER
  <2> QED BY <1>1, <2>1
<1>6. t = [s EXCEPT !.low = 2 * @, !.range = 2 * @]
  <2>1. ~(e.range >= QUARTER)
    BY <1>1 DEF QUARTER
  <2> QED BY <2>1, Zenon DEF Doubled
<1> HIDE DEF s
<1>7. /\ t \in CoderState /\ t.low = 2 * s.low /\ t.range = 2 * e.range /\ t.models = s.models
      /\ t.follow = s.follow /\ t.bits = s.bits /\ (t.first <=> s.first)
  <2>1. 2 * s.low \in Nat /\ 2 * s.range \in Nat
    BY <1>1, <1>4, <1>5
  <2> QED BY <1>4, <1>6, <2>1 DEF CoderState
<1>8. Place(t) = Place(s) /\ At(t) = At(s)
  BY <1>7 DEF Place, At
<1>9. t.low = 2 * e.low - 512 * k
  BY <1>1, <1>5, <1>7
<1>10. Within(t)
  <2>1. t.range \in 2..510 /\ t.low + t.range <= 1024
    BY <1>1, <1>5, <1>7, <1>9
  <2>2. t.first => t.low + t.range <= 512
    <3>1. CASE t.first
      <4>1. k = 1 /\ e.low + e.range <= 512
        BY <1>2, <1>4, <1>7, <3>1
      <4> QED BY <1>1, <1>7, <1>9, <4>1
    <3> QED BY <3>1
  <2> QED BY <1>7, <2>1, <2>2 DEF Within, HALF, ONE
<1>11. ASSUME NEW w \in Seq({0, 1}), NEW dec, Fits(t, w)
       PROVE  Fits(e, w) /\ (Tracks(e, dec, w) => Tracks(t, Refill(dec), w) /\ Refill(dec).bin = dec.bin)
  <2>1. Agrees(s, w) /\ Window(t, w) = Window(s, w)
    BY <1>7, <1>8, <1>11 DEF Fits, Agrees, Window
  <2>2. Agrees(e, w) /\ Window(s, w) = 2 * Window(e, w) + BitAt(w, At(e)) - 512 * k
    BY <1>3, <2>1 DEF ShiftsBy, HALF
  <2>3. PICK a \in Nat, b \in {0, 1} : a = Window(e, w) /\ b = BitAt(w, At(e))
    BY <1>1, WindowIsInt
  <2>4. Window(t, w) = 2 * a + b - 512 * k
    BY <2>1, <2>2, <2>3
  <2>5. t.low <= 2 * a + b - 512 * k /\ 2 * a + b - 512 * k < t.low + t.range
    BY <1>11, <2>4 DEF Fits
  <2>6. e.low <= a /\ a < e.low + e.range
    <3>1. PICK l \in Nat, r \in 2..255 : l = e.low /\ r = e.range
      BY <1>1, SMTT(30)
    <3>2. t.low = 2 * l - 512 * k /\ t.range = 2 * r
      BY <1>7, <1>9, <3>1
    <3>3. 2 * l - 512 * k <= 2 * a + b - 512 * k /\ 2 * a + b - 512 * k < 2 * l - 512 * k + 2 * r
      BY <2>5, <3>2
    <3>4. l <= a /\ a < l + r
      BY <3>3
    <3> QED BY <3>1, <3>4
  <2>7. Fits(e, w)
    BY <2>2, <2>3, <2>6 DEF Fits
  <2>8. ASSUME Tracks(e, dec, w)
        PROVE  Tracks(t, Refill(dec), w) /\ Refill(dec).bin = dec.bin
    <3>1. /\ dec \in DecoderState /\ dec.bits = w /\ dec.at = At(e) /\ dec.range = e.range /\ dec.models = e.models
          /\ dec.value = a - e.low
      BY <2>3, <2>8 DEF Tracks
    <3>2. NextBit(dec) = b
      BY <2>3, <3>1 DEF NextBit
    <3>3. PICK r \in 2..255 : dec.range = r
      BY <1>1, <3>1
    <3>4. ~(dec.range >= QUARTER)
      BY <3>3 DEF QUARTER
    <3>5. /\ Refill(dec) \in DecoderState /\ Refill(dec).bits = w /\ Refill(dec).at = dec.at + 1 /\ Refill(dec).range = 2 * dec.range
          /\ Refill(dec).models = dec.models /\ Refill(dec).value = 2 * dec.value + b /\ Refill(dec).bin = dec.bin
      <4> DEFINE c == ShiftIn(dec)
      <4>1. /\ c \in DecoderState /\ c.bits = w /\ c.at = dec.at + 1 /\ c.range = dec.range /\ c.models = dec.models
            /\ c.value = 2 * dec.value + b /\ c.bin = dec.bin
        BY <3>1, <3>2, ShiftInIs
      <4>2. Refill(dec) = [c EXCEPT !.range = 2 * c.range]
        BY <3>4 DEF Refill
      <4> HIDE DEF c
      <4>3. 2 * c.range \in Nat /\ 2 * c.range = 2 * dec.range
        BY <3>3, <4>1
      <4> QED BY <4>1, <4>2, <4>3 DEF DecoderState
    <3>6. Refill(dec).value = Window(t, w) - t.low
      BY <1>1, <1>9, <2>4, <3>1, <3>5, SMTT(30)
    <3>7. Refill(dec).at = At(t) /\ Refill(dec).range = t.range /\ Refill(dec).models = t.models
      BY <1>4, <1>7, <1>8, <3>1, <3>5
    <3> QED BY <3>5, <3>6, <3>7 DEF Tracks
  <2> QED BY <2>7, <2>8
<1>12. \A w \in Seq({0, 1}) : \A dec : Follows(e, t, dec, Refill(dec), w)
  BY <1>11 DEF Follows
<1> QED BY <1>4, <1>7, <1>9, <1>10, <1>12

\* After the last decision the range is 2 and is doubled up to 256; low goes on in steps of half of it.
Stepped(e) == e.range \in {2, 4, 8, 16, 32, 64, 128, 256} /\ e.low % (e.range \div 2) = 0

LEMMA SteppedOn ==
    ASSUME NEW e, NEW t, Stepped(e), e.low \in Nat, e.range < 256, t.range = 2 * e.range,
           NEW k \in 0..2, t.low = 2 * e.low - 512 * k
    PROVE  Stepped(t)
<1> PICK l \in Nat : l = e.low
  OBVIOUS
<1>1. e.range \in {2, 4, 8, 16, 32, 64, 128}
  BY DEF Stepped
<1>2. t.low = 2 * l - 512 * k
  OBVIOUS
<1>3. CASE e.range = 2
  <2>1. t.range = 4 /\ (2 * l - 512 * k) % 2 = 0
    BY <1>3
  <2> QED BY <1>2, <2>1 DEF Stepped
<1>4. CASE e.range = 4
  <2>1. t.range = 8 /\ l % 2 = 0
    BY <1>4 DEF Stepped
  <2>2. (2 * l - 512 * k) % 4 = 0
    BY <2>1
  <2> QED BY <1>2, <2>1, <2>2 DEF Stepped
<1>5. CASE e.range = 8
  <2>1. t.range = 16 /\ l % 4 = 0
    BY <1>5 DEF Stepped
  <2>2. (2 * l - 512 * k) % 8 = 0
    BY <2>1
  <2> QED BY <1>2, <2>1, <2>2 DEF Stepped
<1>6. CASE e.range = 16
  <2>1. t.range = 32 /\ l % 8 = 0
    BY <1>6 DEF Stepped
  <2>2. (2 * l - 512 * k) % 16 = 0
    BY <2>1
  <2> QED BY <1>2, <2>1, <2>2 DEF Stepped
<1>7. CASE e.range = 32
  <2>1. t.range = 64 /\ l % 16 = 0
    BY <1>7 DEF Stepped
  <2>2. (2 * l - 512 * k) % 32 = 0
    BY <2>1
  <2> QED BY <1>2, <2>1, <2>2 DEF Stepped
<1>8. CASE e.range = 64
  <2>1. t.range = 128 /\ l % 32 = 0
    BY <1>8 DEF Stepped
  <2>2. (2 * l - 512 * k) % 64 = 0
    BY <2>1
  <2> QED BY <1>2, <2>1, <2>2 DEF Stepped
<1>9. CASE e.range = 128
  <2>1. t.range = 256 /\ l % 64 = 0
    BY <1>9 DEF Stepped
  <2>2. (2 * l - 512 * k) % 128 = 0
    BY <2>1
  <2> QED BY <1>2, <2>1, <2>2 DEF Stepped
<1> QED BY <1>1, <1>3, <1>4, <1>5, <1>6, <1>7, <1>8, <1>9

\* One turn of the loops on both sides.
LEMMA OneTurn ==
    ASSUME NEW e, Within(e), NEW t, t = Doubled(e)
    PROVE  /\ Within(t) /\ t.models = e.models
           /\ (e.range >= QUARTER => t.range = e.range) /\ (e.range < QUARTER => t.range = 2 * e.range)
           /\ Stepped(e) => Stepped(t)
           /\ \A w \in Seq({0, 1}) : \A dec : Follows(e, t, dec, Refill(dec), w)
<1>0. e.low \in Nat /\ e.range \in 2..510
  BY CoderFields DEF Within, HALF
<1>1. CASE e.range >= QUARTER
  <2>1. t = e
    BY <1>1, Zenon DEF Doubled
  <2>2. ASSUME NEW w \in Seq({0, 1}), NEW dec, Tracks(e, dec, w)
        PROVE  Refill(dec) = dec
    <3>1. dec.range >= QUARTER
      BY <1>1, <2>2 DEF Tracks
    <3> QED BY <3>1 DEF Refill
  <2>3. \A w \in Seq({0, 1}) : \A dec : Follows(e, t, dec, Refill(dec), w)
    BY <2>1, <2>2 DEF Follows
  <2>4. ~(e.range < QUARTER)
    BY <1>0, <1>1 DEF QUARTER
  <2> QED BY <1>1, <2>1, <2>3, <2>4
<1>2. CASE ~(e.range >= QUARTER)
  <2>1. e.range < QUARTER /\ e.range < 256
    BY <1>0, <1>2 DEF QUARTER
  <2>2. /\ Within(t) /\ t.models = e.models /\ t.range = 2 * e.range
        /\ \A w \in Seq({0, 1}) : \A dec : Follows(e, t, dec, Refill(dec), w)
    BY <2>1, DoubledIs
  <2>3. PICK k \in 0..2 : t.low = 2 * e.low - 512 * k
    BY <2>1, DoubledIs
  <2>4. Stepped(e) => Stepped(t)
    BY <1>0, <2>1, <2>2, <2>3, SteppedOn
  <2> QED BY <1>2, <2>2, <2>4
<1> QED BY <1>1, <1>2

LEMMA RangeGrows ==
    ASSUME NEW e, Within(e), NEW n \in 2..128, e.range >= n
    PROVE  Doubled(e).range >= 2 * n
<1> DEFINE t == Doubled(e)
<1>1. (e.range >= QUARTER => t.range = e.range) /\ (e.range < QUARTER => t.range = 2 * e.range)
  BY OneTurn
<1>2. PICK r \in 2..510 : r = e.range
  BY DEF Within, HALF
<1> HIDE DEF t
<1>3. CASE r >= 256
  <2>1. t.range = r
    BY <1>1, <1>2, <1>3 DEF QUARTER
  <2> QED BY <1>3, <2>1 DEF t
<1>4. CASE r < 256
  <2>1. t.range = 2 * r /\ r >= n
    BY <1>1, <1>2, <1>4 DEF QUARTER
  <2> QED BY <2>1 DEF t
<1> QED BY <1>3, <1>4

LEMMA RenormalisedIs ==
    ASSUME NEW e, Within(e), NEW t, t = Renormalised(e)
    PROVE  /\ Ready(t) /\ t.models = e.models
           /\ Stepped(e) => t.low % 128 = 0 /\ t.range = 256
           /\ \A w \in Seq({0, 1}) : \A dec : Follows(e, t, dec, Refilled(dec), w)
<1> DEFINE e1 == Doubled(e)
           e2 == Doubled(e1)
           e3 == Doubled(e2)
           e4 == Doubled(e3)
           e5 == Doubled(e4)
           e6 == Doubled(e5)
           e7 == Doubled(e6)
<1>1. t = e7
  BY DEF Renormalised
<1> HIDE DEF e1, e2, e3, e4, e5, e6, e7
<1>2. /\ Within(e1) /\ e1.models = e.models /\ (Stepped(e) => Stepped(e1))
      /\ \A w \in Seq({0, 1}) : \A dec : Follows(e, e1, dec, Refill(dec), w)
  BY OneTurn DEF e1
<1>3. /\ Within(e2) /\ e2.models = e1.models /\ (Stepped(e1) => Stepped(e2))
      /\ \A w \in Seq({0, 1}) : \A dec : Follows(e1, e2, dec, Refill(dec), w)
  BY <1>2, OneTurn DEF e2
<1>4. /\ Within(e3) /\ e3.models = e2.models /\ (Stepped(e2) => Stepped(e3))
      /\ \A w \in Seq({0, 1}) : \A dec : Follows(e2, e3, dec, Refill(dec), w)
  BY <1>3, OneTurn DEF e3
<1>5. /\ Within(e4) /\ e4.models = e3.models /\ (Stepped(e3) => Stepped(e4))
      /\ \A w \in Seq({0, 1}) : \A dec : Follows(e3, e4, dec, Refill(dec), w)
  BY <1>4, OneTurn DEF e4
<1>6. /\ Within(e5) /\ e5.models = e4.models /\ (Stepped(e4) => Stepped(e5))
      /\ \A w \in Seq({0, 1}) : \A dec : Follows(e4, e5, dec, Refill(dec), w)
  BY <1>5, OneTurn DEF e5
<1>7. /\ Within(e6) /\ e6.models = e5.models /\ (Stepped(e5) => Stepped(e6))
      /\ \A w \in Seq({0, 1}) : \A dec : Follows(e5, e6, dec, Refill(dec), w)
  BY <1>6, OneTurn DEF e6
<1>8. /\ Within(e7) /\ e7.models = e6.models /\ (Stepped(e6) => Stepped(e7))
      /\ \A w \in Seq({0, 1}) : \A dec : Follows(e6, e7, dec, Refill(dec), w)
  BY <1>7, OneTurn DEF e7
<1>9. e7.range >= QUARTER /\ e7.range \in 2..510
  <2>1. e.range >= 2 /\ e7.range \in 2..510
    <3>1. Within(e) /\ Within(e7)
      BY <1>8
    <3> QED BY <3>1 DEF Within, HALF
  <2>2. e1.range >= 4
    BY <2>1, RangeGrows DEF e1
  <2>3. e2.range >= 8
    BY <1>2, <2>2, RangeGrows DEF e2
  <2>4. e3.range >= 16
    BY <1>3, <2>3, RangeGrows DEF e3
  <2>5. e4.range >= 32
    BY <1>4, <2>4, RangeGrows DEF e4
  <2>6. e5.range >= 64
    BY <1>5, <2>5, RangeGrows DEF e5
  <2>7. e6.range >= 128
    BY <1>6, <2>6, RangeGrows DEF e6
  <2>8. e7.range >= 256
    BY <1>7, <2>7, RangeGrows DEF e7
  <2> QED BY <2>1, <2>8 DEF QUARTER
<1>10. Ready(t) /\ t.models = e.models
  BY <1>1, <1>2, <1>3, <1>4, <1>5, <1>6, <1>7, <1>8, <1>9 DEF Ready
<1>11. ASSUME Stepped(e) PROVE t.low % 128 = 0 /\ t.range = 256
  <2>1. Stepped(e7)
    BY <1>2, <1>3, <1>4, <1>5, <1>6, <1>7, <1>8, <1>11
  <2>2. e7.range = 256
    BY <1>9, <2>1 DEF Stepped, QUARTER
  <2>3. 256 \div 2 = 128
    OBVIOUS
  <2> QED BY <1>1, <2>1, <2>2, <2>3 DEF Stepped
<1>12. ASSUME NEW w \in Seq({0, 1}), NEW dec
       PROVE  Follows(e, t, dec, Refilled(dec), w)
  <2> DEFINE d1 == Refill(dec)
             d2 == Refill(d1)
             d3 == Refill(d2)
             d4 == Refill(d3)
             d5 == Refill(d4)
             d6 == Refill(d5)
             d7 == Refill(d6)
  <2>1. Refilled(dec) = d7
    BY DEF Refilled
  <2>2. /\ Follows(e, e1, dec, d1, w) /\ Follows(e1, e2, d1, d2, w) /\ Follows(e2, e3, d2, d3, w)
        /\ Follows(e3, e4, d3, d4, w) /\ Follows(e4, e5, d4, d5, w) /\ Follows(e5, e6, d5, d6, w)
        /\ Follows(e6, e7, d6, d7, w)
    BY <1>2, <1>3, <1>4, <1>5, <1>6, <1>7, <1>8
  <2> HIDE DEF d1, d2, d3, d4, d5, d6, d7
  <2>3. Follows(e, e2, dec, d2, w)
    BY <2>2, FollowsOn
  <2>4. Follows(e, e3, dec, d3, w)
    BY <2>2, <2>3, FollowsOn
  <2>5. Follows(e, e4, dec, d4, w)
    BY <2>2, <2>4, FollowsOn
  <2>6. Follows(e, e5, dec, d5, w)
    BY <2>2, <2>5, FollowsOn
  <2>7. Follows(e, e6, dec, d6, w)
    BY <2>2, <2>6, FollowsOn
  <2>8. Follows(e, e7, dec, d7, w)
    BY <2>2, <2>7, FollowsOn
  <2> QED BY <1>1, <2>1, <2>8
<1> QED BY <1>10, <1>11, <1>12

-----------------------------------------------------------------------------
(* One decision. A codeword for what comes after it is one for what comes     *)
(* before, from which the decoder finds the decision.                         *)
Answered(e, t, dec, u, w, bin) ==
    Fits(t, w) => Fits(e, w) /\ (Tracks(e, dec, w) => Tracks(t, u, w) /\ u.bin = bin)

\* Another interval and another state of a context: the place in the codeword is the same.
Narrowed(e, t) ==
    /\ t \in CoderState /\ Place(t) = Place(e) /\ At(t) = At(e) /\ (t.first <=> e.first)
    /\ \A w \in Seq({0, 1}) : (Agrees(t, w) <=> Agrees(e, w)) /\ Window(t, w) = Window(e, w)

LEMMA NarrowedIs ==
    ASSUME NEW e \in CoderState, NEW t \in CoderState,
           t.follow = e.follow, t.first <=> e.first, t.bits = e.bits
    PROVE  Narrowed(e, t)
<1>1. Place(t) = Place(e) /\ At(t) = At(e)
  BY DEF Place, At
<1>2. \A w \in Seq({0, 1}) : (Agrees(t, w) <=> Agrees(e, w)) /\ Window(t, w) = Window(e, w)
  BY <1>1 DEF Agrees, Window
<1> QED BY <1>1, <1>2 DEF Narrowed

\* The parts of the interval for the two values of a decision, and the one that is chosen.
Lps(e, c) == rLPS(e.models[c], e.range)
Mps(e, c) == e.range - Lps(e, c)
Chosen(e, c, bin) ==
    [e EXCEPT !.low = IF bin = e.models[c][2] THEN @ ELSE @ + Mps(e, c),
              !.range = IF bin = e.models[c][2] THEN Mps(e, c) ELSE Lps(e, c),
              !.models[c] = Moved(e.models[c], bin)]

MovedAt(M, c, bin) == [M EXCEPT ![c] = Moved(M[c], bin)]

LEMMA PartsFit ==
    ASSUME NEW r \in 256..510, NEW l \in 2..240
    PROVE  r - l \in 16..508 /\ r = (r - l) + l
OBVIOUS

LEMMA PartsAre ==
    ASSUME NEW e, Ready(e), NEW c \in DOMAIN CtxIni
    PROVE  /\ e \in CoderState /\ e.low \in Nat /\ e.models \in Models /\ e.models[c] \in States \X {0, 1}
           /\ e.range \in 256..510 /\ e.low + e.range <= 1024
           /\ Lps(e, c) \in 2..240 /\ Mps(e, c) \in 16..508 /\ e.range = Mps(e, c) + Lps(e, c)
<1>1. /\ e \in CoderState /\ e.low \in Nat /\ e.models \in Models
  <2>1. e \in CoderState
    BY DEF Ready, Within
  <2> QED BY <2>1, CoderFields
<1>2. e.range \in 256..510 /\ e.low + e.range <= 1024
  BY DEF Ready, Within, QUARTER, HALF, ONE
<1>3. e.models[c] \in States \X {0, 1}
  BY <1>1 DEF Models
<1>4. Lps(e, c) \in 2..240
  <2>1. e.range \in QUARTER..HALF - 2
    BY <1>2 DEF QUARTER, HALF
  <2> QED BY <1>3, <2>1, LpsRange DEF Lps
<1>5. Mps(e, c) \in 16..508 /\ e.range = Mps(e, c) + Lps(e, c)
  BY <1>2, <1>4, PartsFit, ZenonT(60) DEF Mps
<1> QED BY <1>1, <1>2, <1>3, <1>4, <1>5

LEMMA PartsAreNat ==
    ASSUME NEW e, Ready(e), NEW c \in DOMAIN CtxIni
    PROVE  Mps(e, c) \in Nat /\ Lps(e, c) \in Nat
<1>1. Mps(e, c) \in 16..508 /\ Lps(e, c) \in 2..240
  BY PartsAre
<1> QED BY <1>1

\* An interval within the one before.
LEMMA InsideIsWithin ==
    ASSUME NEW e, Ready(e), NEW t, Narrowed(e, t), t.low \in Nat, t.range \in 2..508, t.low + t.range <= e.low + e.range
    PROVE  Within(t)
<1>0. PICK l \in Nat, r \in 2..508 : t.low = l /\ t.range = r /\ l + r <= e.low + e.range
  OBVIOUS
<1>1. e.low + e.range <= 1024 /\ (e.first => e.low + e.range <= 512) /\ t \in CoderState /\ (t.first <=> e.first)
  BY DEF Ready, Within, ONE, HALF, Narrowed
<1>2. e.low \in Nat /\ e.range \in 2..510
  <2>1. e \in CoderState /\ e.range \in 2..510
    BY DEF Ready, Within, HALF
  <2> QED BY <2>1, CoderFields
<1>6. PICK n \in Nat : n = e.low + e.range
  BY <1>2, SMTT(30)
<1>3. l + r <= 1024
  BY <1>0, <1>1, <1>6
<1>4. CASE t.first
  <2>1. n <= 512
    BY <1>1, <1>4, <1>6
  <2>2. l + r <= 512
    BY <1>0, <1>6, <2>1
  <2> QED BY <1>0, <1>1, <1>3, <2>2 DEF Within, ONE, HALF
<1>5. CASE ~t.first
  BY <1>0, <1>1, <1>3, <1>5 DEF Within, ONE, HALF
<1> QED BY <1>4, <1>5

LEMMA ChosenIs ==
    ASSUME NEW e, Ready(e), NEW c \in DOMAIN CtxIni, NEW bin \in {0, 1}
    PROVE  /\ Within(Chosen(e, c, bin)) /\ Narrowed(e, Chosen(e, c, bin))
           /\ Chosen(e, c, bin).models = MovedAt(e.models, c, bin)
<1> DEFINE t == Chosen(e, c, bin)
           l == IF bin = e.models[c][2] THEN e.low ELSE e.low + Mps(e, c)
           r == IF bin = e.models[c][2] THEN Mps(e, c) ELSE Lps(e, c)
           M == [e.models EXCEPT ![c] = Moved(e.models[c], bin)]
<1>1. t = [e EXCEPT !.low = l, !.range = r, !.models = M]
  BY DEF Chosen
<1>2. M \in Models
  <2>1. Moved(e.models[c], bin) \in States \X {0, 1}
    BY PartsAre, MovedModel
  <2> QED BY <2>1, PartsAre DEF Models
<1>3. l \in Nat /\ r \in 2..508 /\ r \in Nat /\ l + r <= e.low + e.range
  <2>0. /\ e.low \in Nat /\ Mps(e, c) \in 16..508 /\ Lps(e, c) \in 2..240
        /\ e.range = Mps(e, c) + Lps(e, c)
    BY PartsAre
  <2>1. PICK w0 \in Nat, m \in 16..508, n \in 2..240 : w0 = e.low /\ m = Mps(e, c) /\ n = Lps(e, c) /\ e.range = m + n
    <3> HIDE DEF l, r, M, t
    <3> QED BY <2>0, ZenonT(60)
  <2>2. CASE bin = e.models[c][2]
    BY <2>1, <2>2
  <2>3. CASE bin # e.models[c][2]
    BY <2>1, <2>3
  <2> QED BY <2>2, <2>3
<1> HIDE DEF l, r, M, t
<1>5. e \in CoderState
  BY PartsAre
<1>6. /\ t \in CoderState /\ t.low = l /\ t.range = r /\ t.models = M
      /\ t.follow = e.follow /\ (t.first <=> e.first) /\ t.bits = e.bits
  BY <1>1, <1>2, <1>3, <1>5 DEF CoderState
<1>7. Narrowed(e, t)
  BY <1>5, <1>6, NarrowedIs
<1>8. Within(t)
  <2>1. t.low \in Nat /\ t.range \in 2..508 /\ t.low + t.range <= e.low + e.range
    BY <1>3, <1>6
  <2> QED BY <1>7, <2>1, InsideIsWithin
<1> QED BY <1>6, <1>7, <1>8 DEF M, t, MovedAt

LEMMA ChosenMost ==
    ASSUME NEW e, Ready(e), NEW c \in DOMAIN CtxIni, NEW bin \in {0, 1}, bin = e.models[c][2]
    PROVE  Chosen(e, c, bin).low = e.low /\ Chosen(e, c, bin).range = Mps(e, c)
<1>1. e \in CoderState
  BY DEF Ready, Within
<1>2. Chosen(e, c, bin) = [e EXCEPT !.low = e.low, !.range = Mps(e, c), !.models[c] = Moved(e.models[c], bin)]
  BY DEF Chosen
<1> QED BY <1>1, <1>2 DEF CoderState

LEMMA ChosenLeast ==
    ASSUME NEW e, Ready(e), NEW c \in DOMAIN CtxIni, NEW bin \in {0, 1}, bin # e.models[c][2]
    PROVE  Chosen(e, c, bin).low = e.low + Mps(e, c) /\ Chosen(e, c, bin).range = Lps(e, c)
<1> DEFINE l == e.low + Mps(e, c)
<1>1. e \in CoderState
  BY DEF Ready, Within
<1>2. Chosen(e, c, bin) = [e EXCEPT !.low = l, !.range = Lps(e, c), !.models[c] = Moved(e.models[c], bin)]
  BY DEF Chosen
<1> HIDE DEF l
<1>3. Chosen(e, c, bin).low = l /\ Chosen(e, c, bin).range = Lps(e, c)
  BY <1>1, <1>2 DEF CoderState
<1> QED BY <1>3 DEF l

LEMMA InsideFits ==
    ASSUME NEW e, Ready(e), NEW t \in CoderState, Narrowed(e, t), NEW w \in Seq({0, 1}), Fits(t, w),
           NEW l \in Nat, NEW r \in Nat, t.low = l, t.range = r, e.low <= l, l + r <= e.low + e.range
    PROVE  Fits(e, w) /\ Window(e, w) \in Nat /\ Window(t, w) = Window(e, w) /\ l <= Window(e, w) /\ Window(e, w) < l + r
<1>1. Agrees(e, w) /\ Window(t, w) = Window(e, w)
  BY DEF Fits, Narrowed
<1>2. e \in CoderState /\ e.low \in Nat /\ e.range \in Nat
  <2>1. e \in CoderState
    BY DEF Ready, Within
  <2> QED BY <2>1, CoderFields
<1>3. l <= Window(e, w) /\ Window(e, w) < l + r
  BY <1>1 DEF Fits
<1>4. PICK a \in Nat, n \in Nat, m \in Nat : a = Window(e, w) /\ n = e.low /\ m = e.range
  BY <1>2, WindowIsInt
<1>5. n <= a /\ a < n + m
  BY <1>3, <1>4
<1>6. e.low <= Window(e, w) /\ Window(e, w) < e.low + e.range
  BY <1>4, <1>5
<1> QED BY <1>1, <1>3, <1>4, <1>6 DEF Fits

\* What the decoder takes for the decision.
Taken(dec, c, m, l) ==
    [dec EXCEPT !.value = IF dec.value < m THEN @ ELSE @ - m,
              !.range = IF dec.value < m THEN m ELSE l,
              !.bin = IF dec.value < m THEN dec.models[c][2] ELSE 1 - dec.models[c][2],
              !.models[c] = Moved(dec.models[c], IF dec.value < m THEN dec.models[c][2] ELSE 1 - dec.models[c][2])]

LEMMA DecodeIs ==
    ASSUME NEW dec, NEW c
    PROVE  biari_decode_symbol(dec, c) =
               Refilled(Taken(dec, c, dec.range - rLPS(dec.models[c], dec.range), rLPS(dec.models[c], dec.range)))
BY DEF biari_decode_symbol, Taken

LEMMA EncodeIs ==
    ASSUME NEW e, NEW c, NEW bin
    PROVE  biari_encode_symbol(e, c, bin) = Renormalised(Chosen(e, c, bin))
BY DEF biari_encode_symbol, Chosen, Mps, Lps

LEMMA TakenIs ==
    ASSUME NEW e, Ready(e), NEW c \in DOMAIN CtxIni, NEW bin \in {0, 1},
           NEW w \in Seq({0, 1}), Fits(Chosen(e, c, bin), w), NEW dec, Tracks(e, dec, w)
    PROVE  /\ Tracks(Chosen(e, c, bin), Taken(dec, c, Mps(e, c), Lps(e, c)), w)
           /\ Taken(dec, c, Mps(e, c), Lps(e, c)).bin = bin
<1> DEFINE t == Chosen(e, c, bin)
           u == Taken(dec, c, Mps(e, c), Lps(e, c))
<1>0. Fits(t, w) /\ t = Chosen(e, c, bin)
  OBVIOUS
<1>1. /\ Narrowed(e, t) /\ t.models = MovedAt(e.models, c, bin)
      /\ bin = e.models[c][2] => t.low = e.low /\ t.range = Mps(e, c)
      /\ bin # e.models[c][2] => t.low = e.low + Mps(e, c) /\ t.range = Lps(e, c)
  <2>0. Narrowed(e, t)
    BY ChosenIs, Zenon
  <2>1. t.models = MovedAt(e.models, c, bin)
    BY ChosenIs, Zenon
  <2>2. bin = e.models[c][2] => t.low = e.low /\ t.range = Mps(e, c)
    BY ChosenMost
  <2>3. bin # e.models[c][2] => t.low = e.low + Mps(e, c) /\ t.range = Lps(e, c)
    BY ChosenLeast
  <2> QED BY <2>0, <2>1, <2>2, <2>3
<1>a. u = Taken(dec, c, Mps(e, c), Lps(e, c))
  OBVIOUS
<1> HIDE DEF t, u
<1>2. e.low \in Nat /\ e.models \in Models /\ e.models[c] \in States \X {0, 1}
  BY PartsAre
<1>b. Mps(e, c) \in Nat /\ Lps(e, c) \in Nat
  BY PartsAreNat
<1>3. /\ dec \in DecoderState /\ dec.bits = w /\ dec.at = At(e) /\ dec.range = e.range /\ dec.models = e.models
      /\ dec.value = Window(e, w) - e.low
  BY DEF Tracks
<1>4. Window(t, w) = Window(e, w) /\ At(t) = At(e) /\ t \in CoderState /\ e \in CoderState /\ t.low \in Nat
  <2>1. Narrowed(e, t) /\ e \in CoderState
    BY <1>1 DEF Ready, Within
  <2>2. Window(t, w) = Window(e, w) /\ At(t) = At(e) /\ t \in CoderState
    BY <2>1 DEF Narrowed
  <2> QED BY <2>1, <2>2, CoderFields
<1>5. t.low <= Window(t, w) /\ Window(t, w) < t.low + t.range
  BY <1>0 DEF Fits
<1>6. Window(e, w) \in Nat
  BY <1>4, WindowIsInt
<1> DEFINE b == e.models[c][2]
<1>7. b \in {0, 1}
  BY <1>2
<1>8. \/ bin = b /\ dec.value < Mps(e, c)
      \/ bin = 1 - b /\ ~(dec.value < Mps(e, c)) /\ bin # b
  <2>1. PICK a \in Nat, l \in Nat, m \in Nat : a = Window(e, w) /\ l = e.low /\ m = Mps(e, c)
    BY <1>2, <1>b, <1>6, Zenon
  <2>2. dec.value = a - l
    BY <1>3, <2>1
  <2>3. CASE bin = b
    <3>1. t.low = l /\ t.range = m
      BY <1>1, <2>1, <2>3
    <3>2. a < l + m
      BY <1>4, <1>5, <2>1, <3>1
    <3> QED BY <2>1, <2>2, <2>3, <3>2
  <2>4. CASE bin # b
    <3>1. t.low = l + m
      BY <1>1, <2>1, <2>4
    <3>2. l + m <= a
      BY <1>4, <1>5, <2>1, <3>1
    <3>3. bin = 1 - b
      BY <1>7, <2>4
    <3> QED BY <2>1, <2>2, <2>4, <3>2, <3>3
  <2> QED BY <2>3, <2>4
<1>9. /\ u = [dec EXCEPT !.value = IF bin = b THEN @ ELSE @ - Mps(e, c), !.range = t.range, !.bin = bin, !.models = t.models]
  <2>1. CASE bin = b /\ dec.value < Mps(e, c)
    <3>1. u = [dec EXCEPT !.value = @, !.range = Mps(e, c), !.bin = b, !.models[c] = Moved(dec.models[c], b)]
      BY <1>3, <1>a, <2>1 DEF Taken
    <3>2. u = [dec EXCEPT !.value = @, !.range = Mps(e, c), !.bin = b, !.models = MovedAt(dec.models, c, b)]
      BY <3>1 DEF MovedAt
    <3> QED BY <1>1, <1>3, <2>1, <3>2
  <2>2. CASE bin = 1 - b /\ ~(dec.value < Mps(e, c)) /\ bin # b
    <3>1. u = [dec EXCEPT !.value = @ - Mps(e, c), !.range = Lps(e, c), !.bin = bin, !.models[c] = Moved(dec.models[c], bin)]
      BY <1>3, <1>a, <2>2 DEF Taken
    <3>2. u = [dec EXCEPT !.value = @ - Mps(e, c), !.range = Lps(e, c), !.bin = bin, !.models = MovedAt(dec.models, c, bin)]
      BY <3>1 DEF MovedAt
    <3> QED BY <1>1, <1>3, <2>2, <3>2
  <2> QED BY <1>8, <2>1, <2>2
<1>10. t.range \in Nat /\ t.models \in Models
  BY <1>4, CoderFields
<1>11. PICK v \in Int : v = IF bin = b THEN dec.value ELSE dec.value - Mps(e, c)
  <2>1. dec.value \in Int
    BY <1>3, Zenon DEF DecoderState
  <2>2. PICK m \in Nat : m = Mps(e, c)
    BY <1>b, Zenon
  <2>3. PICK x \in Int : x = dec.value
    BY <2>1, Zenon
  <2>4. x - m \in Int
    OBVIOUS
  <2> QED BY <2>2, <2>3, <2>4, Zenon
<1>12. u = [dec EXCEPT !.value = v, !.range = t.range, !.bin = bin, !.models = t.models]
  BY <1>9, <1>11
<1> HIDE DEF b
<1>13. /\ u \in DecoderState /\ u.bits = w /\ u.at = At(e) /\ u.range = t.range /\ u.models = t.models
       /\ u.value = v /\ u.bin = bin
  BY <1>3, <1>10, <1>12 DEF DecoderState
<1>14. v = Window(t, w) - t.low
  <2>1. CASE bin = b
    <3>1. t.low = e.low /\ v = dec.value
      BY <1>1, <1>11, <2>1 DEF b
    <3> QED BY <1>3, <1>4, <3>1
  <2>2. CASE bin # b
    <3>1. t.low = e.low + Mps(e, c) /\ v = dec.value - Mps(e, c)
      BY <1>1, <1>11, <2>2 DEF b
    <3>2. PICK a \in Nat, l \in Nat, m \in Nat : a = Window(e, w) /\ l = e.low /\ m = Mps(e, c)
      BY <1>2, <1>b, <1>6, Zenon
    <3>3. v = a - l - m /\ t.low = l + m
      BY <1>3, <3>1, <3>2
    <3> QED BY <1>4, <3>2, <3>3
  <2> QED BY <2>1, <2>2
<1> QED BY <1>4, <1>13, <1>14 DEF Tracks, t, u

LEMMA ChosenInside ==
    ASSUME NEW e, Ready(e), NEW c \in DOMAIN CtxIni, NEW bin \in {0, 1}
    PROVE  \E l \in Nat, r \in Nat :
               /\ Chosen(e, c, bin).low = l /\ Chosen(e, c, bin).range = r
               /\ e.low <= l /\ l + r <= e.low + e.range
<1> DEFINE t == Chosen(e, c, bin)
<1>1. /\ bin = e.models[c][2] => t.low = e.low /\ t.range = Mps(e, c)
      /\ bin # e.models[c][2] => t.low = e.low + Mps(e, c) /\ t.range = Lps(e, c)
  BY ChosenMost, ChosenLeast
<1> HIDE DEF t
<1>2. e.low \in Nat /\ Mps(e, c) \in Nat /\ Lps(e, c) \in Nat /\ e.range = Mps(e, c) + Lps(e, c)
  <2>1. e.low \in Nat /\ Mps(e, c) \in 16..508 /\ Lps(e, c) \in 2..240 /\ e.range = Mps(e, c) + Lps(e, c)
    BY PartsAre
  <2> QED BY <2>1
<1>3. CASE bin = e.models[c][2]
  <2>1. e.low <= e.low /\ e.low + Mps(e, c) <= e.low + e.range
    BY <1>2
  <2> QED BY <1>1, <1>2, <1>3, <2>1, Zenon DEF t
<1>4. CASE bin # e.models[c][2]
  <2>1. /\ e.low + Mps(e, c) \in Nat /\ e.low <= e.low + Mps(e, c)
        /\ e.low + Mps(e, c) + Lps(e, c) <= e.low + e.range
    BY <1>2
  <2> QED BY <1>1, <1>2, <1>4, <2>1, Zenon DEF t
<1> QED BY <1>3, <1>4

LEMMA SymbolIs ==
    ASSUME NEW e, Ready(e), NEW c \in DOMAIN CtxIni, NEW bin \in {0, 1}, NEW t, t = biari_encode_symbol(e, c, bin)
    PROVE  /\ Ready(t)
           /\ \A w \in Seq({0, 1}) : \A dec : Answered(e, t, dec, biari_decode_symbol(dec, c), w, bin)
<1> DEFINE s == Chosen(e, c, bin)
<1>1. t = Renormalised(s)
  BY EncodeIs
<1>2. Within(s) /\ Narrowed(e, s)
  BY ChosenIs
<1> HIDE DEF s
<1>3. Ready(t) /\ \A w \in Seq({0, 1}) : \A dec : Follows(s, t, dec, Refilled(dec), w)
  BY <1>1, <1>2, RenormalisedIs
<1>4. ASSUME NEW w \in Seq({0, 1}), NEW dec, Fits(t, w)
      PROVE  Fits(e, w) /\ (Tracks(e, dec, w) => Tracks(t, biari_decode_symbol(dec, c), w) /\ biari_decode_symbol(dec, c).bin = bin)
  <2>1. Fits(s, w)
    BY <1>3, <1>4 DEF Follows
  <2>2. Fits(e, w)
    <3>1. s \in CoderState
      BY <1>2 DEF Within
    <3>2. PICK l \in Nat, r \in Nat : s.low = l /\ s.range = r /\ e.low <= l /\ l + r <= e.low + e.range
      BY ChosenInside DEF s
    <3> QED BY <1>2, <2>1, <3>1, <3>2, InsideFits
  <2>3. ASSUME Tracks(e, dec, w)
        PROVE  Tracks(t, biari_decode_symbol(dec, c), w) /\ biari_decode_symbol(dec, c).bin = bin
    <3> DEFINE u == Taken(dec, c, Mps(e, c), Lps(e, c))
    <3>1. Tracks(s, u, w) /\ u.bin = bin
      BY <2>1, <2>3, TakenIs DEF s
    <3>2. biari_decode_symbol(dec, c) = Refilled(u)
      <4>1. dec.range = e.range /\ dec.models = e.models
        BY <2>3 DEF Tracks
      <4> QED BY <4>1, DecodeIs DEF Mps, Lps
    <3> HIDE DEF u
    <3>3. Follows(s, t, u, Refilled(u), w)
      BY <1>3
    <3> QED BY <1>4, <3>1, <3>2, <3>3 DEF Follows
  <2> QED BY <2>2, <2>3
<1> QED BY <1>3, <1>4 DEF Answered

-----------------------------------------------------------------------------
(* A decision of equal probability.                                           *)
Raised(e, bin) == [e EXCEPT !.low = 2 * e.low + (IF bin = 1 THEN e.range ELSE 0)]

LEMMA RaisedIs ==
    ASSUME NEW e, Ready(e), NEW bin \in {0, 1}
    PROVE  /\ Narrowed(e, Raised(e, bin)) /\ Raised(e, bin).range = e.range /\ Raised(e, bin).models = e.models
           /\ bin = 0 => Raised(e, bin).low = 2 * e.low
           /\ bin = 1 => Raised(e, bin).low = 2 * e.low + e.range
<1> DEFINE t == Raised(e, bin)
           l == 2 * e.low + (IF bin = 1 THEN e.range ELSE 0)
<1>1. e \in CoderState
  BY DEF Ready, Within
<1>2. e.low \in Nat /\ e.range \in Nat
  BY <1>1, CoderFields
<1>3. l \in Nat /\ (bin = 0 => l = 2 * e.low) /\ (bin = 1 => l = 2 * e.low + e.range)
  BY <1>2
<1>4. t = [e EXCEPT !.low = l]
  BY DEF Raised
<1> HIDE DEF t, l
<1>5. /\ t \in CoderState /\ t.low = l /\ t.range = e.range /\ t.models = e.models
      /\ t.follow = e.follow /\ (t.first <=> e.first) /\ t.bits = e.bits
  BY <1>1, <1>3, <1>4 DEF CoderState
<1>6. Narrowed(e, t)
  BY <1>1, <1>5, NarrowedIs
<1>7. bin = 0 => t.low = 2 * e.low
  BY <1>3, <1>5
<1>8. bin = 1 => t.low = 2 * e.low + e.range
  BY <1>3, <1>5
<1> QED BY <1>5, <1>6, <1>7, <1>8 DEF t

LEMMA EqProbIs ==
    ASSUME NEW e, Ready(e), NEW bin \in {0, 1}, NEW t, t = biari_encode_symbol_eq_prob(e, bin)
    PROVE  /\ Ready(t)
           /\ \A w \in Seq({0, 1}) : \A dec : Answered(e, t, dec, biari_decode_symbol_eq_prob(dec), w, bin)
<1> DEFINE s == Raised(e, bin)
<1>1. t = Shifted(s, 2 * HALF, HALF)
  <2>1. ONE = 2 * HALF
    BY DEF ONE, HALF
  <2> QED BY <2>1 DEF biari_encode_symbol_eq_prob, Raised
<1>2. Narrowed(e, s) /\ s.range = e.range /\ s.models = e.models
  BY RaisedIs
<1>3. e \in CoderState /\ e.range \in 256..510 /\ e.low + e.range <= 1024
  BY DEF Ready, Within, QUARTER, HALF, ONE
<1>b. e.first => e.low + e.range <= 512
  BY DEF Ready, Within, HALF
<1>l. PICK l \in Nat : l = e.low
  BY <1>3, CoderFields
<1>r. PICK r \in 256..510 : r = e.range
  BY <1>3
<1>4. l = e.low /\ r = e.range /\ l + r <= 1024
  BY <1>3, <1>l, <1>r
<1>5. PICK x \in Nat : x = s.low /\ (bin = 0 => x = 2 * l) /\ (bin = 1 => x = 2 * l + r)
  <2>1. bin = 0 => s.low = 2 * l
    BY <1>4, RaisedIs
  <2>2. bin = 1 => s.low = 2 * l + r
    BY <1>4, RaisedIs
  <2> HIDE DEF s
  <2>3. 2 * l \in Nat /\ 2 * l + r \in Nat
    OBVIOUS
  <2> QED BY <2>1, <2>2, <2>3
<1> HIDE DEF s
<1>6. x \in {2 * l, 2 * l + r}
  BY <1>5
<1>7. s \in CoderState /\ (s.first <=> e.first) /\ At(s) = At(e)
  BY <1>2 DEF Narrowed
<1>8. s.first => s.low < 2 * HALF
  <2>1. CASE e.first
    <3>1. l + r <= 512
      BY <1>b, <1>4, <2>1
    <3>2. x < 1024
      BY <1>6, <3>1
    <3> QED BY <1>5, <3>2 DEF HALF
  <2>2. CASE ~e.first
    BY <1>7, <2>2
  <2> QED BY <2>1, <2>2
<1>9. PICK k \in 0..2 : ShiftsBy(s, HALF, t, k)
  <2>1. HALF \in Nat
    BY DEF HALF
  <2> QED BY <1>1, <1>7, <1>8, <2>1, ShiftedIs
<1>10. /\ t \in CoderState /\ t.range = r /\ t.models = e.models /\ At(t) = At(e) + 1
       /\ t.first => e.first /\ k = 1
  BY <1>2, <1>4, <1>7, <1>9 DEF ShiftsBy
<1>11. PICK m \in Int : m = t.low /\ m = x - 512 * k
  <2>1. t.low = x - 512 * k
    <3>1. \/ k = 0 /\ t.low = s.low
          \/ k = 1 /\ t.low = s.low - 512
          \/ k = 2 /\ t.low = s.low - 1024
      BY <1>9 DEF ShiftsBy, HALF
    <3> QED BY <1>5, <3>1
  <2> QED BY <2>1
<1>12. (k = 0 /\ x < 512) \/ (k = 1 /\ x >= 512 /\ x < 1024) \/ (k = 2 /\ x >= 1024)
  BY <1>5, <1>9 DEF ShiftsBy, HALF
<1>13. /\ m + r <= 1024 /\ (l + r <= 512 => x < 1024 /\ (k = 1 => m + r <= 512))
       /\ \A a \in Nat, b \in {0, 1} :
             m <= 2 * a + b - 512 * k /\ 2 * a + b - 512 * k < m + r =>
                 /\ l <= a /\ a < l + r
                 /\ x = 2 * l => 2 * (a - l) + b < r /\ 2 * (a - l) + b = 2 * a + b - 512 * k - m
                 /\ x = 2 * l + r => 2 * (a - l) + b >= r /\ 2 * (a - l) + b - r = 2 * a + b - 512 * k - m
  <2>1. l + r <= 1024 /\ m = x - 512 * k
    BY <1>4, <1>11
  <2>2. CASE x = 2 * l
    BY <1>12, <2>1, <2>2
  <2>3. CASE x = 2 * l + r
    BY <1>12, <2>1, <2>3
  <2> QED BY <1>6, <2>2, <2>3
<1>14. Ready(t)
  <2>1. t.range \in 2..510 /\ t.range >= 256
    BY <1>10
  <2>2. t.low + t.range <= 1024
    BY <1>10, <1>11, <1>13
  <2>3. t.first => t.low + t.range <= 512
    <3>1. CASE t.first
      <4>1. l + r <= 512 /\ k = 1
        BY <1>b, <1>4, <1>10, <3>1
      <4>2. m + r <= 512
        BY <1>13, <4>1
      <4> QED BY <1>10, <1>11, <4>2
    <3> QED BY <3>1
  <2> QED BY <1>10, <2>1, <2>2, <2>3 DEF Ready, Within, QUARTER, HALF, ONE
<1>15. ASSUME NEW w \in Seq({0, 1}), NEW dec, Fits(t, w)
       PROVE  Fits(e, w) /\ (Tracks(e, dec, w) => /\ Tracks(t, biari_decode_symbol_eq_prob(dec), w)
                                                /\ biari_decode_symbol_eq_prob(dec).bin = bin)
  <2>1. Agrees(s, w) /\ Window(t, w) = 2 * Window(s, w) + BitAt(w, At(s)) - 512 * k
    BY <1>9, <1>15 DEF ShiftsBy, Fits, HALF
  <2>2. Agrees(e, w) /\ Window(s, w) = Window(e, w) /\ At(s) = At(e)
    BY <1>2, <2>1 DEF Narrowed
  <2>3. PICK a \in Nat, b \in {0, 1} : a = Window(e, w) /\ b = BitAt(w, At(e))
    BY <1>3, WindowIsInt
  <2>4. Window(t, w) = 2 * a + b - 512 * k
    BY <2>1, <2>2, <2>3
  <2>5. m <= 2 * a + b - 512 * k /\ 2 * a + b - 512 * k < m + r
    BY <1>10, <1>11, <1>15, <2>4 DEF Fits
  <2>6. /\ l <= a /\ a < l + r
        /\ x = 2 * l => 2 * (a - l) + b < r /\ 2 * (a - l) + b = 2 * a + b - 512 * k - m
        /\ x = 2 * l + r => 2 * (a - l) + b >= r /\ 2 * (a - l) + b - r = 2 * a + b - 512 * k - m
    BY <1>13, <2>5
  <2>7. Fits(e, w)
    BY <1>4, <2>2, <2>3, <2>6 DEF Fits
  <2>8. ASSUME Tracks(e, dec, w)
        PROVE  /\ Tracks(t, biari_decode_symbol_eq_prob(dec), w)
               /\ biari_decode_symbol_eq_prob(dec).bin = bin
    <3> DEFINE c == ShiftIn(dec)
               u == biari_decode_symbol_eq_prob(dec)
    <3>1. /\ dec \in DecoderState /\ dec.bits = w /\ dec.at = At(e) /\ dec.range = r /\ dec.models = e.models
          /\ dec.value = a - l
      BY <1>4, <2>3, <2>8 DEF Tracks
    <3>2. NextBit(dec) = b
      BY <2>3, <3>1 DEF NextBit
    <3>3. /\ c \in DecoderState /\ c.bits = w /\ c.at = At(t) /\ c.range = r /\ c.models = e.models
          /\ c.value = 2 * (a - l) + b
      <4>1. /\ c \in DecoderState /\ c.bits = dec.bits /\ c.at = dec.at + 1 /\ c.range = dec.range /\ c.models = dec.models
            /\ c.value = 2 * dec.value + b
        BY <3>1, <3>2, ShiftInIs
      <4> HIDE DEF c
      <4> QED BY <1>10, <3>1, <4>1
    <3>4. u = IF c.value >= c.range THEN [c EXCEPT !.value = @ - c.range, !.bin = 1] ELSE [c EXCEPT !.bin = 0]
      BY DEF biari_decode_symbol_eq_prob
    <3> HIDE DEF c, u
    <3>5. CASE bin = 0
      <4>1. x = 2 * l
        BY <1>5, <3>5
      <4>2. ~(c.value >= c.range)
        BY <2>6, <3>3, <4>1
      <4>3. u = [c EXCEPT !.bin = 0]
        BY <3>4, <4>2
      <4>4. /\ u \in DecoderState /\ u.bits = w /\ u.at = At(t) /\ u.range = r /\ u.models = e.models
            /\ u.value = c.value /\ u.bin = 0
        BY <3>3, <4>3, ZenonT(60) DEF DecoderState
      <4>5. u.value = Window(t, w) - t.low
        BY <1>11, <2>4, <2>6, <3>3, <4>1, <4>4
      <4> QED BY <1>10, <3>5, <4>4, <4>5 DEF Tracks, u
    <3>6. CASE bin = 1
      <4>1. x = 2 * l + r
        BY <1>5, <3>6
      <4>2. c.value >= c.range
        BY <2>6, <3>3, <4>1
      <4>3. PICK v \in Int : v = 2 * (a - l) + b - r
        OBVIOUS
      <4>a. c.value = 2 * (a - l) + b /\ c.range = r
        BY <3>3
      <4>4. c.value - c.range = v
        BY <4>3, <4>a
      <4>5. u = [c EXCEPT !.value = v, !.bin = 1]
        BY <3>4, <4>2, <4>4
      <4>6. /\ u \in DecoderState /\ u.bits = w /\ u.at = At(t) /\ u.range = r /\ u.models = e.models
            /\ u.value = v /\ u.bin = 1
        <5>1. c \in DecoderState /\ c.bits = w /\ c.at = At(t) /\ c.range = r /\ c.models = e.models
          BY <3>3
        <5> QED BY <4>5, <5>1, ZenonT(60) DEF DecoderState
      <4>7. u.value = Window(t, w) - t.low
        BY <1>11, <2>4, <2>6, <4>1, <4>3, <4>6
      <4> QED BY <1>10, <3>6, <4>6, <4>7 DEF Tracks, u
    <3> QED BY <3>5, <3>6
  <2> QED BY <2>7, <2>8
<1> QED BY <1>14, <1>15 DEF Answered

-----------------------------------------------------------------------------
(* Whether the slice ends.                                                    *)
Cut(e, l, r) == [e EXCEPT !.low = l, !.range = r]

LEMMA CutIs ==
    ASSUME NEW e \in CoderState, NEW l \in Nat, NEW r \in Nat
    PROVE  /\ Cut(e, l, r) \in CoderState /\ Narrowed(e, Cut(e, l, r))
           /\ Cut(e, l, r).low = l /\ Cut(e, l, r).range = r /\ Cut(e, l, r).models = e.models
<1> DEFINE t == Cut(e, l, r)
<1>1. t = [e EXCEPT !.low = l, !.range = r]
  BY DEF Cut
<1> HIDE DEF t
<1>2. /\ t \in CoderState /\ t.low = l /\ t.range = r /\ t.models = e.models
      /\ t.follow = e.follow /\ (t.first <=> e.first) /\ t.bits = e.bits
  BY <1>1 DEF CoderState
<1>3. Narrowed(e, t)
  BY <1>2, NarrowedIs
<1> QED BY <1>2, <1>3 DEF t

LEMMA ReadyIs ==
    ASSUME NEW e, Ready(e)
    PROVE  e \in CoderState /\ e.low \in Nat /\ e.range \in 256..510
<1>1. e \in CoderState /\ e.range \in 256..510
  BY DEF Ready, Within, QUARTER, HALF
<1> QED BY <1>1, CoderFields

LEMMA FinalNot ==
    ASSUME NEW e, Ready(e), NEW t, t = biari_encode_symbol_final(e, 0)
    PROVE  /\ Ready(t)
           /\ \A w \in Seq({0, 1}) : \A dec : Answered(e, t, dec, biari_decode_final(dec), w, 0)
<1>1. e \in CoderState
  BY ReadyIs
<1>2. PICK l \in Nat : l = e.low
  BY ReadyIs
<1>3. PICK r \in 256..510 : r = e.range
  BY ReadyIs
<1>4. PICK n \in Nat : n = r - 2
  OBVIOUS
<1> DEFINE s == Cut(e, l, n)
<1>5. t = Renormalised(s)
  <2>1. e.range - 2 = n
    BY <1>3, <1>4
  <2>2. biari_encode_symbol_final(e, 0) = Renormalised([e EXCEPT !.low = e.low, !.range = e.range - 2])
    BY DEF biari_encode_symbol_final
  <2> QED BY <1>2, <2>1, <2>2 DEF Cut
<1>6. s \in CoderState /\ Narrowed(e, s) /\ s.low = l /\ s.range = n /\ s.models = e.models
  BY <1>1, CutIs
<1> HIDE DEF s
<1>7. Within(s)
  <2>1. l + n <= l + r /\ n \in 2..508
    BY <1>4
  <2>2. l + n <= e.low + e.range
    BY <1>2, <1>3, <2>1
  <2>3. s.low \in Nat /\ s.range \in 2..508 /\ s.low + s.range <= e.low + e.range
    BY <1>6, <2>1, <2>2
  <2> QED BY <1>6, <2>3, InsideIsWithin
<1>8. Ready(t) /\ t.models = s.models /\ \A w \in Seq({0, 1}) : \A dec : Follows(s, t, dec, Refilled(dec), w)
  BY <1>5, <1>7, RenormalisedIs
<1>9. ASSUME NEW w \in Seq({0, 1}), NEW dec, Fits(t, w)
      PROVE  Fits(e, w) /\ (Tracks(e, dec, w) => Tracks(t, biari_decode_final(dec), w) /\ biari_decode_final(dec).bin = 0)
  <2>1. Fits(s, w)
    BY <1>8, <1>9 DEF Follows
  <2>2. Fits(e, w) /\ Window(e, w) \in Nat /\ Window(s, w) = Window(e, w) /\ l <= Window(e, w) /\ Window(e, w) < l + n
    <3>1. l + n <= l + r
      BY <1>4
    <3>2. l + n <= e.low + e.range /\ e.low <= l
      BY <1>2, <1>3, <3>1
    <3> QED BY <1>6, <2>1, <3>1, <3>2, InsideFits
  <2>3. ASSUME Tracks(e, dec, w)
        PROVE  Tracks(t, biari_decode_final(dec), w) /\ biari_decode_final(dec).bin = 0
    <3>1. /\ dec \in DecoderState /\ dec.bits = w /\ dec.at = At(e) /\ dec.range = r /\ dec.models = e.models
          /\ dec.value = Window(e, w) - l
      BY <1>2, <1>3, <2>3 DEF Tracks
    <3>2. ~(dec.value >= dec.range - 2)
      <4>1. PICK a \in Nat : a = Window(e, w)
        BY <2>2
      <4>2. ~(a - l >= r - 2)
        BY <1>4, <2>2, <4>1
      <4> QED BY <3>1, <4>1, <4>2
    <3> DEFINE c == [dec EXCEPT !.range = n, !.bin = 0]
    <3>3. biari_decode_final(dec) = Refilled(c)
      <4>1. dec.range - 2 = n
        BY <1>4, <3>1
      <4> QED BY <3>2, <4>1 DEF biari_decode_final
    <3>4. /\ c \in DecoderState /\ c.bits = w /\ c.at = At(e) /\ c.range = n /\ c.models = e.models
          /\ c.value = dec.value /\ c.bin = 0
      <4>1. n \in Nat /\ dec \in DecoderState
        BY <3>1
      <4>2. c \in DecoderState /\ c.bits = dec.bits /\ c.at = dec.at /\ c.range = n /\ c.models = dec.models
            /\ c.value = dec.value /\ c.bin = 0
        BY <4>1 DEF DecoderState
      <4> HIDE DEF c
      <4> QED BY <3>1, <4>2
    <3> HIDE DEF c
    <3>5. At(s) = At(e)
      BY <1>6 DEF Narrowed
    <3>6. c.value = Window(s, w) - s.low
      BY <1>6, <2>2, <3>1, <3>4
    <3>7. Tracks(s, c, w)
      BY <1>6, <3>4, <3>5, <3>6 DEF Tracks
    <3>8. Follows(s, t, c, Refilled(c), w)
      BY <1>8
    <3>9. Tracks(t, Refilled(c), w) /\ Refilled(c).bin = c.bin
      BY <1>9, <3>7, <3>8 DEF Follows
    <3> QED BY <3>3, <3>4, <3>9
  <2> QED BY <2>2, <2>3
<1> QED BY <1>8, <1>9 DEF Answered

LEMMA FinalEnd ==
    ASSUME NEW e, Ready(e), NEW t, t = biari_encode_symbol_final(e, 1)
    PROVE  /\ Ready(t) /\ t.low % 128 = 0 /\ t.range = 256 /\ t.models = e.models
           /\ \A w \in Seq({0, 1}) : \A dec :
                 Fits(t, w) => /\ Fits(e, w)
                               /\ Tracks(e, dec, w) => /\ biari_decode_final(dec).bin = 1
                                                     /\ biari_decode_final(dec).models = t.models
                                                     /\ biari_decode_final(dec) \in DecoderState
<1>1. e \in CoderState
  BY ReadyIs
<1>2. PICK l \in Nat : l = e.low
  BY ReadyIs
<1>3. PICK r \in 256..510 : r = e.range
  BY ReadyIs
<1>4. PICK n \in Nat : n = l + r - 2
  OBVIOUS
<1> DEFINE s == Cut(e, n, 2)
<1>5. t = Renormalised(s)
  <2>1. e.low + e.range - 2 = n
    BY <1>2, <1>3, <1>4
  <2> QED BY <2>1 DEF biari_encode_symbol_final, Cut
<1>6. s \in CoderState /\ Narrowed(e, s) /\ s.low = n /\ s.range = 2 /\ s.models = e.models
  BY <1>1, CutIs
<1> HIDE DEF s
<1>7. Within(s)
  <2>1. n + 2 <= l + r /\ 2 \in 2..508
    BY <1>4
  <2>2. n + 2 <= e.low + e.range
    BY <1>2, <1>3, <2>1
  <2>3. s.low \in Nat /\ s.range \in 2..508 /\ s.low + s.range <= e.low + e.range
    BY <1>6, <2>1, <2>2
  <2> QED BY <1>6, <2>3, InsideIsWithin
<1>8. Stepped(s)
  <2>1. 2 \div 2 = 1 /\ n % 1 = 0
    OBVIOUS
  <2> QED BY <1>6, <2>1 DEF Stepped
<1>9. /\ Ready(t) /\ t.models = s.models /\ t.low % 128 = 0 /\ t.range = 256
      /\ \A w \in Seq({0, 1}) : \A dec : Follows(s, t, dec, Refilled(dec), w)
  BY <1>5, <1>7, <1>8, RenormalisedIs
<1>10. ASSUME NEW w \in Seq({0, 1}), NEW dec, Fits(t, w)
       PROVE  /\ Fits(e, w)
              /\ Tracks(e, dec, w) => /\ biari_decode_final(dec).bin = 1
                                    /\ biari_decode_final(dec).models = t.models
                                    /\ biari_decode_final(dec) \in DecoderState
  <2>1. Fits(s, w)
    BY <1>9, <1>10 DEF Follows
  <2>2. Fits(e, w) /\ Window(e, w) \in Nat /\ n <= Window(e, w)
    <3>1. n + 2 <= l + r /\ l <= n
      BY <1>4
    <3>2. n + 2 <= e.low + e.range /\ e.low <= n
      BY <1>2, <1>3, <3>1
    <3> QED BY <1>6, <2>1, <3>2, InsideFits
  <2>3. ASSUME Tracks(e, dec, w)
        PROVE  /\ biari_decode_final(dec).bin = 1 /\ biari_decode_final(dec).models = t.models
               /\ biari_decode_final(dec) \in DecoderState
    <3>1. dec \in DecoderState /\ dec.range = r /\ dec.models = e.models /\ dec.value = Window(e, w) - l
      BY <1>2, <1>3, <2>3 DEF Tracks
    <3>2. dec.value >= dec.range - 2
      <4>1. PICK a \in Nat : a = Window(e, w)
        BY <2>2
      <4>2. a - l >= r - 2
        BY <1>4, <2>2, <4>1
      <4> QED BY <3>1, <4>1, <4>2
    <3>3. biari_decode_final(dec) = [dec EXCEPT !.bin = 1]
      BY <3>2 DEF biari_decode_final
    <3>4. /\ biari_decode_final(dec) \in DecoderState /\ biari_decode_final(dec).bin = 1
          /\ biari_decode_final(dec).models = dec.models
      <4>1. dec \in DecoderState
        BY <3>1
      <4> QED BY <3>3, <4>1 DEF DecoderState
    <3> QED BY <1>6, <1>9, <3>1, <3>4
  <2> QED BY <2>2, <2>3
<1> QED BY <1>6, <1>9, <1>10

\* Every decision but the one that the slice ends.
LEMMA EncodedIs ==
    ASSUME NEW e, Ready(e), NEW x \in Contexts \X {0, 1}, x # <<FinalBin, 1>>, NEW t, t = EncodedBin(e, x)
    PROVE  /\ Ready(t)
           /\ \A w \in Seq({0, 1}) : \A dec : Answered(e, t, dec, DecodedBin(dec, x[1]), w, x[2])
<1>1. x[1] \in Contexts /\ x[2] \in {0, 1} /\ x = <<x[1], x[2]>>
  OBVIOUS
<1>2. EqProb # FinalBin
  BY DEF EqProb, FinalBin
<1>3. CASE x[1] = EqProb
  <2>1. t = biari_encode_symbol_eq_prob(e, x[2]) /\ \A dec : DecodedBin(dec, x[1]) = biari_decode_symbol_eq_prob(dec)
    BY <1>2, <1>3 DEF EncodedBin, DecodedBin
  <2> QED BY <1>1, <2>1, EqProbIs
<1>4. CASE x[1] = FinalBin
  <2>1. x[2] = 0
    BY <1>1, <1>4
  <2>2. t = biari_encode_symbol_final(e, x[2]) /\ \A dec : DecodedBin(dec, x[1]) = biari_decode_final(dec)
    BY <1>2, <1>4 DEF EncodedBin, DecodedBin
  <2> QED BY <2>1, <2>2, FinalNot
<1>5. CASE x[1] # EqProb /\ x[1] # FinalBin
  <2>1. t = biari_encode_symbol(e, x[1], x[2]) /\ \A dec : DecodedBin(dec, x[1]) = biari_decode_symbol(dec, x[1])
    BY <1>5 DEF EncodedBin, DecodedBin
  <2>2. x[1] \in DOMAIN CtxIni
    BY <1>1, <1>5 DEF Contexts
  <2> QED BY <1>1, <2>1, <2>2, SymbolIs
<1> QED BY <1>3, <1>4, <1>5

-----------------------------------------------------------------------------
(* The ends of a slice. What the two bits and the one after them are followed *)
(* by in the decoder's buffer does not matter.                                *)
LEMMA StartIs ==
    /\ Ready(arienco_start_encoding)
    /\ \A w \in Seq({0, 1}) : Tracks(arienco_start_encoding, arideco_start_decoding(w), w)
<1> DEFINE e == arienco_start_encoding
<1>1. e = [low |-> 0, range |-> 510, follow |-> 0, first |-> TRUE, bits |-> <<>>, models |-> init_contexts]
  BY DEF arienco_start_encoding, HALF
<1> HIDE DEF e
<1>2. e \in CoderState /\ e.low = 0 /\ e.range = 510 /\ e.follow = 0 /\ e.first /\ e.models = init_contexts
  BY <1>1, StartModels DEF CoderState
<1>3. Place(e) = 0
  BY <1>2 DEF Place
<1>4. At(e) = 10
  BY <1>2, <1>3 DEF At
<1>5. Ready(e)
  BY <1>2 DEF Ready, Within, QUARTER, HALF, ONE
<1>6. ASSUME NEW w \in Seq({0, 1})
      PROVE  Tracks(e, arideco_start_decoding(w), w)
  <2>1. PICK n \in 0..511 : n = Nine(w, 1)
    BY NineShifts, ZenonT(60)
  <2>2. arideco_start_decoding(w) =
            [value |-> n, range |-> 510, at |-> 10, bits |-> w, bin |-> 0, models |-> init_contexts]
    BY <2>1 DEF arideco_start_decoding, HALF
  <2>3. Window(e, w) = n
    <3>1. BitAt(w, 0) = 0
      BY BitIs
    <3>2. 0 + 0 + 1 = 1
      OBVIOUS
    <3>3. Window(e, w) = 512 * 0 + n
      BY <1>2, <1>3, <2>1, <3>1, <3>2 DEF Window, HALF
    <3> QED BY <3>3
  <2>4. arideco_start_decoding(w) \in DecoderState
    <3>1. PICK M \in Models : M = init_contexts
      BY StartModels
    <3>2. arideco_start_decoding(w) = [value |-> n, range |-> 510, at |-> 10, bits |-> w, bin |-> 0, models |-> M]
      BY <2>2, <3>1
    <3>3. n \in Int /\ 510 \in Nat /\ 10 \in Nat /\ 0 \in {0, 1}
      OBVIOUS
    <3> QED BY <3>2, <3>3 DEF DecoderState
  <2> QED BY <1>2, <1>4, <2>2, <2>3, <2>4 DEF Tracks
<1> QED BY <1>5, <1>6 DEF e

LEMMA LastBits ==
    ASSUME NEW l \in 0..768, l % 128 = 0
    PROVE  \E b \in {0, 1}, c \in {0, 1}, m \in {0, 128} :
               /\ b = (l \div 512) % 2 /\ c = (l \div 256) % 2 /\ l = 512 * b + (256 * c + m)
               /\ l <= 256 => b = 0
<1>1. l \in {0, 128, 256, 384, 512, 640, 768}
  OBVIOUS
<1>2. CASE l = 0
  <2>1. (l \div 512) % 2 = 0 /\ (l \div 256) % 2 = 0
    BY <1>2
  <2> WITNESS 0 \in {0, 1}, 0 \in {0, 1}, 0 \in {0, 128}
  <2> QED BY <1>2, <2>1
<1>3. CASE l = 128
  <2>1. (l \div 512) % 2 = 0 /\ (l \div 256) % 2 = 0
    BY <1>3
  <2> WITNESS 0 \in {0, 1}, 0 \in {0, 1}, 128 \in {0, 128}
  <2> QED BY <1>3, <2>1
<1>4. CASE l = 256
  <2>1. (l \div 512) % 2 = 0 /\ (l \div 256) % 2 = 1
    BY <1>4
  <2> WITNESS 0 \in {0, 1}, 1 \in {0, 1}, 0 \in {0, 128}
  <2> QED BY <1>4, <2>1
<1>5. CASE l = 384
  <2>1. (l \div 512) % 2 = 0 /\ (l \div 256) % 2 = 1
    BY <1>5
  <2> WITNESS 0 \in {0, 1}, 1 \in {0, 1}, 128 \in {0, 128}
  <2> QED BY <1>5, <2>1
<1>6. CASE l = 512
  <2>1. (l \div 512) % 2 = 1 /\ (l \div 256) % 2 = 0
    BY <1>6
  <2> WITNESS 1 \in {0, 1}, 0 \in {0, 1}, 0 \in {0, 128}
  <2> QED BY <1>6, <2>1
<1>7. CASE l = 640
  <2>1. (l \div 512) % 2 = 1 /\ (l \div 256) % 2 = 0
    BY <1>7
  <2> WITNESS 1 \in {0, 1}, 0 \in {0, 1}, 128 \in {0, 128}
  <2> QED BY <1>7, <2>1
<1>8. CASE l = 768
  <2>1. (l \div 512) % 2 = 1 /\ (l \div 256) % 2 = 1
    BY <1>8
  <2> WITNESS 1 \in {0, 1}, 1 \in {0, 1}, 0 \in {0, 128}
  <2> QED BY <1>8, <2>1
<1> QED BY <1>1, <1>2, <1>3, <1>4, <1>5, <1>6, <1>7, <1>8

AfterFirst(w, i) == Nine(w, i) - 256 * BitAt(w, i)

LEMMA NineIs ==
    ASSUME NEW w \in Seq({0, 1}), NEW i \in Nat, BitAt(w, i + 1) = 1
    PROVE  AfterFirst(w, i) \in 128..255 /\ Nine(w, i) \in Nat
<1>0. PICK b \in 0..1 : b = BitAt(w, i)
  BY BitIs
<1>1. PICK b2 \in 0..1 : b2 = BitAt(w, i + 2)
  BY BitIs
<1>2. PICK b3 \in 0..1 : b3 = BitAt(w, i + 3)
  BY BitIs
<1>3. PICK b4 \in 0..1 : b4 = BitAt(w, i + 4)
  BY BitIs
<1>4. PICK b5 \in 0..1 : b5 = BitAt(w, i + 5)
  BY BitIs
<1>5. PICK b6 \in 0..1 : b6 = BitAt(w, i + 6)
  BY BitIs
<1>6. PICK b7 \in 0..1 : b7 = BitAt(w, i + 7)
  BY BitIs
<1>7. PICK b8 \in 0..1 : b8 = BitAt(w, i + 8)
  BY BitIs
<1>8. i + 0 = i
  OBVIOUS
<1>9. Nine(w, i) = 256 * b + 128 * 1 + 64 * b2 + 32 * b3 + 16 * b4 + 8 * b5 + 4 * b6 + 2 * b7 + b8
  BY <1>0, <1>1, <1>2, <1>3, <1>4, <1>5, <1>6, <1>7, <1>8 DEF Nine
<1>10. PICK x \in 0..127 : x = 64 * b2 + 32 * b3 + 16 * b4 + 8 * b5 + 4 * b6 + 2 * b7 + b8
  OBVIOUS
<1>11. Nine(w, i) = 256 * b + (128 + x)
  BY <1>9, <1>10
<1>12. AfterFirst(w, i) = (256 * b + (128 + x)) - 256 * b
  BY <1>0, <1>11 DEF AfterFirst
<1>13. (256 * b + (128 + x)) - 256 * b \in 128..255 /\ 256 * b + (128 + x) \in Nat
  OBVIOUS
<1> QED BY <1>11, <1>12, <1>13

LEMMA ConcatIs ==
    ASSUME NEW S, NEW s \in Seq(S), NEW r \in Seq(S)
    PROVE  /\ s \o r \in Seq(S) /\ Len(s \o r) = Len(s) + Len(r) /\ Len(s) \in Nat /\ Len(r) \in Nat
           /\ \A i \in 1..Len(s) : (s \o r)[i] = s[i]
           /\ \A i \in 1..Len(r) : (s \o r)[Len(s) + i] = r[i]
OBVIOUS

LEMMA TwoMore ==
    ASSUME NEW s \in Seq({0, 1}), NEW b \in {0, 1}, NEW c \in {0, 1}, NEW r \in Seq({0, 1})
    PROVE  LET w == (s \o <<b, c>>) \o r
           IN  /\ w \in Seq({0, 1}) /\ Len(w) >= Len(s) + 2
               /\ \A i \in 1..Len(s) : w[i] = s[i]
               /\ w[Len(s) + 1] = b /\ w[Len(s) + 2] = c
<1> DEFINE y == <<b, c>>
           v == s \o y
<1>a. y \in Seq({0, 1})
  OBVIOUS
<1>1. y \in Seq({0, 1}) /\ Len(y) = 2 /\ y[1] = b /\ y[2] = c
  OBVIOUS
<1> HIDE DEF y
<1>2. /\ v \in Seq({0, 1}) /\ Len(v) = Len(s) + 2 /\ Len(s) \in Nat
      /\ \A i \in 1..Len(s) : v[i] = s[i]
      /\ v[Len(s) + 1] = b /\ v[Len(s) + 2] = c
  <2>1. /\ v \in Seq({0, 1}) /\ Len(v) = Len(s) + Len(y) /\ Len(s) \in Nat
        /\ \A i \in 1..Len(s) : v[i] = s[i]
        /\ \A i \in 1..Len(y) : v[Len(s) + i] = y[i]
    BY <1>a, ConcatIs
  <2> HIDE DEF v
  <2>2. 1 \in 1..Len(y) /\ 2 \in 1..Len(y)
    BY <1>1
  <2> QED BY <1>1, <2>1, <2>2
<1> HIDE DEF v
<1>3. v \o r \in Seq({0, 1}) /\ Len(v \o r) >= Len(v) /\ \A i \in 1..Len(v) : (v \o r)[i] = v[i]
  <2>1. /\ v \o r \in Seq({0, 1}) /\ Len(v \o r) = Len(v) + Len(r) /\ Len(v) \in Nat /\ Len(r) \in Nat
        /\ \A i \in 1..Len(v) : (v \o r)[i] = v[i]
    BY <1>2, ConcatIs, ZenonT(60)
  <2> QED BY <2>1
<1>4. /\ \A i \in 1..Len(s) : i \in 1..Len(v)
      /\ Len(s) + 1 \in 1..Len(v) /\ Len(s) + 2 \in 1..Len(v)
  BY <1>2
<1>5. /\ v \o r \in Seq({0, 1}) /\ Len(v \o r) >= Len(s) + 2
      /\ \A i \in 1..Len(s) : (v \o r)[i] = s[i]
      /\ (v \o r)[Len(s) + 1] = b /\ (v \o r)[Len(s) + 2] = c
  BY <1>2, <1>3, <1>4
<1> QED BY <1>5 DEF v, y

\* The encoder after the decision that the slice ends.
Ended(e) == Ready(e) /\ e.low % 128 = 0 /\ e.range = 256

LEMMA DoneFits ==
    ASSUME NEW e, Ended(e), NEW stale \in Seq({0, 1})
    PROVE  /\ arienco_done_encoding(e) \o stale \in Seq({0, 1})
           /\ Fits(e, arienco_done_encoding(e) \o stale)
<1>0. Ready(e)
  BY DEF Ended
<1>1. e \in CoderState
  BY <1>0, ReadyIs
<1>2. PICK k \in Nat : k = e.low
  BY <1>0, ReadyIs
<1>3. k \in 0..768 /\ k % 128 = 0 /\ e.range = 256
  <2>1. e.range = 256 /\ k % 128 = 0
    BY <1>2 DEF Ended
  <2>2. e.low + e.range <= 1024
    BY <1>0 DEF Ready, Within, ONE
  <2>3. k + 256 <= 1024
    BY <1>2, <2>1, <2>2
  <2>4. k \in 0..768
    BY <2>3
  <2> QED BY <2>1, <2>4
<1>4. e.first => k <= 256
  <2>1. e.first => e.low + e.range <= 512
    BY <1>0 DEF Ready, Within, HALF
  <2>2. CASE e.first
    <3>1. e.low + e.range <= 512
      BY <2>1, <2>2
    <3> QED BY <1>2, <1>3, <3>1
  <2> QED BY <2>2
<1>5. PICK b \in {0, 1}, c \in {0, 1}, m \in {0, 128} :
          /\ b = (k \div 512) % 2 /\ c = (k \div 256) % 2 /\ k = 512 * b + (256 * c + m)
          /\ k <= 256 => b = 0
  <2>1. k \in 0..768 /\ k % 128 = 0
    BY <1>3
  <2> QED BY <2>1, LastBits
<1>6. e.first => b = 0
  BY <1>4, <1>5
<1> DEFINE u == put_one_bit_plus_outstanding(e, b)
           w == arienco_done_encoding(e) \o stale
           p == Place(e)
           n == e.follow
           l == Len(e.bits)
<1>7. w = (u.bits \o <<c, 1>>) \o stale
  BY <1>2, <1>5 DEF arienco_done_encoding, HALF, QUARTER
<1>8. n \in Nat /\ l \in Nat /\ p \in Nat /\ l <= p
  BY <1>1, CoderFields
<1>9. (~e.first => p \in 1..p) /\ (e.first => p = 0)
  BY <1>1, CoderFields
<1>10. u.bits \in Seq({0, 1})
  <2>1. u \in CoderState
    BY <1>1, PutIs
  <2> QED BY <2>1, CoderFields
<1>11. /\ Len(u.bits) = p + n
       /\ \A i \in 1..l : u.bits[i] = e.bits[i]
       /\ ~e.first => u.bits[p] = b
       /\ \A i \in 1..n : u.bits[p + i] = 1 - b
  BY <1>1, PutIs
<1> HIDE DEF u, w, p, n, l
<1>12. PICK s \in Seq({0, 1}) : s = u.bits
  BY <1>10
<1>13. /\ w \in Seq({0, 1}) /\ Len(w) >= Len(s) + 2
       /\ \A i \in 1..Len(s) : w[i] = s[i]
       /\ w[Len(s) + 1] = c /\ w[Len(s) + 2] = 1
  BY <1>7, <1>12, TwoMore
<1>14. /\ \A i \in 1..p + n : BitAt(w, i) = u.bits[i]
       /\ BitAt(w, p + n + 1) = c /\ BitAt(w, p + n + 2) = 1
  <2>1. Len(s) = p + n
    BY <1>11, <1>12
  <2> QED BY <1>8, <1>12, <1>13, <2>1 DEF BitAt
<1>15. BitAt(w, p) = b
  <2>1. CASE e.first
    BY <1>6, <1>8, <1>9, <1>13, <2>1, BitIs
  <2>2. CASE ~e.first
    <3>1. p \in 1..p + n
      BY <1>8, <1>9, <2>2
    <3> QED BY <1>11, <1>14, <2>2, <3>1
  <2> QED BY <2>1, <2>2
<1>16. Agrees(e, w)
  <2>1. \A i \in 1..l : BitAt(w, i) = e.bits[i]
    <3>1. \A i \in 1..l : i \in 1..p + n
      BY <1>8
    <3> QED BY <1>11, <1>14, <3>1, ZenonT(60)
  <2>2. \A i \in 1..n : BitAt(w, p + i) = 1 - BitAt(w, p)
    <3>1. \A i \in 1..n : p + i \in 1..p + n
      BY <1>8
    <3> QED BY <1>11, <1>14, <1>15, <3>1
  <2> QED BY <2>1, <2>2 DEF Agrees, l, n, p
<1>17. PICK x \in 128..255 : Nine(w, p + n + 1) = 256 * c + x
  <2>1. PICK q \in Nat : q = p + n + 1
    BY <1>8
  <2>2. BitAt(w, q + 1) = 1
    <3>1. q + 1 = p + n + 2
      BY <1>8, <2>1
    <3> QED BY <1>14, <2>1, <3>1
  <2>3. w \in Seq({0, 1})
    BY <1>13
  <2>4. AfterFirst(w, q) \in 128..255 /\ Nine(w, q) \in Nat
    BY <2>2, <2>3, NineIs
  <2>5. PICK x \in 128..255, y \in Nat : x = AfterFirst(w, q) /\ y = Nine(w, q)
    BY <2>4
  <2>6. x = y - 256 * c
    BY <1>14, <2>1, <2>5 DEF AfterFirst
  <2>7. y = 256 * c + x
    BY <2>6
  <2> QED BY <2>1, <2>5, <2>7
<1>18. Window(e, w) = 512 * b + (256 * c + x)
  BY <1>15, <1>17 DEF Window, HALF, p, n
<1>19. k <= 512 * b + (256 * c + x) /\ 512 * b + (256 * c + x) < k + 256
  BY <1>5
<1>20. e.low <= Window(e, w) /\ Window(e, w) < e.low + e.range
  BY <1>2, <1>3, <1>18, <1>19
<1> QED BY <1>13, <1>16, <1>20 DEF Fits, w

-----------------------------------------------------------------------------
(* The decisions one after the other.                                         *)
LEMMA Induction ==
    ASSUME NEW S, S \subseteq Nat, 0 \in S, \A n \in Nat : n \in S => n + 1 \in S
    PROVE  S = Nat
<1> DEFINE Less == OpToRel(<, Nat)
<1>1. IsWellFoundedOn(Less, Nat) /\ \A x, y \in Nat : <<x, y>> \in Less <=> x < y
  BY NatLessThanWellFounded DEF OpToRel
<1> HIDE DEF Less
<1> SUFFICES ASSUME Nat \ S # {} PROVE FALSE
  OBVIOUS
<1>2. PICK x \in Nat \ S : \A y \in Nat \ S : <<y, x>> \notin Less
  BY <1>1, WFMin, ZenonT(60)
<1>3. x - 1 \in Nat /\ x - 1 < x /\ (x - 1) + 1 = x
  BY <1>2
<1>4. x - 1 \in S
  BY <1>1, <1>2, <1>3
<1> QED BY <1>2, <1>3, <1>4

\* The environments between repetitions of a decision.
Repetitions(A, e, x, n) ==
    /\ A[0] = e
    /\ Repeated(e, x, n) = A[n]
    /\ \A k \in 1..n : A[k] = EncodedBin(A[k - 1], x)

LEMMA RepeatedIs ==
    ASSUME NEW e, NEW x, NEW n \in Nat
    PROVE  \E A : Repetitions(A, e, x, n)
<1> DEFINE Is(f, m) == f = [k \in 0..m |-> IF k = 0 THEN e ELSE EncodedBin(f[k - 1], x)]
           S == {m \in Nat : \E f : Is(f, m)}
<1>1. 0 \in S
  <2> DEFINE f == [k \in 0..0 |-> e]
  <2>1. Is(f, 0)
    OBVIOUS
  <2> QED BY <2>1
<1>2. ASSUME NEW m \in Nat, m \in S
      PROVE  m + 1 \in S
  <2>1. PICK f : Is(f, m)
    BY <1>2
  <2> DEFINE g == [k \in 0..m + 1 |-> IF k = 0 THEN e ELSE EncodedBin(f[k - 1], x)]
  <2>2. \A k \in 0..m : g[k] = f[k]
    <3>1. \A k \in 0..m : k \in 0..m + 1
      OBVIOUS
    <3> QED BY <2>1, <3>1
  <2>3. \A k \in 0..m + 1 : k # 0 => g[k - 1] = f[k - 1]
    <3>1. \A k \in 0..m + 1 : k # 0 => k - 1 \in 0..m
      OBVIOUS
    <3> QED BY <2>2, <3>1
  <2>4. Is(g, m + 1)
    BY <2>3
  <2> HIDE DEF Is, g
  <2> QED BY <2>4
<1> HIDE DEF Is
<1>3. S = Nat
  <2>1. S \subseteq Nat
    OBVIOUS
  <2> HIDE DEF S
  <2> QED BY <1>1, <1>2, <2>1, Induction
<1>4. \E f : Is(f, n)
  BY <1>3
<1> DEFINE A == CHOOSE f : Is(f, n)
<1>5. Is(A, n)
  BY <1>4
<1>6. Repeated(e, x, n) = A[n]
  BY DEF Repeated, Is
<1> HIDE DEF A
<1>7. A = [k \in 0..n |-> IF k = 0 THEN e ELSE EncodedBin(A[k - 1], x)]
  BY <1>5 DEF Is
<1>8. 0 \in 0..n /\ \A k \in 1..n : k \in 0..n /\ k # 0
  OBVIOUS
<1>9. A[0] = e /\ \A k \in 1..n : A[k] = EncodedBin(A[k - 1], x)
  BY <1>7, <1>8
<1> QED BY <1>6, <1>9 DEF Repetitions

\* The environments of the encoder from the start of the slice on.
Coded(E, ds) ==
    /\ E[0] = arienco_start_encoding
    /\ \A i \in 1..Len(ds) : E[i] = EncodedBin(E[i - 1], ds[i])
    /\ \A i \in 0..Len(ds) : Ready(E[i])

Decisions == Contexts \X {0, 1}
IsEnd(x) == x = <<FinalBin, 1>>

LEMMA AllCoded ==
    ASSUME NEW A, NEW n \in Nat, NEW x \in Decisions, ~IsEnd(x), Ready(A[0]),
           \A k \in 1..n : A[k] = EncodedBin(A[k - 1], x)
    PROVE  \A k \in 0..n : Ready(A[k])
<1> DEFINE S == {k \in Nat : k <= n => Ready(A[k])}
<1>1. 0 \in S
  OBVIOUS
<1>2. ASSUME NEW k \in Nat, k \in S
      PROVE  k + 1 \in S
  <2> SUFFICES ASSUME k + 1 <= n PROVE Ready(A[k + 1])
    OBVIOUS
  <2>1. k + 1 \in 1..n /\ k + 1 - 1 = k /\ k <= n
    OBVIOUS
  <2>2. A[k + 1] = EncodedBin(A[k], x) /\ Ready(A[k])
    BY <1>2, <2>1
  <2> QED BY <2>2, EncodedIs DEF Decisions, IsEnd
<1>3. S \subseteq Nat
  OBVIOUS
<1> HIDE DEF S
<1>4. S = Nat
  BY <1>1, <1>2, <1>3, Induction
<1> QED BY <1>4 DEF S

LEMMA CodedOn ==
    ASSUME NEW E, NEW ds \in Seq(Decisions), Coded(E, ds), NEW n \in Nat, NEW x \in Decisions, ~IsEnd(x)
    PROVE  \E G : /\ Coded(G, ds \o [i \in 1..n |-> x])
                  /\ G[Len(ds) + n] = Repeated(E[Len(ds)], x, n)
<1> DEFINE l == Len(ds)
           xs == [i \in 1..n |-> x]
           all == ds \o xs
<1>1. l \in Nat
  OBVIOUS
<1>2. PICK A : Repetitions(A, E[l], x, n)
  <2> DEFINE e == E[l]
  <2> HIDE DEF e, l, xs, all
  <2>1. \E A : Repetitions(A, e, x, n)
    BY RepeatedIs
  <2> QED BY <2>1 DEF e
<1>3. /\ A[0] = E[l] /\ Repeated(E[l], x, n) = A[n]
       /\ \A k \in 1..n : A[k] = EncodedBin(A[k - 1], x)
  BY <1>2 DEF Repetitions
<1>4. \A k \in 0..n : Ready(A[k])
  <2>1. Ready(A[0])
    BY <1>1, <1>3 DEF Coded
  <2> QED BY <1>3, <2>1, AllCoded
<1>5. /\ Len(all) = l + n
      /\ \A i \in 1..l : all[i] = ds[i]
      /\ \A i \in 1..n : all[l + i] = x
  <2>0. xs \in Seq(Decisions)
    OBVIOUS
  <2>1. Len(xs) = n /\ \A i \in 1..n : xs[i] = x
    OBVIOUS
  <2> HIDE DEF xs
  <2>2. /\ Len(all) = Len(ds) + Len(xs)
        /\ \A i \in 1..Len(ds) : all[i] = ds[i]
        /\ \A i \in 1..Len(xs) : all[Len(ds) + i] = xs[i]
    BY <2>0, ConcatIs
  <2> QED BY <2>1, <2>2
<1> DEFINE G == [i \in 0..l + n |-> IF i <= l THEN E[i] ELSE A[i - l]]
<1>6. /\ \A i \in 0..l : G[i] = E[i]
      /\ \A i \in 0..n : G[l + i] = A[i]
  <2>1. \A i \in 0..l : G[i] = E[i]
    BY <1>1
  <2>2. ASSUME NEW i \in 0..n PROVE G[l + i] = A[i]
    <3>1. l + i \in 0..l + n /\ l + i - l = i
      BY <1>1
    <3>2. CASE i = 0
      <4>1. l + i = l /\ l \in 0..l
        BY <1>1, <3>2
      <4> HIDE DEF G
      <4> QED BY <1>3, <2>1, <3>2, <4>1
    <3>3. CASE i # 0
      <4>1. ~(l + i <= l)
        BY <1>1, <3>3
      <4> QED BY <3>1, <4>1
    <3> QED BY <3>2, <3>3
  <2> QED BY <2>1, <2>2
<1> HIDE DEF G, all, xs
<1>7. G[0] = arienco_start_encoding
  BY <1>1, <1>6 DEF Coded
<1>8. ASSUME NEW i \in 1..l + n
      PROVE  G[i] = EncodedBin(G[i - 1], all[i])
  <2>1. CASE i <= l
    <3>1. i \in 1..l /\ i \in 0..l /\ i - 1 \in 0..l
      BY <1>1, <2>1
    <3>2. E[i] = EncodedBin(E[i - 1], ds[i])
      BY <3>1 DEF Coded
    <3> QED BY <1>5, <1>6, <3>1, <3>2
  <2>2. CASE ~(i <= l)
    <3>1. PICK k \in 1..n : i = l + k
      <4>1. i - l \in 1..n /\ i = l + (i - l)
        BY <1>1, <2>2
      <4> QED BY <4>1
    <3>2. k \in 0..n /\ k - 1 \in 0..n /\ l + k - 1 = l + (k - 1)
      BY <1>1
    <3>3. G[l + k] = A[k] /\ G[l + (k - 1)] = A[k - 1] /\ all[l + k] = x
      BY <1>5, <1>6, <3>2
    <3> QED BY <1>3, <3>1, <3>2, <3>3
  <2> QED BY <2>1, <2>2
<1>9. ASSUME NEW i \in 0..l + n
      PROVE  Ready(G[i])
  <2>1. CASE i <= l
    <3>1. i \in 0..l
      BY <1>1, <2>1
    <3> QED BY <1>6, <3>1 DEF Coded
  <2>2. CASE ~(i <= l)
    <3>1. PICK k \in 0..n : i = l + k
      <4>1. i - l \in 0..n /\ i = l + (i - l)
        BY <1>1, <2>2
      <4> QED BY <4>1
    <3> QED BY <1>4, <1>6, <3>1
  <2> QED BY <2>1, <2>2
<1>10. Coded(G, all)
  BY <1>5, <1>7, <1>8, <1>9 DEF Coded
<1>11. G[l + n] = A[n]
  BY <1>6
<1> QED BY <1>3, <1>10, <1>11 DEF all, xs

\* A codeword that fits the end fits all that was before it.
LEMMA FitsAll ==
    ASSUME NEW E, NEW ds \in Seq(Decisions), Coded(E, ds), NEW n \in Nat, n < Len(ds),
           \A i \in 1..n : ~IsEnd(ds[i]), NEW w \in Seq({0, 1}), Fits(E[n], w)
    PROVE  \A i \in 0..n : Fits(E[i], w)
<1> DEFINE S == {k \in Nat : k <= n => Fits(E[n - k], w)}
<1>1. 0 \in S
  <2>1. n - 0 = n
    OBVIOUS
  <2> QED BY <2>1
<1>2. ASSUME NEW k \in Nat, k \in S
      PROVE  k + 1 \in S
  <2> SUFFICES ASSUME k + 1 <= n PROVE Fits(E[n - (k + 1)], w)
    OBVIOUS
  <2>1. PICK i \in 1..n : i = n - k
    <3>1. n - k \in 1..n
      OBVIOUS
    <3> QED BY <3>1
  <2>2. i - 1 = n - (k + 1) /\ i \in 1..Len(ds) /\ i - 1 \in 0..Len(ds) /\ k <= n
    BY <2>1
  <2>3. E[i] = EncodedBin(E[i - 1], ds[i]) /\ Ready(E[i - 1]) /\ ds[i] \in Decisions /\ ~IsEnd(ds[i])
    BY <2>2 DEF Coded
  <2>4. Fits(E[i], w)
    BY <1>2, <2>1, <2>2
  <2>5. Answered(E[i - 1], E[i], arideco, DecodedBin(arideco, ds[i][1]), w, ds[i][2])
    BY <2>3, EncodedIs DEF Decisions, IsEnd
  <2>6. Fits(E[i - 1], w)
    BY <2>4, <2>5 DEF Answered
  <2> QED BY <2>2, <2>6
<1>3. S \subseteq Nat
  OBVIOUS
<1> HIDE DEF S
<1>4. S = Nat
  BY <1>1, <1>2, <1>3, Induction
<1>5. ASSUME NEW i \in 0..n PROVE Fits(E[i], w)
  <2>1. n - i \in Nat /\ n - i <= n /\ n - (n - i) = i
    OBVIOUS
  <2>2. n - i \in S
    BY <1>4, <2>1
  <2> QED BY <2>1, <2>2 DEF S
<1> QED BY <1>5

(***************************************************************************)
(* What is inductive. While the slice is coded the environment is the last *)
(* one of those of its decisions. When it is decoded, the codeword fits     *)
(* all of them, the answers are the decisions so far and the decoder is     *)
(* where the encoder was after them.                                       *)
(***************************************************************************)
InCoding ==
    /\ arideco = <<>> /\ answers = <<>>
    /\ \A i \in 1..Len(decided) : ~IsEnd(decided[i])
    /\ \E E : Coded(E, decided) /\ E[Len(decided)] = arienco

Tracing(E, w, n) ==
    /\ Coded(E, decided) /\ E[n] = arienco
    /\ w \in Seq({0, 1}) /\ \A i \in 0..n : Fits(E[i], w)
    /\ Len(answers) < n => Tracks(E[Len(answers)], arideco, w)

InDecoding ==
    /\ arideco \in DecoderState
    /\ decided # <<>> /\ IsEnd(decided[Len(decided)])
    /\ \A i \in 1..Len(decided) - 1 : ~IsEnd(decided[i])
    /\ Len(answers) <= Len(decided)
    /\ \A i \in 1..Len(answers) : answers[i] = decided[i]
    /\ \E E, w : Tracing(E, w, Len(decided))
    /\ Len(answers) = Len(decided) => arideco.models = arienco.models

BinsInv ==
    /\ decided \in Seq(Decisions) /\ answers \in Seq(Decisions)
    /\ InCoding \/ InDecoding

LEMMA DecoderIsSome ==
    ASSUME NEW dec \in DecoderState
    PROVE  dec # <<>>
<1>1. DOMAIN dec = {"value", "range", "at", "bits", "bin", "models"}
  BY DEF DecoderState
<1>2. "value" \in DOMAIN dec
  BY <1>1
<1>3. DOMAIN <<>> = {}
  OBVIOUS
<1> QED BY <1>2, <1>3

LEMMA BinsStarts == BinsInit => BinsInv
<1> SUFFICES ASSUME BinsInit PROVE BinsInv
  OBVIOUS
<1>1. decided = <<>> /\ answers = <<>> /\ arideco = <<>> /\ arienco = arienco_start_encoding
  BY DEF BinsInit
<1>2. Len(decided) = 0
  BY <1>1
<1> DEFINE E == [i \in 0..0 |-> arienco]
<1>3. E[0] = arienco
  OBVIOUS
<1> HIDE DEF E
<1>4. Coded(E, decided)
  <2>1. Ready(arienco_start_encoding)
    BY StartIs
  <2>2. \A i \in 0..0 : i = 0
    OBVIOUS
  <2>3. 1..0 = {}
    OBVIOUS
  <2> QED BY <1>1, <1>2, <1>3, <2>1, <2>2, <2>3 DEF Coded
<1>5. \A i \in 1..Len(decided) : ~IsEnd(decided[i])
  BY <1>2
<1>6. InCoding
  BY <1>1, <1>2, <1>3, <1>4, <1>5 DEF InCoding
<1>7. decided \in Seq(Decisions) /\ answers \in Seq(Decisions)
  BY <1>1
<1> QED BY <1>6, <1>7 DEF BinsInv

LEMMA CodeStep ==
    ASSUME BinsInv, NEW ctx \in Contexts, NEW bin \in {0, 1}, NEW n \in Lengths, CodeBins(ctx, bin, n)
    PROVE  BinsInv'
<1> DEFINE x == <<ctx, bin>>
           xs == [i \in 1..n |-> x]
           l == Len(decided)
<1>1. n \in Nat
  BY CoderAssumption
<1>2. /\ arideco = <<>> /\ arideco' = arideco /\ answers' = answers /\ (ctx = FinalBin => bin = 0)
      /\ arienco' = Repeated(arienco, x, n) /\ decided' = decided \o xs
  BY DEF CodeBins
<1>3. x \in Decisions /\ ~IsEnd(x)
  BY <1>2 DEF Decisions, IsEnd
<1>4. decided \in Seq(Decisions) /\ answers \in Seq(Decisions) /\ InCoding
  <2>1. ~InDecoding
    BY <1>2, DecoderIsSome DEF InDecoding
  <2> QED BY <2>1 DEF BinsInv
<1> HIDE DEF x
<1>5. PICK E : Coded(E, decided) /\ E[l] = arienco
  BY <1>4 DEF InCoding
<1>6. PICK G : Coded(G, decided \o xs) /\ G[l + n] = Repeated(E[l], x, n)
  BY <1>1, <1>3, <1>4, <1>5, CodedOn
<1>7. /\ decided' \in Seq(Decisions) /\ Len(decided') = l + n /\ l \in Nat
      /\ \A i \in 1..l : decided'[i] = decided[i]
      /\ \A i \in 1..n : decided'[l + i] = x
  <2>1. xs \in Seq(Decisions)
    BY <1>1, <1>3
  <2>2. Len(xs) = n /\ \A i \in 1..n : xs[i] = x
    BY <1>1
  <2> HIDE DEF xs
  <2>3. /\ decided \o xs \in Seq(Decisions) /\ Len(decided \o xs) = Len(decided) + Len(xs) /\ Len(decided) \in Nat
        /\ \A i \in 1..Len(decided) : (decided \o xs)[i] = decided[i]
        /\ \A i \in 1..Len(xs) : (decided \o xs)[Len(decided) + i] = xs[i]
    BY <1>4, <2>1, ConcatIs
  <2> QED BY <1>2, <2>2, <2>3
<1> HIDE DEF xs, l
<1>8. \A i \in 1..Len(decided') : ~IsEnd(decided'[i])
  <2>1. ASSUME NEW i \in 1..l + n PROVE ~IsEnd(decided'[i])
    <3>1. CASE i <= l
      <4>1. i \in 1..l
        BY <1>7, <3>1
      <4> QED BY <1>4, <1>7, <4>1 DEF InCoding, l
    <3>2. CASE ~(i <= l)
      <4>1. i - l \in 1..n /\ l + (i - l) = i
        BY <1>1, <1>7, <3>2
      <4> QED BY <1>3, <1>7, <4>1
    <3> QED BY <3>1, <3>2
  <2> QED BY <1>7, <2>1
<1>9. Coded(G, decided') /\ G[Len(decided')] = arienco'
  BY <1>2, <1>5, <1>6, <1>7
<1>10. InCoding'
  BY <1>2, <1>4, <1>8, <1>9 DEF InCoding
<1>11. answers' \in Seq(Decisions)
  BY <1>2, <1>4
<1> QED BY <1>7, <1>10, <1>11 DEF BinsInv

LEMMA EndStep ==
    ASSUME BinsInv, EndCoding
    PROVE  BinsInv'
<1> DEFINE x == <<FinalBin, 1>>
<1>l. PICK l : l = Len(decided)
  OBVIOUS
<1>t. PICK t : t = arienco'
  OBVIOUS
<1>1. PICK stale \in StaleBits : arideco' = arideco_start_decoding(arienco_done_encoding(t) \o stale)
  BY <1>t DEF EndCoding
<1>2. /\ arideco = <<>> /\ answers' = answers
      /\ arienco' = EncodedBin(arienco, x) /\ decided' = Append(decided, x)
  BY DEF EndCoding
<1>3. x \in Decisions /\ IsEnd(x)
  BY DEF Decisions, IsEnd, Contexts
<1>4. decided \in Seq(Decisions) /\ answers \in Seq(Decisions) /\ InCoding
  <2>1. ~InDecoding
    BY <1>2, DecoderIsSome DEF InDecoding
  <2> QED BY <2>1 DEF BinsInv
<1>5. PICK E : Coded(E, decided) /\ E[l] = arienco
  BY <1>4, <1>l DEF InCoding
<1>6. l \in Nat
  BY <1>4, <1>l
<1>7. Ready(arienco)
  BY <1>5, <1>6, <1>l DEF Coded
<1>8. t = biari_encode_symbol_final(arienco, 1)
  <2>1. EqProb # FinalBin
    BY DEF EqProb, FinalBin
  <2> QED BY <1>2, <1>t, <2>1 DEF EncodedBin
<1>9. /\ Ready(t) /\ Ended(t)
      /\ \A w \in Seq({0, 1}) : Fits(t, w) => Fits(arienco, w)
  <2>1. Ready(t) /\ t.low % 128 = 0 /\ t.range = 256
    BY <1>7, <1>8, FinalEnd
  <2>2. ASSUME NEW w \in Seq({0, 1}), Fits(t, w) PROVE Fits(arienco, w)
    BY <1>7, <1>8, <2>2, FinalEnd
  <2> QED BY <2>1, <2>2 DEF Ended
<1>w. PICK w : w = arienco_done_encoding(t) \o stale
  OBVIOUS
<1>10. w \in Seq({0, 1}) /\ Fits(t, w)
  BY <1>9, <1>w, CoderAssumption, DoneFits
<1>11. arideco' = arideco_start_decoding(w)
  BY <1>1, <1>w
<1>12. PICK G : (\A i \in 0..l : G[i] = E[i]) /\ G[l + 1] = t
  <2> DEFINE H == [i \in 0..l + 1 |-> IF i <= l THEN E[i] ELSE t]
  <2>1. (\A i \in 0..l : H[i] = E[i]) /\ H[l + 1] = t
    BY <1>6
  <2> QED BY <2>1
<1>13. /\ decided' \in Seq(Decisions) /\ Len(decided') = l + 1 /\ decided'[l + 1] = x
       /\ \A i \in 1..l : decided'[i] = decided[i]
  BY <1>2, <1>3, <1>4, <1>l
<1> HIDE DEF x
<1>14. Coded(G, decided')
  <2>1. G[0] = arienco_start_encoding
    BY <1>5, <1>6, <1>l, <1>12 DEF Coded
  <2>2. ASSUME NEW i \in 1..l + 1 PROVE G[i] = EncodedBin(G[i - 1], decided'[i])
    <3>1. CASE i = l + 1
      <4>1. i - 1 = l /\ l \in 0..l
        BY <1>6, <3>1
      <4> QED BY <1>2, <1>t, <1>5, <1>12, <1>13, <3>1, <4>1
    <3>2. CASE i # l + 1
      <4>1. i \in 1..l /\ i \in 0..l /\ i - 1 \in 0..l
        BY <1>6, <3>2
      <4>2. E[i] = EncodedBin(E[i - 1], decided[i])
        BY <1>5, <1>l, <4>1 DEF Coded
      <4> QED BY <1>12, <1>13, <4>1, <4>2
    <3> QED BY <3>1, <3>2
  <2>3. ASSUME NEW i \in 0..l + 1 PROVE Ready(G[i])
    <3>1. CASE i = l + 1
      BY <1>9, <1>12, <3>1
    <3>2. CASE i # l + 1
      <4>1. i \in 0..l
        BY <1>6, <3>2
      <4> QED BY <1>5, <1>l, <1>12, <4>1 DEF Coded
    <3> QED BY <3>1, <3>2
  <2> QED BY <1>13, <2>1, <2>2, <2>3 DEF Coded
<1>15. \A i \in 0..l + 1 : Fits(G[i], w)
  <2>1. Fits(G[l], w)
    <3>1. l \in 0..l
      BY <1>6
    <3> QED BY <1>5, <1>9, <1>10, <1>12, <3>1
  <2>2. \A i \in 1..l : ~IsEnd(decided'[i])
    BY <1>4, <1>l, <1>13 DEF InCoding
  <2>3. l < Len(decided')
    BY <1>6, <1>13
  <2>4. \A i \in 0..l : Fits(G[i], w)
    BY <1>6, <1>10, <1>13, <1>14, <2>1, <2>2, <2>3, FitsAll
  <2>5. \A i \in 0..l + 1 : i \in 0..l \/ i = l + 1
    BY <1>6
  <2> QED BY <1>10, <1>12, <2>4, <2>5
<1>16. answers' = <<>> /\ Len(answers') = 0
  BY <1>2, <1>4 DEF InCoding
<1>17. Tracks(G[0], arideco', w)
  <2>1. G[0] = arienco_start_encoding
    BY <1>14 DEF Coded
  <2> QED BY <1>10, <1>11, <2>1, StartIs
<1>18. Tracing(G, w, Len(decided))'
  <2>1. l + 1 = Len(decided')
    BY <1>13
  <2> QED BY <1>10, <1>12, <1>14, <1>15, <1>16, <1>17, <1>t, <2>1 DEF Tracing
<1>19. arideco' \in DecoderState
  BY <1>17 DEF Tracks
<1>20. InDecoding'
  <2>1. /\ decided' # <<>> /\ IsEnd(decided'[Len(decided')])
        /\ Len(answers') <= Len(decided') /\ Len(answers') # Len(decided')
    BY <1>3, <1>6, <1>13, <1>16
  <2>2. \A i \in 1..Len(decided') - 1 : ~IsEnd(decided'[i])
    <3>1. Len(decided') - 1 = l
      BY <1>6, <1>13
    <3> QED BY <1>4, <1>l, <1>13, <3>1 DEF InCoding
  <2>3. \A i \in 1..Len(answers') : answers'[i] = decided'[i]
    BY <1>16
  <2> QED BY <1>18, <1>19, <2>1, <2>2, <2>3 DEF InDecoding
<1>21. answers' \in Seq(Decisions)
  BY <1>2, <1>4
<1> QED BY <1>13, <1>20, <1>21 DEF BinsInv

LEMMA DecodeStep ==
    ASSUME BinsInv, DecodeBin
    PROVE  BinsInv'
<1>1. /\ arideco # <<>> /\ Len(answers) < Len(decided)
      /\ arideco' = DecodedBin(arideco, decided[Len(answers) + 1][1])
      /\ answers' = Append(answers, <<decided[Len(answers) + 1][1], arideco'.bin>>)
      /\ arienco' = arienco /\ decided' = decided
  BY DEF DecodeBin
<1>2. decided \in Seq(Decisions) /\ answers \in Seq(Decisions) /\ InDecoding
  BY <1>1 DEF BinsInv, InCoding
<1>3. PICK n \in Nat, k \in Nat : n = Len(decided) /\ k = Len(answers) /\ k < n
  BY <1>1, <1>2
<1>4. PICK E, w : Tracing(E, w, n)
  BY <1>2, <1>3 DEF InDecoding
<1>5. PICK x \in Decisions : x = decided[k + 1]
  <2>1. k + 1 \in 1..n
    BY <1>3
  <2> QED BY <1>2, <1>3, <2>1
<1>6. x = <<x[1], x[2]>> /\ x[2] \in {0, 1}
  BY DEF Decisions
<1>7. k + 1 \in 1..n /\ k + 1 \in 0..n /\ k \in 0..n /\ k + 1 - 1 = k
  BY <1>3
<1>8. E[k + 1] = EncodedBin(E[k], x) /\ Ready(E[k])
  BY <1>3, <1>4, <1>5, <1>7 DEF Tracing, Coded
<1>9. w \in Seq({0, 1}) /\ Fits(E[k + 1], w) /\ Tracks(E[k], arideco, w) /\ E[n] = arienco
  BY <1>3, <1>4, <1>7 DEF Tracing
<1>10. arideco' = DecodedBin(arideco, x[1]) /\ answers' = Append(answers, <<x[1], arideco'.bin>>)
  BY <1>1, <1>3, <1>5
<1>11. /\ arideco'.bin = x[2] /\ arideco' \in DecoderState
       /\ k + 1 < n => Tracks(E[k + 1], arideco', w)
       /\ k + 1 = n => arideco'.models = arienco.models
  <2>1. CASE k + 1 < n
    <3>1. ~IsEnd(x)
      <4>1. k + 1 \in 1..n - 1
        BY <1>3, <2>1
      <4> QED BY <1>2, <1>3, <1>5, <4>1 DEF InDecoding
    <3>2. Answered(E[k], E[k + 1], arideco, DecodedBin(arideco, x[1]), w, x[2])
      BY <1>8, <1>9, <3>1, EncodedIs DEF Decisions, IsEnd
    <3>3. Tracks(E[k + 1], arideco', w) /\ arideco'.bin = x[2]
      BY <1>9, <1>10, <3>2 DEF Answered
    <3>4. arideco' \in DecoderState
      BY <3>3 DEF Tracks
    <3>5. k + 1 # n
      BY <2>1
    <3> QED BY <3>3, <3>4, <3>5
  <2>2. CASE k + 1 = n
    <3>1. x = <<FinalBin, 1>>
      BY <1>2, <1>3, <1>5, <2>2 DEF InDecoding, IsEnd
    <3>2. EqProb # FinalBin
      BY DEF EqProb, FinalBin
    <3>3. E[n] = biari_encode_symbol_final(E[k], 1)
      BY <1>8, <2>2, <3>1, <3>2 DEF EncodedBin
    <3>4. arideco' = biari_decode_final(arideco)
      BY <1>10, <3>1, <3>2 DEF DecodedBin
    <3>5. Fits(E[n], w)
      BY <1>9, <2>2
    <3>6. /\ biari_decode_final(arideco).bin = 1 /\ biari_decode_final(arideco).models = E[n].models
          /\ biari_decode_final(arideco) \in DecoderState
      BY <1>8, <1>9, <3>3, <3>5, FinalEnd
    <3>7. x[2] = 1 /\ ~(k + 1 < n)
      BY <2>2, <3>1
    <3> QED BY <1>9, <3>4, <3>6, <3>7
  <2>3. k + 1 < n \/ k + 1 = n
    BY <1>3
  <2> QED BY <2>1, <2>2, <2>3
<1>12. answers' = Append(answers, x)
  BY <1>6, <1>10, <1>11
<1>13. /\ answers' \in Seq(Decisions) /\ Len(answers') = k + 1 /\ answers'[k + 1] = x
       /\ \A i \in 1..k : answers'[i] = answers[i]
  BY <1>2, <1>3, <1>12
<1>14. \A i \in 1..Len(answers') : answers'[i] = decided'[i]
  <2>1. ASSUME NEW i \in 1..k + 1 PROVE answers'[i] = decided[i]
    <3>1. CASE i = k + 1
      BY <1>5, <1>13, <3>1
    <3>2. CASE i # k + 1
      <4>1. i \in 1..k
        BY <3>2
      <4> QED BY <1>2, <1>3, <1>13, <4>1 DEF InDecoding
    <3> QED BY <3>1, <3>2
  <2> QED BY <1>1, <1>13, <2>1
<1>15. Tracing(E, w, n)'
  <2>1. Coded(E, decided') /\ E[n] = arienco' /\ \A i \in 0..n : Fits(E[i], w)
    BY <1>1, <1>4 DEF Tracing
  <2>2. Len(answers') < n => Tracks(E[Len(answers')], arideco', w)
    BY <1>11, <1>13
  <2> QED BY <1>9, <2>1, <2>2 DEF Tracing
<1>16. InDecoding'
  <2>1. /\ decided' # <<>> /\ IsEnd(decided'[Len(decided')])
        /\ \A i \in 1..Len(decided') - 1 : ~IsEnd(decided'[i])
    BY <1>1, <1>2 DEF InDecoding
  <2>2. Len(answers') <= Len(decided')
    BY <1>1, <1>3, <1>13
  <2>3. \E F, v : Tracing(F, v, Len(decided))'
    <3>1. n = Len(decided')
      BY <1>1, <1>3
    <3> QED BY <1>15, <3>1
  <2>4. Len(answers') = Len(decided') => arideco'.models = arienco'.models
    BY <1>1, <1>3, <1>11, <1>13
  <2> QED BY <1>11, <1>14, <2>1, <2>2, <2>3, <2>4 DEF InDecoding
<1> QED BY <1>1, <1>2, <1>13, <1>16 DEF BinsInv

LEMMA BinsStep == BinsInv /\ [BinsNext]_binVars => BinsInv'
<1> SUFFICES ASSUME BinsInv, [BinsNext]_binVars PROVE BinsInv'
  OBVIOUS
<1>1. ASSUME NEW ctx \in DOMAIN CtxIni \cup {EqProb, FinalBin}, NEW bin \in {0, 1}, NEW n \in Lengths, CodeBins(ctx, bin, n)
      PROVE  BinsInv'
  <2>1. ctx \in Contexts
    BY DEF Contexts
  <2> QED BY <1>1, <2>1, CodeStep
<1>2. CASE EndCoding
  BY <1>2, EndStep
<1>3. CASE DecodeBin
  BY <1>3, DecodeStep
<1>4. CASE UNCHANGED binVars
  BY <1>4 DEF binVars, BinsInv, InCoding, InDecoding, Tracing
<1> QED BY <1>1, <1>2, <1>3, <1>4 DEF BinsNext

LEMMA BinsInvHolds == BinsSpec => []BinsInv
<1>1. BinsInit => BinsInv
  BY BinsStarts
<1>2. BinsInv /\ [BinsNext]_binVars => BinsInv'
  BY BinsStep
<1>3. QED
  BY <1>1, <1>2, PTL DEF BinsSpec

(* Every decision that biari_encode_symbol and its kin put into a codeword *)
(* is the one their counterparts of the decoder take from it, with         *)
(* whatever the buffer holds behind the codeword, and at the end of the    *)
(* slice the contexts of both sides are in the same states: for every      *)
(* quantiser, every table of contexts and every series of decisions.       *)
THEOREM DecisionsAreRecovered == BinsSpec => []DecisionsSurvive
<1>1. BinsInv => DecisionsSurvive
  <2> SUFFICES ASSUME BinsInv PROVE DecisionsSurvive
    OBVIOUS
  <2>1. CASE InCoding
    <3>1. arideco = <<>> /\ answers = <<>>
      BY <2>1 DEF InCoding
    <3>2. DOMAIN answers = {}
      BY <3>1
    <3> QED BY <3>1, <3>2 DEF DecisionsSurvive
  <2>2. CASE InDecoding
    <3>1. \A i \in 1..Len(answers) : answers[i] = decided[i]
      BY <2>2 DEF InDecoding
    <3>2. DOMAIN answers = 1..Len(answers)
      BY DEF BinsInv
    <3>3. Len(answers) = Len(decided) => arideco.models = arienco.models
      BY <2>2 DEF InDecoding
    <3> QED BY <3>1, <3>2, <3>3 DEF DecisionsSurvive
  <2> QED BY <2>1, <2>2 DEF BinsInv
<1>2. QED
  BY <1>1, BinsInvHolds, PTL

-----------------------------------------------------------------------------
LEMMA ConcatOctets ==
    ASSUME NEW s \in Seq(Octets), NEW r \in Seq(Octets)
    PROVE  /\ s \o r \in Seq(Octets) /\ Len(s \o r) = Len(s) + Len(r) /\ Len(s) \in Nat /\ Len(r) \in Nat
           /\ \A i \in 1..Len(s) : (s \o r)[i] = s[i]
           /\ \A i \in 1..Len(r) : (s \o r)[Len(s) + i] = r[i]
OBVIOUS

-----------------------------------------------------------------------------
(***************************************************************************)
(* The byte stream.  Escaped and unescaped as they go along.               *)
(***************************************************************************)
\* The encoder's states over a payload, the decoder's over a buffer.
Escapes(E, rbsp) ==
    /\ E[0] = [out |-> <<>>, count |-> 0]
    /\ \A k \in 1..Len(rbsp) : E[k] = EscapeByte(E[k - 1], rbsp[k])

Unescapes(D, b, n) ==
    /\ D[0] = [out |-> <<>>, skip |-> FALSE, count |-> 0]
    /\ \A i \in 1..n : D[i] = UnescapeByte(D[i - 1], b, i)

LEMMA UnescapesOn ==
    ASSUME NEW b, NEW n \in Nat, NEW D, Unescapes(D, b, n), NEW q \in Nat, q + 1 <= n
    PROVE  D[q + 1] = UnescapeByte(D[q], b, q + 1)
<1>1. PICK i \in 1..n : i = q + 1 /\ i - 1 = q
  <2>1. q + 1 \in 1..n /\ (q + 1) - 1 = q
    OBVIOUS
  <2> QED BY <2>1
<1>2. D[i] = UnescapeByte(D[i - 1], b, i)
  BY <1>1 DEF Unescapes
<1> QED BY <1>1, <1>2

\* A byte read, one skipped, an escape byte and one as it is.
LEMMA SkipIs ==
    ASSUME NEW o, NEW c, NEW b, NEW i
    PROVE  UnescapeByte([out |-> o, skip |-> TRUE, count |-> c], b, i) = [out |-> o, skip |-> FALSE, count |-> c]
BY DEF UnescapeByte

LEMMA UnescapeIs ==
    ASSUME NEW o, NEW c, NEW b, NEW i
    PROVE  UnescapeByte([out |-> o, skip |-> FALSE, count |-> c], b, i) =
               LET escape == c = 2 /\ ByteAt(b, i) = 3
                   byte == IF escape THEN ByteAt(b, i + 1) ELSE ByteAt(b, i)
                   zeros == IF escape THEN 0 ELSE c
               IN  [out |-> Append(o, byte), skip |-> escape, count |-> IF byte = 0 THEN zeros + 1 ELSE 0]
<1> DEFINE dec == [out |-> o, skip |-> FALSE, count |-> c]
<1>1. dec.skip = FALSE /\ dec.out = o /\ dec.count = c
  OBVIOUS
<1> HIDE DEF dec
<1>2. UnescapeByte(dec, b, i) =
          LET escape == c = 2 /\ ByteAt(b, i) = 3
              byte == IF escape THEN ByteAt(b, i + 1) ELSE ByteAt(b, i)
              zeros == IF escape THEN 0 ELSE c
          IN  [out |-> Append(o, byte), skip |-> escape, count |-> IF byte = 0 THEN zeros + 1 ELSE 0]
  BY <1>1 DEF UnescapeByte, ZEROBYTES_SHORTSTARTCODE
<1> QED BY <1>2 DEF dec

LEMMA EscapedIs ==
    ASSUME NEW o, NEW b, NEW i, ByteAt(b, i) = 3
    PROVE  UnescapeByte([out |-> o, skip |-> FALSE, count |-> 2], b, i) =
               [out |-> Append(o, ByteAt(b, i + 1)), skip |-> TRUE, count |-> IF ByteAt(b, i + 1) = 0 THEN 1 ELSE 0]
<1> DEFINE x == ByteAt(b, i + 1)
           y == ByteAt(b, i)
           U == UnescapeByte([out |-> o, skip |-> FALSE, count |-> 2], b, i)
<1>1. U = LET escape == 2 = 2 /\ y = 3
              byte == IF escape THEN x ELSE y
              zeros == IF escape THEN 0 ELSE 2
          IN  [out |-> Append(o, byte), skip |-> escape, count |-> IF byte = 0 THEN zeros + 1 ELSE 0]
  BY UnescapeIs
<1>2. y = 3 /\ 0 + 1 = 1
  OBVIOUS
<1> HIDE DEF x, y, U
<1>3. U = [out |-> Append(o, x), skip |-> TRUE, count |-> IF x = 0 THEN 1 ELSE 0]
  BY <1>1, <1>2
<1> QED BY <1>3 DEF x, U

LEMMA PlainIs ==
    ASSUME NEW o, NEW c, NEW b, NEW i, ~(c = 2 /\ ByteAt(b, i) = 3)
    PROVE  UnescapeByte([out |-> o, skip |-> FALSE, count |-> c], b, i) =
               [out |-> Append(o, ByteAt(b, i)), skip |-> FALSE, count |-> IF ByteAt(b, i) = 0 THEN c + 1 ELSE 0]
<1> DEFINE x == ByteAt(b, i + 1)
           y == ByteAt(b, i)
           U == UnescapeByte([out |-> o, skip |-> FALSE, count |-> c], b, i)
<1>1. U = LET escape == c = 2 /\ y = 3
              byte == IF escape THEN x ELSE y
              zeros == IF escape THEN 0 ELSE c
          IN  [out |-> Append(o, byte), skip |-> escape, count |-> IF byte = 0 THEN zeros + 1 ELSE 0]
  BY UnescapeIs
<1>2. ~(c = 2 /\ y = 3)
  OBVIOUS
<1> HIDE DEF x, y, U
<1>3. U = [out |-> Append(o, y), skip |-> FALSE, count |-> IF y = 0 THEN c + 1 ELSE 0]
  BY <1>1, <1>2, Zenon
<1> QED BY <1>3 DEF y, U

LEMMA ZeroIs ==
    ASSUME NEW o, NEW c \in {0, 1}, NEW b, NEW i, ByteAt(b, i) = 0
    PROVE  UnescapeByte([out |-> o, skip |-> FALSE, count |-> c], b, i) =
               [out |-> Append(o, 0), skip |-> FALSE, count |-> c + 1]
<1>1. ~(c = 2 /\ ByteAt(b, i) = 3)
  OBVIOUS
<1> QED BY <1>1, PlainIs

LEMMA EscapesExist ==
    ASSUME NEW rbsp \in Seq(Octets)
    PROVE  \E E : /\ Escapes(E, rbsp)
                  /\ \A least : RBSPtoEBSP(rbsp, least) =
                        LET ebsp == E[Len(rbsp)].out
                            words == IF Len(ebsp) < least THEN (least - Len(ebsp) + 2) \div 3 ELSE 0
                        IN  ebsp \o [i \in 1..(3 * words) |-> IF i % 3 = 0 THEN 3 ELSE 0]
<1> DEFINE start == [out |-> <<>>, count |-> 0]
           Is(f, m) == f = [k \in 0..m |-> IF k = 0 THEN start ELSE EscapeByte(f[k - 1], rbsp[k])]
           S == {m \in Nat : \E f : Is(f, m)}
<1> HIDE DEF start
<1>1. 0 \in S
  <2> DEFINE f == [k \in 0..0 |-> start]
  <2>1. Is(f, 0)
    OBVIOUS
  <2> QED BY <2>1
<1>2. ASSUME NEW m \in Nat, m \in S
      PROVE  m + 1 \in S
  <2>1. PICK f : Is(f, m)
    BY <1>2
  <2> DEFINE g == [k \in 0..m + 1 |-> IF k = 0 THEN start ELSE EscapeByte(f[k - 1], rbsp[k])]
  <2>2. \A k \in 0..m : g[k] = f[k]
    <3>1. \A k \in 0..m : k \in 0..m + 1
      OBVIOUS
    <3> QED BY <2>1, <3>1
  <2>3. \A k \in 0..m + 1 : k # 0 => g[k - 1] = f[k - 1]
    <3>1. \A k \in 0..m + 1 : k # 0 => k - 1 \in 0..m
      OBVIOUS
    <3> QED BY <2>2, <3>1
  <2>4. Is(g, m + 1)
    BY <2>3
  <2> HIDE DEF Is, g
  <2> QED BY <2>4
<1> HIDE DEF Is
<1>3. S = Nat
  <2>1. S \subseteq Nat
    OBVIOUS
  <2> HIDE DEF S
  <2> QED BY <1>1, <1>2, <2>1, Induction
<1> DEFINE n == Len(rbsp)
<1>4. n \in Nat
  OBVIOUS
<1> DEFINE E == CHOOSE f : Is(f, n)
<1>5. Is(E, n)
  BY <1>3, <1>4
<1>6. \A least : RBSPtoEBSP(rbsp, least) =
          LET ebsp == E[Len(rbsp)].out
              words == IF Len(ebsp) < least THEN (least - Len(ebsp) + 2) \div 3 ELSE 0
          IN  ebsp \o [i \in 1..(3 * words) |-> IF i % 3 = 0 THEN 3 ELSE 0]
  BY DEF RBSPtoEBSP, Is, start
<1> HIDE DEF E
<1>7. E = [k \in 0..n |-> IF k = 0 THEN start ELSE EscapeByte(E[k - 1], rbsp[k])]
  BY <1>5 DEF Is
<1>8. 0 \in 0..n /\ \A k \in 1..n : k \in 0..n /\ k # 0
  BY <1>4
<1>9. E[0] = start /\ \A k \in 1..n : E[k] = EscapeByte(E[k - 1], rbsp[k])
  BY <1>7, <1>8
<1>10. Escapes(E, rbsp)
  BY <1>9 DEF Escapes, start
<1> QED BY <1>6, <1>10

LEMMA UnescapesExist ==
    ASSUME NEW b, NEW n \in Nat
    PROVE  \E D : Unescapes(D, b, n) /\ EBSPtoRBSP(b, n) = D[n].out
<1> DEFINE start == [out |-> <<>>, skip |-> FALSE, count |-> 0]
           Is(f, m) == f = [k \in 0..m |-> IF k = 0 THEN start ELSE UnescapeByte(f[k - 1], b, k)]
           S == {m \in Nat : \E f : Is(f, m)}
<1> HIDE DEF start
<1>1. 0 \in S
  <2> DEFINE f == [k \in 0..0 |-> start]
  <2>1. Is(f, 0)
    OBVIOUS
  <2> QED BY <2>1
<1>2. ASSUME NEW m \in Nat, m \in S
      PROVE  m + 1 \in S
  <2>1. PICK f : Is(f, m)
    BY <1>2
  <2> DEFINE g == [k \in 0..m + 1 |-> IF k = 0 THEN start ELSE UnescapeByte(f[k - 1], b, k)]
  <2>2. \A k \in 0..m : g[k] = f[k]
    <3>1. \A k \in 0..m : k \in 0..m + 1
      OBVIOUS
    <3> QED BY <2>1, <3>1
  <2>3. \A k \in 0..m + 1 : k # 0 => g[k - 1] = f[k - 1]
    <3>1. \A k \in 0..m + 1 : k # 0 => k - 1 \in 0..m
      OBVIOUS
    <3> QED BY <2>2, <3>1
  <2>4. Is(g, m + 1)
    BY <2>3
  <2> HIDE DEF Is, g
  <2> QED BY <2>4
<1> HIDE DEF Is
<1>3. S = Nat
  <2>1. S \subseteq Nat
    OBVIOUS
  <2> HIDE DEF S
  <2> QED BY <1>1, <1>2, <2>1, Induction
<1> DEFINE D == CHOOSE f : Is(f, n)
<1>5. Is(D, n)
  BY <1>3
<1>6. EBSPtoRBSP(b, n) = D[n].out
  BY DEF EBSPtoRBSP, Is, start
<1> HIDE DEF D
<1>7. D = [k \in 0..n |-> IF k = 0 THEN start ELSE UnescapeByte(D[k - 1], b, k)]
  BY <1>5 DEF Is
<1>8. 0 \in 0..n /\ \A k \in 1..n : k \in 0..n /\ k # 0
  OBVIOUS
<1>9. D[0] = start /\ \A k \in 1..n : D[k] = UnescapeByte(D[k - 1], b, k)
  BY <1>7, <1>8
<1>10. Unescapes(D, b, n)
  BY <1>9 DEF Unescapes, start
<1> QED BY <1>6, <1>10

\* What the encoder has written so far: without a start code, and with count
\* the zeros it ends with.
NoStartCode(x) == \A i \in 1..Len(x) - 2 : ~(x[i] = 0 /\ x[i + 1] = 0 /\ x[i + 2] = 1)

EscapedOK(a) ==
    /\ a \in [out : Seq(Octets), count : 0..2]
    /\ NoStartCode(a.out)
    /\ Len(a.out) >= 1 /\ a.out[Len(a.out)] = 0 => a.count >= 1
    /\ Len(a.out) >= 2 /\ a.out[Len(a.out)] = 0 /\ a.out[Len(a.out) - 1] = 0 => a.count = 2

LEMMA EscapeIs ==
    ASSUME NEW a \in [out : Seq(Octets), count : 0..2], NEW b \in Octets
    PROVE  LET l == Len(a.out)
               t == EscapeByte(a, b)
           IN  /\ l \in Nat /\ t.out \in Seq(Octets) /\ t = [out |-> t.out, count |-> t.count]
               /\ \A i \in 1..l : t.out[i] = a.out[i]
               /\ \/ /\ a.count = 2 /\ b <= 3
                     /\ Len(t.out) = l + 2 /\ t.out[l + 1] = 3 /\ t.out[l + 2] = b
                     /\ t.count = (IF b = 0 THEN 1 ELSE 0)
                  \/ /\ ~(a.count = 2 /\ b <= 3)
                     /\ Len(t.out) = l + 1 /\ t.out[l + 1] = b
                     /\ t.count = (IF b = 0 THEN a.count + 1 ELSE 0)
<1> DEFINE l == Len(a.out)
           t == EscapeByte(a, b)
<1>1. a.out \in Seq(Octets) /\ l \in Nat
  OBVIOUS
<1>2. CASE a.count = 2 /\ b <= 3
  <2> DEFINE r == <<3, b>>
  <2>1. r \in Seq(Octets) /\ Len(r) = 2 /\ r[1] = 3 /\ r[2] = b
    BY DEF Octets
  <2>2. t = [out |-> a.out \o r, count |-> IF b = 0 THEN 1 ELSE 0]
    BY <1>2 DEF EscapeByte, ZEROBYTES_SHORTSTARTCODE
  <2> HIDE DEF r
  <2>3. /\ a.out \o r \in Seq(Octets) /\ Len(a.out \o r) = Len(a.out) + Len(r)
        /\ \A i \in 1..Len(a.out) : (a.out \o r)[i] = a.out[i]
        /\ \A i \in 1..Len(r) : (a.out \o r)[Len(a.out) + i] = r[i]
    BY <1>1, <2>1, ConcatOctets
  <2>4. 1 \in 1..Len(r) /\ 2 \in 1..Len(r)
    BY <2>1
  <2>5. t.out = a.out \o r /\ t.count = (IF b = 0 THEN 1 ELSE 0) /\ t = [out |-> t.out, count |-> t.count]
    BY <2>2
  <2> HIDE DEF t
  <2>6. /\ t.out \in Seq(Octets) /\ Len(t.out) = l + 2 /\ t.out[l + 1] = 3 /\ t.out[l + 2] = b
        /\ \A i \in 1..l : t.out[i] = a.out[i]
    BY <1>1, <2>1, <2>3, <2>4, <2>5
  <2> QED BY <1>1, <1>2, <2>5, <2>6 DEF t
<1>3. CASE ~(a.count = 2 /\ b <= 3)
  <2> DEFINE r == <<b>>
  <2>1. r \in Seq(Octets) /\ Len(r) = 1 /\ r[1] = b
    OBVIOUS
  <2>2. t = [out |-> a.out \o r, count |-> IF b = 0 THEN a.count + 1 ELSE 0]
    BY <1>3 DEF EscapeByte, ZEROBYTES_SHORTSTARTCODE
  <2> HIDE DEF r
  <2>3. /\ a.out \o r \in Seq(Octets) /\ Len(a.out \o r) = Len(a.out) + Len(r)
        /\ \A i \in 1..Len(a.out) : (a.out \o r)[i] = a.out[i]
        /\ \A i \in 1..Len(r) : (a.out \o r)[Len(a.out) + i] = r[i]
    BY <1>1, <2>1, ConcatOctets
  <2>4. 1 \in 1..Len(r)
    BY <2>1
  <2>5. t.out = a.out \o r /\ t.count = (IF b = 0 THEN a.count + 1 ELSE 0) /\ t = [out |-> t.out, count |-> t.count]
    BY <2>2
  <2> HIDE DEF t
  <2>6. /\ t.out \in Seq(Octets) /\ Len(t.out) = l + 1 /\ t.out[l + 1] = b
        /\ \A i \in 1..l : t.out[i] = a.out[i]
    BY <1>1, <2>1, <2>3, <2>4, <2>5
  <2> QED BY <1>1, <1>3, <2>5, <2>6 DEF t
<1> QED BY <1>2, <1>3

LEMMA EscapeGrows ==
    ASSUME NEW a \in [out : Seq(Octets), count : 0..2], NEW b \in Octets
    PROVE  LET t == EscapeByte(a, b)
           IN  /\ Len(a.out) \in Nat /\ Len(t.out) \in Nat /\ Len(a.out) <= Len(t.out)
               /\ \A i \in 1..Len(a.out) : t.out[i] = a.out[i]
<1> DEFINE l == Len(a.out)
           t == EscapeByte(a, b)
<1>1. /\ l \in Nat
      /\ \A i \in 1..l : t.out[i] = a.out[i]
      /\ Len(t.out) = l + 2 \/ Len(t.out) = l + 1
  BY EscapeIs
<1> HIDE DEF t, l
<1>2. Len(t.out) \in Nat /\ l <= Len(t.out)
  BY <1>1
<1> QED BY <1>1, <1>2 DEF t, l

LEMMA EscapeKeeps ==
    ASSUME NEW a, EscapedOK(a), NEW b \in Octets
    PROVE  LET t == EscapeByte(a, b)
           IN  /\ EscapedOK(t)
               /\ Len(t.out) >= 1 /\ t.out[Len(t.out)] = b /\ (b # 0 => t.count = 0)
<1> DEFINE l == Len(a.out)
           t == EscapeByte(a, b)
<1>1. a \in [out : Seq(Octets), count : 0..2] /\ a.count \in 0..2
  BY DEF EscapedOK
<1>2. /\ l \in Nat /\ t.out \in Seq(Octets) /\ t = [out |-> t.out, count |-> t.count]
      /\ \A i \in 1..l : t.out[i] = a.out[i]
      /\ \/ /\ a.count = 2 /\ b <= 3
            /\ Len(t.out) = l + 2 /\ t.out[l + 1] = 3 /\ t.out[l + 2] = b
            /\ t.count = (IF b = 0 THEN 1 ELSE 0)
         \/ /\ ~(a.count = 2 /\ b <= 3)
            /\ Len(t.out) = l + 1 /\ t.out[l + 1] = b
            /\ t.count = (IF b = 0 THEN a.count + 1 ELSE 0)
  BY <1>1, EscapeIs
<1> HIDE DEF t
<1>3. PICK c \in 0..2 : c = a.count
  BY <1>1
<1>4. /\ \A i \in 1..l - 2 : ~(a.out[i] = 0 /\ a.out[i + 1] = 0 /\ a.out[i + 2] = 1)
      /\ l >= 1 /\ a.out[l] = 0 => c >= 1
      /\ l >= 2 /\ a.out[l] = 0 /\ a.out[l - 1] = 0 => c = 2
  BY <1>3 DEF EscapedOK, NoStartCode
<1>5. \A i \in 1..l - 2 : ~(t.out[i] = 0 /\ t.out[i + 1] = 0 /\ t.out[i + 2] = 1)
  <2>1. \A i \in 1..l - 2 : i \in 1..l /\ i + 1 \in 1..l /\ i + 2 \in 1..l
    BY <1>2, SMTT(30)
  <2> HIDE DEF l
  <2> QED BY <1>2, <1>4, <2>1
<1>6. /\ l >= 1 /\ t.out[l] = 0 => c >= 1
      /\ l >= 2 /\ t.out[l] = 0 /\ t.out[l - 1] = 0 => c = 2
  <2>1. (l >= 1 => l \in 1..l) /\ (l >= 2 => l \in 1..l /\ l - 1 \in 1..l)
    BY <1>2
  <2> HIDE DEF l
  <2> QED BY <1>2, <1>4, <2>1
<1> DEFINE n == Len(t.out)
<1> HIDE DEF l
<1>7. CASE /\ c = 2 /\ b <= 3
           /\ n = l + 2 /\ t.out[l + 1] = 3 /\ t.out[l + 2] = b
           /\ t.count = (IF b = 0 THEN 1 ELSE 0)
  <2>1. \A i \in 1..n - 2 : i \in 1..l - 2 \/ i + 2 = l + 1 \/ i + 1 = l + 1
    BY <1>2, <1>7, SMTT(30)
  <2>2. \A i \in 1..n - 2 : ~(t.out[i] = 0 /\ t.out[i + 1] = 0 /\ t.out[i + 2] = 1)
    <3> HIDE DEF n
    <3>1. 3 # 0 /\ 3 # 1
      OBVIOUS
    <3> QED BY <1>5, <1>7, <2>1, <3>1, ZenonT(60)
  <2>3. n >= 1 /\ t.out[n] = b /\ (b # 0 => t.count = 0)
    BY <1>2, <1>7
  <2>4. t.count \in 0..2 /\ (t.out[n] = 0 => t.count >= 1)
    BY <1>7
  <2>5. t.out[n - 1] = 3
    <3>1. n - 1 = l + 1
      BY <1>2, <1>7
    <3> QED BY <1>7, <3>1
  <2>6. t \in [out : Seq(Octets), count : 0..2]
    BY <1>2, <2>4
  <2> QED BY <2>2, <2>3, <2>4, <2>5, <2>6 DEF EscapedOK, NoStartCode, t
<1>8. CASE /\ ~(c = 2 /\ b <= 3)
           /\ n = l + 1 /\ t.out[l + 1] = b
           /\ t.count = (IF b = 0 THEN c + 1 ELSE 0)
  <2>1. \A i \in 1..n - 2 : i \in 1..l - 2 \/ (l >= 2 /\ i = l - 1 /\ i + 1 = l /\ i + 2 = l + 1)
    BY <1>2, <1>8
  <2>2. ~(l >= 2 /\ t.out[l - 1] = 0 /\ t.out[l] = 0 /\ t.out[l + 1] = 1)
    BY <1>6, <1>8
  <2>3. \A i \in 1..n - 2 : ~(t.out[i] = 0 /\ t.out[i + 1] = 0 /\ t.out[i + 2] = 1)
    <3> HIDE DEF n
    <3> QED BY <1>5, <2>1, <2>2, ZenonT(60)
  <2>4. n >= 1 /\ t.out[n] = b /\ (b # 0 => t.count = 0)
    BY <1>2, <1>8
  <2>5. t.count \in 0..2 /\ (t.out[n] = 0 => t.count >= 1)
    BY <1>8, <2>4 DEF Octets
  <2>6. n >= 2 /\ t.out[n] = 0 /\ t.out[n - 1] = 0 => t.count = 2
    <3>1. n - 1 = l /\ (n >= 2 => l >= 1)
      BY <1>2, <1>8
    <3> QED BY <1>6, <1>8, <2>4, <3>1 DEF Octets
  <2>7. t \in [out : Seq(Octets), count : 0..2]
    BY <1>2, <2>5
  <2> QED BY <2>3, <2>4, <2>5, <2>6, <2>7 DEF EscapedOK, NoStartCode, t
<1> QED BY <1>2, <1>3, <1>7, <1>8 DEF t

\* Buffer b begins with x.
Begins(b, x) == \A i \in 1..Len(x) : ByteAt(b, i) = x[i]

\* Decoder state dec after k bytes of the payload, with c zeros just read.
HasRead(dec, rbsp, k, c) ==
    /\ dec = [out |-> dec.out, skip |-> FALSE, count |-> c]
    /\ dec.out \in Seq(Octets) /\ Len(dec.out) = k /\ \A i \in 1..k : dec.out[i] = rbsp[i]

LEMMA AppendIs ==
    ASSUME NEW S, NEW s \in Seq(S), NEW x \in S
    PROVE  /\ Append(s, x) \in Seq(S) /\ Len(Append(s, x)) = Len(s) + 1 /\ Len(s) \in Nat
           /\ \A i \in 1..Len(s) : Append(s, x)[i] = s[i]
           /\ Append(s, x)[Len(s) + 1] = x
OBVIOUS

LEMMA ReadOn ==
    ASSUME NEW rbsp \in Seq(Octets), NEW k \in Nat, k + 1 \in 1..Len(rbsp), NEW dec, NEW c, HasRead(dec, rbsp, k, c), NEW z
    PROVE  HasRead([out |-> Append(dec.out, rbsp[k + 1]), skip |-> FALSE, count |-> z], rbsp, k + 1, z)
<1> DEFINE t == [out |-> Append(dec.out, rbsp[k + 1]), skip |-> FALSE, count |-> z]
           b == rbsp[k + 1]
           o == dec.out
<1>1. b \in Octets
  OBVIOUS
<1>2. o \in Seq(Octets) /\ Len(o) = k /\ \A i \in 1..k : o[i] = rbsp[i]
  BY DEF HasRead
<1>3. t = [out |-> Append(o, b), skip |-> FALSE, count |-> z]
  OBVIOUS
<1>4. \A i \in 1..k + 1 : i \in 1..k \/ i = k + 1
  OBVIOUS
<1>5. b = rbsp[k + 1]
  OBVIOUS
<1> HIDE DEF b, o
<1>6. /\ Append(o, b) \in Seq(Octets) /\ Len(Append(o, b)) = Len(o) + 1
      /\ \A i \in 1..Len(o) : Append(o, b)[i] = o[i]
      /\ Append(o, b)[Len(o) + 1] = b
  BY <1>1, <1>2, AppendIs
<1>7. t.out = Append(o, b) /\ t = [out |-> t.out, skip |-> FALSE, count |-> z]
  BY <1>3
<1>8. Len(t.out) = k + 1
  BY <1>2, <1>6, <1>7
<1>9. \A i \in 1..k + 1 : t.out[i] = rbsp[i]
  BY <1>2, <1>4, <1>5, <1>6, <1>7
<1> HIDE DEF t
<1>10. HasRead(t, rbsp, k + 1, z)
  BY <1>6, <1>7, <1>8, <1>9 DEF HasRead
<1> QED BY <1>10 DEF t

LEMMA DecoderStep ==
    ASSUME NEW rbsp \in Seq(Octets), NEW k \in Nat, k + 1 \in 1..Len(rbsp), NEW a, EscapedOK(a),
           NEW b, NEW n \in Nat, NEW D, Unescapes(D, b, n),
           Len(EscapeByte(a, rbsp[k + 1]).out) <= n, Begins(b, EscapeByte(a, rbsp[k + 1]).out),
           HasRead(D[Len(a.out)], rbsp, k, a.count)
    PROVE  LET t == EscapeByte(a, rbsp[k + 1])
           IN  HasRead(D[Len(t.out)], rbsp, k + 1, t.count)
<1> DEFINE l == Len(a.out)
           x == rbsp[k + 1]
           t == EscapeByte(a, x)
           o == D[l].out
           y == ByteAt(b, l + 1)
<1>1. x \in Octets
  OBVIOUS
<1>2. a \in [out : Seq(Octets), count : 0..2] /\ a.count \in 0..2
  BY DEF EscapedOK
<1>3. /\ l \in Nat /\ t.out \in Seq(Octets) /\ t = [out |-> t.out, count |-> t.count]
      /\ \/ /\ a.count = 2 /\ x <= 3
            /\ Len(t.out) = l + 2 /\ t.out[l + 1] = 3 /\ t.out[l + 2] = x
            /\ t.count = (IF x = 0 THEN 1 ELSE 0)
         \/ /\ ~(a.count = 2 /\ x <= 3)
            /\ Len(t.out) = l + 1 /\ t.out[l + 1] = x
            /\ t.count = (IF x = 0 THEN a.count + 1 ELSE 0)
  BY <1>1, <1>2, EscapeIs
<1>4. D[l] = [out |-> o, skip |-> FALSE, count |-> a.count]
  BY DEF HasRead
<1>5. Len(t.out) <= n /\ Begins(b, t.out)
  OBVIOUS
<1>6. HasRead(D[l], rbsp, k, a.count) /\ x = rbsp[k + 1]
  OBVIOUS
<1>9. /\ l + 1 <= n => D[l + 1] = UnescapeByte(D[l], b, l + 1)
      /\ l + 2 <= n => D[l + 2] = UnescapeByte(D[l + 1], b, l + 2)
  <2> HIDE DEF l, t
  <2>0. l \in Nat
    BY <1>3
  <2>1. l + 1 <= n => D[l + 1] = UnescapeByte(D[l], b, l + 1)
    BY <2>0, UnescapesOn
  <2>2. PICK q \in Nat : q = l + 1 /\ q + 1 = l + 2
    BY <1>3
  <2>3. q + 1 <= n => D[q + 1] = UnescapeByte(D[q], b, q + 1)
    BY UnescapesOn
  <2> QED BY <2>1, <2>2, <2>3
<1> HIDE DEF t, o, x, l
<1>7. CASE /\ a.count = 2 /\ x <= 3
           /\ Len(t.out) = l + 2 /\ t.out[l + 1] = 3 /\ t.out[l + 2] = x
           /\ t.count = (IF x = 0 THEN 1 ELSE 0)
  <2>1. /\ l + 1 <= n /\ l + 2 <= n
        /\ l + 1 \in 1..Len(t.out) /\ l + 2 \in 1..Len(t.out) /\ l + 1 + 1 = l + 2
    BY <1>3, <1>5, <1>7, SMTT(30)
  <2>2. y = 3 /\ ByteAt(b, l + 1 + 1) = x
    BY <1>5, <1>7, <2>1 DEF Begins
  <2> HIDE DEF y
  <2>3. D[l + 1] = [out |-> Append(o, x), skip |-> TRUE, count |-> t.count]
    <3>1. UnescapeByte([out |-> o, skip |-> FALSE, count |-> a.count], b, l + 1) =
              [out |-> Append(o, ByteAt(b, l + 1 + 1)), skip |-> TRUE,
               count |-> IF ByteAt(b, l + 1 + 1) = 0 THEN 1 ELSE 0]
      BY <1>7, <2>2, EscapedIs DEF y
    <3> QED BY <1>4, <1>7, <1>9, <2>1, <2>2, <3>1
  <2>4. D[l + 2] = [out |-> Append(o, x), skip |-> FALSE, count |-> t.count]
    <3>1. UnescapeByte([out |-> Append(o, x), skip |-> TRUE, count |-> t.count], b, l + 2) =
              [out |-> Append(o, x), skip |-> FALSE, count |-> t.count]
      BY SkipIs
    <3> QED BY <1>9, <2>1, <2>3, <3>1
  <2>5. D[l + 2] = [out |-> Append(D[l].out, rbsp[k + 1]), skip |-> FALSE, count |-> t.count]
    BY <1>6, <2>4 DEF o
  <2>6. HasRead([out |-> Append(D[l].out, rbsp[k + 1]), skip |-> FALSE, count |-> t.count], rbsp, k + 1, t.count)
    BY <1>6, ReadOn
  <2>7. HasRead(D[Len(t.out)], rbsp, k + 1, t.count)
    BY <1>7, <2>5, <2>6
  <2> QED BY <2>7 DEF t, x
<1>8. CASE /\ ~(a.count = 2 /\ x <= 3)
           /\ Len(t.out) = l + 1 /\ t.out[l + 1] = x
           /\ t.count = (IF x = 0 THEN a.count + 1 ELSE 0)
  <2>1. l + 1 <= n /\ l + 1 \in 1..Len(t.out)
    BY <1>3, <1>5, <1>8
  <2>2. y = x
    BY <1>5, <1>8, <2>1 DEF Begins
  <2> HIDE DEF y
  <2>3. ~(a.count = 2 /\ y = 3)
    BY <1>8, <2>2
  <2>4. D[l + 1] = [out |-> Append(o, x), skip |-> FALSE, count |-> t.count]
    <3>1. UnescapeByte([out |-> o, skip |-> FALSE, count |-> a.count], b, l + 1) =
              [out |-> Append(o, y), skip |-> FALSE, count |-> IF y = 0 THEN a.count + 1 ELSE 0]
      BY <2>3, PlainIs, SMTT(30) DEF y
    <3> QED BY <1>4, <1>8, <1>9, <2>1, <2>2, <3>1
  <2>5. D[l + 1] = [out |-> Append(D[l].out, rbsp[k + 1]), skip |-> FALSE, count |-> t.count]
    BY <1>6, <2>4 DEF o
  <2>6. HasRead([out |-> Append(D[l].out, rbsp[k + 1]), skip |-> FALSE, count |-> t.count], rbsp, k + 1, t.count)
    BY <1>6, ReadOn
  <2>7. HasRead(D[Len(t.out)], rbsp, k + 1, t.count)
    BY <1>8, <2>5, <2>6
  <2> QED BY <2>7 DEF t, x
<1> QED BY <1>3, <1>7, <1>8 DEF t, x

\* The whole payload, without stuffing.
LEMMA EscapesKeep ==
    ASSUME NEW rbsp \in Seq(Octets), NEW E, Escapes(E, rbsp)
    PROVE  \A k \in 0..Len(rbsp) : EscapedOK(E[k]) /\ (k # 0 => E[k].out[Len(E[k].out)] = rbsp[k] /\ Len(E[k].out) >= 1)
<1> DEFINE n == Len(rbsp)
           KeptAt(k) == EscapedOK(E[k]) /\ (k # 0 => E[k].out[Len(E[k].out)] = rbsp[k] /\ Len(E[k].out) >= 1)
           S == {k \in Nat : k <= n => KeptAt(k)}
<1>1. 0 \in S
  <2> DEFINE a == [out |-> <<>>, count |-> 0]
  <2>1. a \in [out : Seq(Octets), count : 0..2] /\ Len(a.out) = 0
    OBVIOUS
  <2>2. NoStartCode(a.out)
    BY <2>1 DEF NoStartCode
  <2>3. E[0] = a
    BY DEF Escapes
  <2> HIDE DEF a
  <2>4. EscapedOK(a)
    BY <2>1, <2>2 DEF EscapedOK
  <2> QED BY <2>3, <2>4
<1>2. ASSUME NEW k \in Nat, k \in S
      PROVE  k + 1 \in S
  <2> SUFFICES ASSUME k + 1 <= n PROVE KeptAt(k + 1)
    OBVIOUS
  <2>1. k + 1 \in 1..n /\ k + 1 - 1 = k /\ k <= n
    OBVIOUS
  <2>2. EscapedOK(E[k]) /\ rbsp[k + 1] \in Octets
    BY <1>2, <2>1
  <2>3. E[k + 1] = EscapeByte(E[k], rbsp[k + 1])
    BY <2>1 DEF Escapes
  <2> QED BY <2>2, <2>3, EscapeKeeps
<1>3. S \subseteq Nat
  OBVIOUS
<1> HIDE DEF S
<1>4. S = Nat
  BY <1>1, <1>2, <1>3, Induction
<1>5. n \in Nat
  OBVIOUS
<1> QED BY <1>4, <1>5 DEF S

\* What is read back of them.
LEMMA ReadsBack ==
    ASSUME NEW rbsp \in Seq(Octets), NEW E, Escapes(E, rbsp), NEW b, NEW n \in Nat, NEW D, Unescapes(D, b, n),
           NEW m \in 0..Len(rbsp), Len(E[m].out) <= n, Begins(b, E[m].out)
    PROVE  HasRead(D[Len(E[m].out)], rbsp, m, E[m].count)
<1> DEFINE S == {k \in Nat : k <= m =>
                    /\ Len(E[k].out) <= n /\ Begins(b, E[k].out) => HasRead(D[Len(E[k].out)], rbsp, k, E[k].count)}
<1>0. \A k \in 0..Len(rbsp) : EscapedOK(E[k])
  BY EscapesKeep
<1>1. 0 \in S
  <2> DEFINE dec == [out |-> <<>>, skip |-> FALSE, count |-> 0]
  <2>1. D[0] = dec
    BY DEF Unescapes
  <2>2. dec = [out |-> dec.out, skip |-> FALSE, count |-> 0] /\ dec.out \in Seq(Octets) /\ Len(dec.out) = 0
    OBVIOUS
  <2> HIDE DEF dec
  <2>3. HasRead(dec, rbsp, 0, 0)
    BY <2>2 DEF HasRead
  <2>4. E[0] = [out |-> <<>>, count |-> 0]
    BY DEF Escapes
  <2>5. Len(E[0].out) = 0 /\ E[0].count = 0
    BY <2>4
  <2> QED BY <2>1, <2>3, <2>5
<1>2. ASSUME NEW k \in Nat, k \in S
      PROVE  k + 1 \in S
  <2> SUFFICES ASSUME k + 1 <= m, Len(E[k + 1].out) <= n, Begins(b, E[k + 1].out)
               PROVE  HasRead(D[Len(E[k + 1].out)], rbsp, k + 1, E[k + 1].count)
    OBVIOUS
  <2>1. k + 1 \in 1..Len(rbsp) /\ k + 1 - 1 = k /\ k <= m /\ k \in 0..Len(rbsp)
    OBVIOUS
  <2>2. EscapedOK(E[k]) /\ rbsp[k + 1] \in Octets
    BY <1>0, <2>1
  <2>3. E[k + 1] = EscapeByte(E[k], rbsp[k + 1])
    BY <2>1 DEF Escapes
  <2>4. E[k] \in [out : Seq(Octets), count : 0..2]
    BY <2>2 DEF EscapedOK
  <2>5. /\ Len(E[k].out) \in Nat /\ Len(E[k].out) <= Len(E[k + 1].out) /\ Len(E[k + 1].out) \in Nat
        /\ \A i \in 1..Len(E[k].out) : E[k + 1].out[i] = E[k].out[i]
    <3> DEFINE a == E[k]
               x == rbsp[k + 1]
    <3>1. a \in [out : Seq(Octets), count : 0..2] /\ x \in Octets /\ E[k + 1] = EscapeByte(a, x)
      BY <2>2, <2>3, <2>4
    <3> HIDE DEF a, x
    <3> QED BY <3>1, EscapeGrows DEF a
  <2>6. Len(E[k].out) <= n /\ Begins(b, E[k].out)
    <3>1. \A i \in 1..Len(E[k].out) : i \in 1..Len(E[k + 1].out)
      BY <2>5
    <3> DEFINE o1 == E[k].out
               o2 == E[k + 1].out
    <3>2. Begins(b, o2) /\ \A i \in 1..Len(o1) : i \in 1..Len(o2) /\ o2[i] = o1[i]
      BY <2>5, <3>1
    <3>3. Len(o1) <= n
      BY <2>5
    <3> HIDE DEF o1, o2
    <3>4. Begins(b, o1)
      BY <3>2 DEF Begins
    <3> QED BY <3>3, <3>4 DEF o1
  <2>7. HasRead(D[Len(E[k].out)], rbsp, k, E[k].count)
    BY <1>2, <2>1, <2>6
  <2> QED BY <2>1, <2>2, <2>3, <2>7, DecoderStep
<1>3. S \subseteq Nat
  OBVIOUS
<1> HIDE DEF S
<1>4. S = Nat
  BY <1>1, <1>2, <1>3, Induction
<1>5. m \in Nat /\ m <= m
  OBVIOUS
<1> QED BY <1>4, <1>5 DEF S

\* The words of stuffing behind x, and the decoder's state after w of them: it has
\* read zeros, and in the end the byte that comes next.
Stuffed(b, l, w) ==
    \A j \in 0..w - 1 : ByteAt(b, l + 3 * j + 1) = 0 /\ ByteAt(b, l + 3 * j + 2) = 0 /\ ByteAt(b, l + 3 * j + 3) = 3

HasStuffing(dec, rbsp, w, next) ==
    /\ dec.out \in Seq(Octets) /\ Len(rbsp) <= Len(dec.out)
    /\ \A i \in 1..Len(rbsp) : dec.out[i] = rbsp[i]
    /\ \A i \in Len(rbsp) + 1..Len(dec.out) - 1 : dec.out[i] = 0
    /\ \/ w = 0 /\ Len(dec.out) = Len(rbsp) /\ dec = [out |-> dec.out, skip |-> FALSE, count |-> 0]
       \/ /\ w > 0 /\ Len(dec.out) > Len(rbsp) /\ dec.out[Len(dec.out)] = next
          /\ dec = [out |-> dec.out, skip |-> TRUE, count |-> IF next = 0 THEN 1 ELSE 0]

LEMMA OctetAt ==
    ASSUME NEW b \in Seq(Octets), NEW i \in Nat, i >= 1
    PROVE  ByteAt(b, i) \in Octets
<1>1. CASE i <= Len(b)
  <2>1. i \in 1..Len(b)
    BY <1>1
  <2>2. b[i] \in Octets
    BY <2>1
  <2> QED BY <1>1, <2>2 DEF ByteAt
<1>2. CASE ~(i <= Len(b))
  BY <1>2 DEF ByteAt, Octets
<1> QED BY <1>1, <1>2

\* A byte of 0 behind payload and zeros.
Zeros(o, rbsp) ==
    /\ o \in Seq(Octets) /\ Len(rbsp) <= Len(o)
    /\ \A i \in 1..Len(rbsp) : o[i] = rbsp[i]
    /\ \A i \in Len(rbsp) + 1..Len(o) : o[i] = 0

LEMMA OneMore ==
    ASSUME NEW rbsp \in Seq(Octets), NEW o, Zeros(o, rbsp), NEW x \in Octets
    PROVE  /\ x = 0 => Zeros(Append(o, x), rbsp)
           /\ LET p == Append(o, x)
              IN  /\ p \in Seq(Octets) /\ Len(rbsp) < Len(p) /\ p[Len(p)] = x
                  /\ \A i \in 1..Len(rbsp) : p[i] = rbsp[i]
                  /\ \A i \in Len(rbsp) + 1..Len(p) - 1 : p[i] = 0
<1> DEFINE p == Append(o, x)
           n == Len(rbsp)
           m == Len(o)
<1>1. n \in Nat /\ m \in Nat /\ n <= m /\ o \in Seq(Octets)
  BY DEF Zeros
<1>2. /\ \A i \in 1..n : o[i] = rbsp[i]
      /\ \A i \in n + 1..m : o[i] = 0
  BY DEF Zeros
<1>3. /\ p \in Seq(Octets) /\ Len(p) = m + 1
      /\ \A i \in 1..m : p[i] = o[i]
      /\ p[m + 1] = x
  BY <1>1, AppendIs
<1> HIDE DEF p, m, n
<1>4. /\ \A i \in 1..n : i \in 1..m
      /\ \A i \in n + 1..m : i \in 1..m
      /\ \A i \in n + 1..m + 1 : i \in n + 1..m \/ i = m + 1
      /\ m + 1 - 1 = m
  BY <1>1
<1>5. /\ \A i \in 1..n : p[i] = rbsp[i]
      /\ \A i \in n + 1..m : p[i] = 0
  BY <1>2, <1>3, <1>4
<1>6. x = 0 => \A i \in n + 1..m + 1 : p[i] = 0
  BY <1>3, <1>4, <1>5
<1>7. n < Len(p) /\ p[Len(p)] = x /\ Len(p) - 1 = m
  BY <1>1, <1>3
<1>8. x = 0 => Zeros(p, rbsp)
  BY <1>1, <1>3, <1>5, <1>6, <1>7 DEF Zeros, n
<1> QED BY <1>3, <1>5, <1>7, <1>8 DEF p, n

LEMMA StuffingStep ==
    ASSUME NEW rbsp \in Seq(Octets), NEW b \in Seq(Octets), NEW n \in Nat, NEW D, Unescapes(D, b, n),
           NEW q \in Nat, q + 3 <= n,
           ByteAt(b, q + 1) = 0, ByteAt(b, q + 2) = 0, ByteAt(b, q + 3) = 3,
           NEW w \in Nat, HasStuffing(D[q], rbsp, w, ByteAt(b, q + 1))
    PROVE  HasStuffing(D[q + 3], rbsp, w + 1, ByteAt(b, q + 4))
<1> DEFINE x == ByteAt(b, q + 4)
           dec == D[q]
           n0 == Len(rbsp)
<1>1. x \in Octets
  BY OctetAt
<1>2. /\ q + 1 \in 1..n /\ q + 2 \in 1..n /\ q + 3 \in 1..n
      /\ q + 1 - 1 = q /\ q + 2 - 1 = q + 1 /\ q + 3 - 1 = q + 2 /\ q + 3 + 1 = q + 4
  OBVIOUS
<1>3. /\ D[q + 1] = UnescapeByte(D[q], b, q + 1) /\ D[q + 2] = UnescapeByte(D[q + 1], b, q + 2)
      /\ D[q + 3] = UnescapeByte(D[q + 2], b, q + 3)
  <2>1. PICK q1 \in Nat, q2 \in Nat : q1 = q + 1 /\ q2 = q + 2 /\ q1 + 1 = q + 2 /\ q2 + 1 = q + 3
    OBVIOUS
  <2>2. q + 1 <= n /\ q1 + 1 <= n /\ q2 + 1 <= n
    BY <2>1
  <2>3. /\ D[q + 1] = UnescapeByte(D[q], b, q + 1) /\ D[q1 + 1] = UnescapeByte(D[q1], b, q1 + 1)
        /\ D[q2 + 1] = UnescapeByte(D[q2], b, q2 + 1)
    BY <2>2, UnescapesOn
  <2> QED BY <2>1, <2>3
<1>4. \E o : /\ Zeros(o, rbsp)
             /\ D[q + 2] = [out |-> o, skip |-> FALSE, count |-> 2]
  <2>0. /\ dec.out \in Seq(Octets) /\ n0 \in Nat /\ Len(dec.out) \in Nat /\ n0 <= Len(dec.out)
        /\ \A i \in 1..n0 : dec.out[i] = rbsp[i]
        /\ \A i \in n0 + 1..Len(dec.out) - 1 : dec.out[i] = 0
    BY SMTT(30) DEF HasStuffing
  <2>1. CASE w = 0
    <3>1. Len(dec.out) = n0 /\ dec = [out |-> dec.out, skip |-> FALSE, count |-> 0]
      BY <2>1 DEF HasStuffing
    <3> DEFINE o == dec.out
               o1 == Append(o, 0)
               o2 == Append(o1, 0)
    <3>2. dec = [out |-> o, skip |-> FALSE, count |-> 0]
      BY <3>1
    <3>3. Zeros(o, rbsp)
      BY <2>0, <3>1 DEF Zeros
    <3>4. 0 \in Octets
      BY DEF Octets
    <3> HIDE DEF dec, o
    <3>5. Zeros(o1, rbsp)
      BY <3>3, <3>4, OneMore
    <3>6. D[q + 1] = [out |-> o1, skip |-> FALSE, count |-> 1]
      <4>1. UnescapeByte([out |-> o, skip |-> FALSE, count |-> 0], b, q + 1) = [out |-> o1, skip |-> FALSE, count |-> 0 + 1]
        BY ZeroIs
      <4>2. 0 + 1 = 1
        OBVIOUS
      <4> QED BY <1>3, <3>2, <4>1, <4>2 DEF dec
    <3> HIDE DEF o1
    <3>7. Zeros(o2, rbsp)
      BY <3>4, <3>5, OneMore
    <3>8. D[q + 2] = [out |-> o2, skip |-> FALSE, count |-> 2]
      <4>1. UnescapeByte([out |-> o1, skip |-> FALSE, count |-> 1], b, q + 2) = [out |-> o2, skip |-> FALSE, count |-> 1 + 1]
        BY ZeroIs
      <4>2. 1 + 1 = 2
        OBVIOUS
      <4> QED BY <1>3, <3>6, <4>1, <4>2
    <3> QED BY <3>7, <3>8
  <2>2. CASE w # 0
    <3>1. /\ Len(dec.out) > n0 /\ dec.out[Len(dec.out)] = 0
          /\ dec = [out |-> dec.out, skip |-> TRUE, count |-> 1]
      BY <2>2 DEF HasStuffing
    <3> DEFINE o == dec.out
               o1 == Append(o, 0)
    <3>2. dec = [out |-> o, skip |-> TRUE, count |-> 1]
      BY <3>1
    <3>3. Zeros(o, rbsp)
      <4>1. \A i \in n0 + 1..Len(o) : i \in n0 + 1..Len(o) - 1 \/ i = Len(o)
        BY <2>0
      <4> QED BY <2>0, <3>1, <4>1 DEF Zeros
    <3>4. 0 \in Octets
      BY DEF Octets
    <3> HIDE DEF dec, o
    <3>5. Zeros(o1, rbsp)
      BY <3>3, <3>4, OneMore
    <3>6. D[q + 1] = [out |-> o, skip |-> FALSE, count |-> 1]
      <4>1. UnescapeByte([out |-> o, skip |-> TRUE, count |-> 1], b, q + 1) = [out |-> o, skip |-> FALSE, count |-> 1]
        BY SkipIs
      <4> QED BY <1>3, <3>2, <4>1 DEF dec
    <3>7. D[q + 2] = [out |-> o1, skip |-> FALSE, count |-> 2]
      <4>1. UnescapeByte([out |-> o, skip |-> FALSE, count |-> 1], b, q + 2) = [out |-> o1, skip |-> FALSE, count |-> 1 + 1]
        BY ZeroIs
      <4>2. 1 + 1 = 2
        OBVIOUS
      <4> QED BY <1>3, <3>6, <4>1, <4>2
    <3> QED BY <3>5, <3>7
  <2> QED BY <2>1, <2>2
<1>5. PICK o : /\ Zeros(o, rbsp)
               /\ D[q + 2] = [out |-> o, skip |-> FALSE, count |-> 2]
  BY <1>4
<1> DEFINE p == Append(o, x)
<1>6. ByteAt(b, q + 3 + 1) = x
  BY <1>2
<1> HIDE DEF x
<1>7. D[q + 3] = [out |-> p, skip |-> TRUE, count |-> IF x = 0 THEN 1 ELSE 0]
  <2>1. UnescapeByte([out |-> o, skip |-> FALSE, count |-> 2], b, q + 3) =
            [out |-> Append(o, ByteAt(b, q + 3 + 1)), skip |-> TRUE, count |-> IF ByteAt(b, q + 3 + 1) = 0 THEN 1 ELSE 0]
    BY EscapedIs
  <2> QED BY <1>3, <1>5, <1>6, <2>1
<1>8. /\ p \in Seq(Octets) /\ n0 < Len(p) /\ p[Len(p)] = x
      /\ \A i \in 1..n0 : p[i] = rbsp[i]
      /\ \A i \in n0 + 1..Len(p) - 1 : p[i] = 0
  BY <1>1, <1>5, OneMore, SMTT(30)
<1> HIDE DEF p
<1>9. D[q + 3].out = p /\ D[q + 3] = [out |-> p, skip |-> TRUE, count |-> IF x = 0 THEN 1 ELSE 0]
  BY <1>7
<1>10. w + 1 > 0 /\ n0 <= Len(p)
  <2>1. n0 \in Nat /\ Len(p) \in Nat
    BY <1>8
  <2> QED BY <1>8, <2>1
<1> QED BY <1>8, <1>9, <1>10 DEF HasStuffing, x

LEMMA StuffingRead ==
    ASSUME NEW rbsp \in Seq(Octets), NEW b \in Seq(Octets), NEW n \in Nat, NEW D, Unescapes(D, b, n),
           NEW l \in Nat, NEW w \in Nat, l + 3 * w <= n, Stuffed(b, l, w), HasRead(D[l], rbsp, Len(rbsp), 0)
    PROVE  HasStuffing(D[l + 3 * w], rbsp, w, ByteAt(b, l + 3 * w + 1))
<1> DEFINE S == {j \in Nat : j <= w => HasStuffing(D[l + 3 * j], rbsp, j, ByteAt(b, l + 3 * j + 1))}
<1>1. 0 \in S
  <2>1. l + 3 * 0 = l
    OBVIOUS
  <2>2. /\ D[l] = [out |-> D[l].out, skip |-> FALSE, count |-> 0] /\ D[l].out \in Seq(Octets)
        /\ Len(D[l].out) = Len(rbsp) /\ \A i \in 1..Len(rbsp) : D[l].out[i] = rbsp[i]
    BY DEF HasRead
  <2>3. Len(rbsp) \in Nat /\ \A i \in Len(rbsp) + 1..Len(rbsp) - 1 : FALSE
    OBVIOUS
  <2>4. Len(rbsp) <= Len(D[l].out) /\ \A i \in Len(rbsp) + 1..Len(D[l].out) - 1 : D[l].out[i] = 0
    BY <2>2, <2>3
  <2>5. HasStuffing(D[l], rbsp, 0, ByteAt(b, l + 1))
    BY <2>2, <2>4 DEF HasStuffing
  <2> QED BY <2>1, <2>5
<1>2. ASSUME NEW j \in Nat, j \in S
      PROVE  j + 1 \in S
  <2> SUFFICES ASSUME j + 1 <= w
               PROVE  HasStuffing(D[l + 3 * (j + 1)], rbsp, j + 1, ByteAt(b, l + 3 * (j + 1) + 1))
    OBVIOUS
  <2>1. PICK q \in Nat : q = l + 3 * j
    OBVIOUS
  <2>2. j \in 0..w - 1 /\ j <= w /\ q + 3 <= n /\ l + 3 * (j + 1) = q + 3 /\ q + 3 + 1 = q + 4
    BY <2>1
  <2>3. ByteAt(b, q + 1) = 0 /\ ByteAt(b, q + 2) = 0 /\ ByteAt(b, q + 3) = 3
    BY <2>1, <2>2 DEF Stuffed
  <2>4. HasStuffing(D[q], rbsp, j, ByteAt(b, q + 1))
    BY <1>2, <2>1, <2>2
  <2>5. HasStuffing(D[q + 3], rbsp, j + 1, ByteAt(b, q + 4))
    BY <2>2, <2>3, <2>4, StuffingStep
  <2> QED BY <2>2, <2>5
<1>3. S \subseteq Nat
  OBVIOUS
<1> HIDE DEF S
<1>4. S = Nat
  BY <1>1, <1>2, <1>3, Induction
<1>5. w <= w
  OBVIOUS
<1> QED BY <1>4, <1>5 DEF S

(***************************************************************************)
(* What a unit carries: x is a payload escaped, and gives it back at the   *)
(* beginning of whatever buffer; with stuffing, zeros and a byte more.     *)
(***************************************************************************)
Gives(r, u) ==
    /\ r \in Seq(Octets) /\ Len(u.rbsp) <= Len(r)
    /\ \A i \in 1..Len(u.rbsp) : r[i] = u.rbsp[i]
    /\ \A i \in Len(u.rbsp) + 1..Len(r) - 1 : r[i] = 0
    /\ ~u.stuffed => Len(r) = Len(u.rbsp)

Carries(x, u) ==
    /\ x \in Seq(Octets) /\ Len(x) >= 1 /\ x[Len(x)] # 0 /\ NoStartCode(x)
    /\ \A b \in Seq(Octets) : Begins(b, x) => Gives(EBSPtoRBSP(b, Len(x)), u)

StuffingOf(w) == [i \in 1..(3 * w) |-> IF i % 3 = 0 THEN 3 ELSE 0]

LEMMA StuffingIs ==
    ASSUME NEW w \in Nat
    PROVE  /\ StuffingOf(w) \in Seq(Octets) /\ Len(StuffingOf(w)) = 3 * w
           /\ \A i \in 1..3 * w : StuffingOf(w)[i] \in {0, 3}
           /\ w > 0 => StuffingOf(w)[3 * w] = 3
           /\ \A j \in 0..w - 1 : /\ StuffingOf(w)[3 * j + 1] = 0 /\ StuffingOf(w)[3 * j + 2] = 0
                                  /\ StuffingOf(w)[3 * j + 3] = 3
<1> DEFINE s == StuffingOf(w)
<1>1. s = [i \in 1..3 * w |-> IF i % 3 = 0 THEN 3 ELSE 0] /\ 3 * w \in Nat
  BY DEF StuffingOf
<1>2. \A i \in 1..3 * w : (IF i % 3 = 0 THEN 3 ELSE 0) \in Octets
  BY DEF Octets
<1> HIDE DEF s
<1>3. s \in Seq(Octets) /\ Len(s) = 3 * w
  BY <1>1, <1>2
<1>4. \A i \in 1..3 * w : s[i] = (IF i % 3 = 0 THEN 3 ELSE 0)
  BY <1>1
<1>5. w > 0 => 3 * w \in 1..3 * w /\ (3 * w) % 3 = 0
  OBVIOUS
<1>6. \A j \in 0..w - 1 : /\ 3 * j + 1 \in 1..3 * w /\ 3 * j + 2 \in 1..3 * w /\ 3 * j + 3 \in 1..3 * w
                          /\ (3 * j + 1) % 3 = 1 /\ (3 * j + 2) % 3 = 2 /\ (3 * j + 3) % 3 = 0
  OBVIOUS
<1>7. \A j \in 0..w - 1 : s[3 * j + 1] = 0 /\ s[3 * j + 2] = 0 /\ s[3 * j + 3] = 3
  BY <1>4, <1>6
<1>8. w > 0 => s[3 * w] = 3
  BY <1>4, <1>5
<1>9. \A i \in 1..3 * w : s[i] \in {0, 3}
  BY <1>4
<1> QED BY <1>3, <1>7, <1>8, <1>9 DEF s

LEMMA WordsAre ==
    ASSUME NEW l \in Nat, NEW least \in Nat, NEW w, w = IF l < least THEN (least - l + 2) \div 3 ELSE 0
    PROVE  w \in Nat /\ (w > 0 <=> least > l)
<1>1. CASE l < least
  <2>1. PICK k \in Nat : k = least - l + 2 /\ k >= 3
    BY <1>1
  <2>2. k \div 3 \in Nat /\ k \div 3 > 0
    BY <2>1
  <2> QED BY <1>1, <2>1, <2>2
<1>2. CASE ~(l < least)
  BY <1>2
<1> QED BY <1>1, <1>2

LEMMA UnitCarries ==
    ASSUME NEW rbsp \in Seq(Octets), Len(rbsp) >= 1, rbsp[Len(rbsp)] # 0, NEW least \in Nat, NEW u,
           u.rbsp = rbsp, u.stuffed = (least > Len(RBSPtoEBSP(rbsp, 0)))
    PROVE  Carries(RBSPtoEBSP(rbsp, least), u)
<1> DEFINE n == Len(rbsp)
<1>0. n \in Nat /\ n \in 0..n /\ n # 0 /\ rbsp[n] \in Octets
  OBVIOUS
<1>1. PICK E : /\ Escapes(E, rbsp)
               /\ \A k : RBSPtoEBSP(rbsp, k) =
                      LET ebsp == E[Len(rbsp)].out
                          words == IF Len(ebsp) < k THEN (k - Len(ebsp) + 2) \div 3 ELSE 0
                      IN  ebsp \o [i \in 1..(3 * words) |-> IF i % 3 = 0 THEN 3 ELSE 0]
  BY EscapesExist
<1> DEFINE a == E[n].out
           l == Len(a)
           WordsFor(k) == IF l < k THEN (k - l + 2) \div 3 ELSE 0
           w == WordsFor(least)
           x == RBSPtoEBSP(rbsp, least)
<1>2. EscapedOK(E[n]) /\ a[l] = rbsp[n] /\ l >= 1
  BY <1>0, <1>1, EscapesKeep
<1>3. a \in Seq(Octets) /\ l \in Nat /\ NoStartCode(a) /\ E[n].count \in 0..2
  BY <1>2 DEF EscapedOK
<1>4. E[n].count = 0
  <2>1. n \in 1..Len(rbsp) /\ n - 1 \in 0..Len(rbsp)
    BY <1>0
  <2>2. E[n] = EscapeByte(E[n - 1], rbsp[n])
    BY <1>1, <2>1 DEF Escapes
  <2>3. EscapedOK(E[n - 1])
    BY <1>1, <2>1, EscapesKeep
  <2> DEFINE a2 == E[n - 1]
             y == rbsp[n]
  <2>4. EscapedOK(a2) /\ y \in Octets /\ y # 0 /\ E[n] = EscapeByte(a2, y)
    BY <1>0, <2>2, <2>3
  <2> HIDE DEF n, a2, y
  <2> QED BY <2>4, EscapeKeeps
<1>5. \A k : RBSPtoEBSP(rbsp, k) = a \o StuffingOf(WordsFor(k))
  BY <1>1 DEF StuffingOf
<1>6. Len(RBSPtoEBSP(rbsp, 0)) = l
  <2>1. WordsFor(0) = 0
    <3> HIDE DEF l
    <3> QED BY <1>3
  <2>2. StuffingOf(0) \in Seq(Octets) /\ Len(StuffingOf(0)) = 3 * 0
    BY StuffingIs
  <2>3. RBSPtoEBSP(rbsp, 0) = a \o StuffingOf(0)
    BY <1>5, <2>1
  <2> HIDE DEF a
  <2>4. Len(a \o StuffingOf(0)) = Len(a) + Len(StuffingOf(0))
    BY <1>3, <2>2, ConcatOctets
  <2> QED BY <1>3, <2>2, <2>3, <2>4
<1>7. w \in Nat /\ (w > 0 <=> least > l)
  BY <1>3, WordsAre
<1>8. x = a \o StuffingOf(w)
  BY <1>5
<1> HIDE DEF w, WordsFor, x
<1>9. /\ StuffingOf(w) \in Seq(Octets) /\ Len(StuffingOf(w)) = 3 * w
      /\ \A i \in 1..3 * w : StuffingOf(w)[i] \in {0, 3}
      /\ w > 0 => StuffingOf(w)[3 * w] = 3
      /\ \A j \in 0..w - 1 : /\ StuffingOf(w)[3 * j + 1] = 0 /\ StuffingOf(w)[3 * j + 2] = 0
                             /\ StuffingOf(w)[3 * j + 3] = 3
  BY <1>7, StuffingIs
<1>10. /\ x \in Seq(Octets) /\ Len(x) = l + 3 * w
       /\ \A i \in 1..l : x[i] = a[i]
       /\ \A i \in 1..3 * w : x[l + i] = StuffingOf(w)[i]
  <2> DEFINE v == StuffingOf(w)
  <2>1. v \in Seq(Octets) /\ Len(v) = 3 * w
    BY <1>9
  <2> HIDE DEF a, v
  <2>2. /\ a \o v \in Seq(Octets) /\ Len(a \o v) = Len(a) + Len(v)
        /\ \A i \in 1..Len(a) : (a \o v)[i] = a[i]
        /\ \A i \in 1..Len(v) : (a \o v)[Len(a) + i] = v[i]
    BY <1>3, <2>1, ConcatOctets
  <2> QED BY <1>8, <2>1, <2>2 DEF v
<1>11. u.stuffed = (w > 0)
  BY <1>6, <1>7
<1> HIDE DEF a, n, l
<1>12. Len(x) >= 1 /\ x[Len(x)] # 0
  <2>1. CASE w = 0
    <3>1. Len(x) = l /\ l \in 1..l
      BY <1>2, <1>3, <1>10, <2>1
    <3> QED BY <1>2, <1>10, <3>1 DEF n
  <2>2. CASE w # 0
    <3>1. 3 * w \in 1..3 * w /\ w > 0 /\ l + 3 * w >= 1
      BY <1>3, <1>7, <2>2
    <3> QED BY <1>9, <1>10, <3>1
  <2> QED BY <2>1, <2>2
<1>13. NoStartCode(x)
  <2>1. \A i \in 1..Len(x) : i \in 1..l \/ x[i] \in {0, 3}
    <3> SUFFICES ASSUME NEW i \in 1..Len(x), i \notin 1..l PROVE x[i] \in {0, 3}
      OBVIOUS
    <3>1. PICK j \in 1..3 * w : i = l + j
      <4>1. i - l \in 1..3 * w /\ i = l + (i - l)
        BY <1>3, <1>7, <1>10
      <4> QED BY <4>1
    <3> QED BY <1>9, <1>10, <3>1
  <2> SUFFICES ASSUME NEW i \in 1..Len(x) - 2, x[i] = 0, x[i + 1] = 0, x[i + 2] = 1 PROVE FALSE
    BY DEF NoStartCode
  <2>2. Len(x) \in Nat /\ i + 2 \in 1..Len(x)
    BY <1>10
  <2>3. i + 2 \in 1..l
    <3>1. 1 \notin {0, 3}
      OBVIOUS
    <3> QED BY <2>1, <2>2, <3>1
  <2>4. i \in 1..l /\ i + 1 \in 1..l /\ i \in 1..l - 2
    BY <1>3, <2>3
  <2>5. a[i] = 0 /\ a[i + 1] = 0 /\ a[i + 2] = 1
    BY <1>10, <2>3, <2>4
  <2> QED BY <1>3, <2>4, <2>5 DEF NoStartCode, l
<1>14. ASSUME NEW b \in Seq(Octets), Begins(b, x)
       PROVE  Gives(EBSPtoRBSP(b, Len(x)), u)
  <2> DEFINE m == Len(x)
             r == EBSPtoRBSP(b, m)
  <2>1. m \in Nat /\ m = l + 3 * w /\ l <= m
    BY <1>3, <1>7, <1>10
  <2> HIDE DEF m
  <2>2. PICK D : Unescapes(D, b, m) /\ r = D[m].out
    BY <2>1, UnescapesExist
  <2> HIDE DEF r
  <2>3. Begins(b, a)
    <3>1. \A i \in 1..l : i \in 1..Len(x)
      BY <1>3, <2>1 DEF m
    <3> QED BY <1>10, <1>14, <3>1 DEF Begins, l
  <2>4. HasRead(D[l], rbsp, Len(rbsp), 0)
    BY <1>0, <1>1, <1>4, <2>1, <2>2, <2>3, ReadsBack DEF a, l, n
  <2>5. Stuffed(b, l, w)
    <3> SUFFICES ASSUME NEW j \in 0..w - 1
                 PROVE  ByteAt(b, l + 3 * j + 1) = 0 /\ ByteAt(b, l + 3 * j + 2) = 0 /\ ByteAt(b, l + 3 * j + 3) = 3
      BY DEF Stuffed
    <3>1. /\ 3 * j + 1 \in 1..3 * w /\ 3 * j + 2 \in 1..3 * w /\ 3 * j + 3 \in 1..3 * w
          /\ l + 3 * j + 1 = l + (3 * j + 1) /\ l + 3 * j + 2 = l + (3 * j + 2) /\ l + 3 * j + 3 = l + (3 * j + 3)
          /\ l + (3 * j + 1) \in 1..m /\ l + (3 * j + 2) \in 1..m /\ l + (3 * j + 3) \in 1..m
      BY <1>3, <1>7, <2>1
    <3>2. x[l + (3 * j + 1)] = 0 /\ x[l + (3 * j + 2)] = 0 /\ x[l + (3 * j + 3)] = 3
      BY <1>9, <1>10, <3>1, SMTT(30)
    <3> QED BY <1>14, <3>1, <3>2 DEF Begins, m
  <2>6. HasStuffing(D[m], rbsp, w, ByteAt(b, m + 1))
    <3>1. l + 3 * w <= m
      BY <2>1
    <3> QED BY <1>3, <1>7, <2>1, <2>2, <2>4, <2>5, <3>1, StuffingRead
  <2>7. /\ r \in Seq(Octets) /\ Len(rbsp) <= Len(r)
        /\ \A i \in 1..Len(rbsp) : r[i] = rbsp[i]
        /\ \A i \in Len(rbsp) + 1..Len(r) - 1 : r[i] = 0
        /\ w = 0 => Len(r) = Len(rbsp)
    BY <2>2, <2>6, <1>7 DEF HasStuffing
  <2>8. ~u.stuffed => w = 0
    <3>1. CASE w > 0
      <4>1. u.stuffed = TRUE
        BY <1>11, <3>1
      <4> QED BY <4>1
    <3>2. CASE ~(w > 0)
      BY <1>7, <3>2
    <3> QED BY <3>1, <3>2
  <2> QED BY <2>7, <2>8 DEF Gives, r, m
<1> QED BY <1>10, <1>12, <1>13, <1>14 DEF Carries, x

LEMMA SubSeqIs ==
    ASSUME NEW S, NEW s \in Seq(S), NEW m \in Nat, m >= 1, NEW n \in Nat, n <= Len(s)
    PROVE  /\ SubSeq(s, m, n) \in Seq(S) /\ Len(SubSeq(s, m, n)) = (IF m <= n THEN n - m + 1 ELSE 0)
           /\ \A i \in 1..Len(SubSeq(s, m, n)) : SubSeq(s, m, n)[i] = s[m + i - 1]
OBVIOUS

\* What PayloadsSurvive says of each payload.
Delivered(g, u) ==
    /\ IsPrefix(u.rbsp, g)
    /\ \A i \in Len(u.rbsp) + 1..Len(g) - 1 : g[i] = 0
    /\ ~u.stuffed => g = u.rbsp

LEMMA LastOneIs ==
    ASSUME NEW r \in Seq(Octets), NEW k \in 1..Len(r), r[k] # 0, \A i \in k + 1..Len(r) : r[i] = 0
    PROVE  RBSPtoSODB(r) = k
<1> DEFINE ones == {i \in 1..Len(r) : r[i] # 0}
<1>1. k \in ones /\ \A j \in ones : j <= k
  <2> SUFFICES ASSUME NEW j \in ones, ~(j <= k) PROVE FALSE
    OBVIOUS
  <2>1. j \in k + 1..Len(r)
    OBVIOUS
  <2> QED BY <2>1
<1>2. \A i \in ones : (\A j \in ones : j <= i) => i = k
  BY <1>1
<1>3. ones # {}
  BY <1>1
<1>4. RBSPtoSODB(r) = CHOOSE i \in ones : \A j \in ones : j <= i
  BY <1>3 DEF RBSPtoSODB
<1> HIDE DEF ones
<1> QED BY <1>1, <1>2, <1>4

LEMMA PayloadDelivered ==
    ASSUME NEW u, u.rbsp \in Seq(Octets), Len(u.rbsp) >= 1, u.rbsp[Len(u.rbsp)] # 0, NEW r, Gives(r, u)
    PROVE  LET g == SubSeq(r, 1, RBSPtoSODB(r))
           IN  g \in Seq(Octets) /\ Delivered(g, u)
<1> DEFINE v == u.rbsp
           n == Len(v)
           m == Len(r)
<1>1. /\ v \in Seq(Octets) /\ n \in Nat /\ n >= 1 /\ v[n] # 0
      /\ r \in Seq(Octets) /\ m \in Nat /\ n <= m
      /\ \A i \in 1..n : r[i] = v[i]
      /\ \A i \in n + 1..m - 1 : r[i] = 0
      /\ ~u.stuffed => m = n
  BY DEF Gives
<1> HIDE DEF v, n, m
<1>2. \E k \in n..m : r[k] # 0 /\ \A i \in k + 1..m : r[i] = 0
  <2>1. CASE m > n /\ r[m] # 0
    <3>1. m \in n..m /\ \A i \in m + 1..m : FALSE
      BY <1>1
    <3> QED BY <2>1, <3>1
  <2>2. CASE ~(m > n /\ r[m] # 0)
    <3>1. n \in n..m /\ n \in 1..n
      BY <1>1
    <3>2. r[n] # 0
      BY <1>1, <3>1
    <3>3. ASSUME NEW i \in n + 1..m PROVE r[i] = 0
      <4>1. i \in n + 1..m - 1 \/ (i = m /\ m > n)
        BY <1>1
      <4> QED BY <1>1, <2>2, <4>1
    <3> QED BY <3>1, <3>2, <3>3
  <2> QED BY <2>1, <2>2
<1>3. PICK k \in n..m : r[k] # 0 /\ \A i \in k + 1..m : r[i] = 0
  BY <1>2
<1>4. k \in 1..Len(r) /\ k \in Nat /\ k <= Len(r)
  BY <1>1 DEF m
<1>5. RBSPtoSODB(r) = k
  BY <1>1, <1>3, <1>4, LastOneIs DEF m
<1> DEFINE g == SubSeq(r, 1, k)
<1>6. g \in Seq(Octets) /\ Len(g) = k /\ \A i \in 1..k : g[i] = r[i]
  <2>1. /\ SubSeq(r, 1, k) \in Seq(Octets) /\ Len(SubSeq(r, 1, k)) = (IF 1 <= k THEN k - 1 + 1 ELSE 0)
        /\ \A i \in 1..Len(SubSeq(r, 1, k)) : SubSeq(r, 1, k)[i] = r[1 + i - 1]
    BY <1>1, <1>4, SubSeqIs
  <2>2. (IF 1 <= k THEN k - 1 + 1 ELSE 0) = k /\ \A i \in 1..k : 1 + i - 1 = i
    BY <1>4
  <2> QED BY <2>1, <2>2
<1> HIDE DEF g
<1>7. \A i \in 1..n : i \in 1..k
  BY <1>1, <1>3
<1>8. \A i \in 1..n : g[i] = v[i]
  BY <1>1, <1>6, <1>7
<1>9. IsPrefix(v, g)
  <2>1. n <= Len(g)
    BY <1>1, <1>3, <1>6
  <2>2. SubSeq(v, 1, n) = SubSeq(g, 1, n)
    <3>1. /\ SubSeq(v, 1, n) \in Seq(Octets) /\ Len(SubSeq(v, 1, n)) = n
          /\ \A i \in 1..n : SubSeq(v, 1, n)[i] = v[i]
      BY <1>1 DEF n
    <3>2. /\ SubSeq(g, 1, n) \in Seq(Octets) /\ Len(SubSeq(g, 1, n)) = n
          /\ \A i \in 1..n : SubSeq(g, 1, n)[i] = g[i]
      BY <1>1, <1>6, <2>1
    <3> QED BY <1>8, <3>1, <3>2
  <2> QED BY <2>1, <2>2 DEF IsPrefix, n
<1>10. \A i \in n + 1..Len(g) - 1 : g[i] = 0
  <2>1. \A i \in n + 1..k - 1 : i \in n + 1..m - 1 /\ i \in 1..k
    BY <1>1, <1>3
  <2> QED BY <1>1, <1>6, <2>1
<1>11. ~u.stuffed => g = v
  <2> SUFFICES ASSUME ~u.stuffed PROVE g = v
    OBVIOUS
  <2>1. k = n
    BY <1>1, <1>3
  <2> QED BY <1>1, <1>6, <1>8, <2>1 DEF n
<1> QED BY <1>5, <1>6, <1>9, <1>10, <1>11 DEF Delivered, g, v, n

(***************************************************************************)
(* The file.  Unit u stands at S[u] up to before T[u] as X[u], after zeros *)
(* and the start code.                                                     *)
(***************************************************************************)
UnitLaid(f, p, s, t, x) ==
    /\ p \in Nat /\ s \in Nat /\ t \in Nat /\ p >= 1 /\ p + 4 <= s /\ t = s + Len(x) /\ t <= Len(f) + 1
    /\ x \in Seq(Octets) /\ Len(x) >= 1
    /\ \A k \in p..s - 3 : f[k] = 0
    /\ f[s - 2] = 1
    /\ \A i \in 1..Len(x) : f[s + i - 1] = x[i]

Laid(S, T, X) ==
    /\ T[0] = 1
    /\ \A u \in 1..Len(sent) : UnitLaid(file, T[u - 1], S[u], T[u], X[u]) /\ Carries(X[u], sent[u])
    /\ T[Len(sent)] \in Nat /\ 1 <= T[Len(sent)] /\ T[Len(sent)] <= Len(file) + 1
    /\ \A k \in T[Len(sent)]..Len(file) : file[k] = 0

Units == [rbsp : Seq(Octets), stuffed : BOOLEAN]

StreamInv ==
    /\ file \in Seq(Octets) /\ buf \in Seq(Octets) /\ pos \in Nat
    /\ sent \in Seq(Units) /\ got \in Seq(Seq(Octets)) /\ Len(got) <= Len(sent)
    /\ \A u \in 1..Len(sent) : Len(sent[u].rbsp) >= 1 /\ sent[u].rbsp[Len(sent[u].rbsp)] # 0
    /\ \A u \in 1..Len(got) : Delivered(got[u], sent[u])
    /\ pos = 0 => got = <<>>
    /\ \E S, T, X : /\ Laid(S, T, X)
                    /\ pos = T[Len(got)] - 1 \/ (pos = Len(file) /\ Len(got) = Len(sent))

LEMMA UnitFields ==
    ASSUME NEW f \in Seq(Octets), NEW p, NEW s, NEW t, NEW x, UnitLaid(f, p, s, t, x)
    PROVE  /\ p \in Nat /\ s \in Nat /\ t \in Nat /\ p >= 1 /\ p + 4 <= s /\ s < t /\ t <= Len(f) + 1
           /\ Len(x) \in Nat /\ Len(x) >= 1 /\ t = s + Len(x)
           /\ Len(f) \in Nat
<1>1. x \in Seq(Octets) /\ p \in Nat /\ s \in Nat /\ t = s + Len(x) /\ Len(x) >= 1 /\ t \in Nat /\ p >= 1 /\ p + 4 <= s
      /\ t <= Len(f) + 1
  BY DEF UnitLaid
<1>2. Len(x) \in Nat /\ Len(f) \in Nat
  BY <1>1
<1> QED BY <1>1, <1>2

\* From the end of a unit on, the next start code is that of the next unit.
LEMMA CodeFound ==
    ASSUME file \in Seq(Octets), NEW p, NEW s, NEW t, NEW x, UnitLaid(file, p, s, t, x)
    PROVE  \A i \in p..Len(file) : FindStartCode(i) /\ (\A k \in p..i - 1 : file[k] = 0) <=> i = s - 4
<1>1. /\ p \in Nat /\ s \in Nat /\ t \in Nat /\ p >= 1 /\ p + 4 <= s /\ s < t /\ t <= Len(file) + 1
      /\ Len(file) \in Nat
  BY UnitFields
<1>2. (\A k \in p..s - 3 : file[k] = 0) /\ file[s - 2] = 1
  BY DEF UnitLaid
<1>3. ASSUME NEW i \in p..Len(file), i = s - 4
      PROVE  FindStartCode(i) /\ (\A k \in p..i - 1 : file[k] = 0)
  <2>1. i + 2 = s - 2 /\ i + 2 <= Len(file) /\ i \in p..s - 3 /\ i + 1 \in p..s - 3
    BY <1>1, <1>3
  <2>2. \A k \in p..i - 1 : k \in p..s - 3
    BY <1>1, <1>3
  <2> QED BY <1>2, <2>1, <2>2 DEF FindStartCode
<1>4. ASSUME NEW i \in p..Len(file), FindStartCode(i), \A k \in p..i - 1 : file[k] = 0
      PROVE  i = s - 4
  <2>1. file[i] = 0 /\ file[i + 1] = 0 /\ file[i + 2] = 1
    BY <1>4 DEF FindStartCode
  <2>2. CASE i < s - 4
    <3>1. i + 2 \in p..s - 3
      BY <1>1, <2>2
    <3> QED BY <1>2, <2>1, <3>1
  <2>3. CASE i = s - 3
    <3>1. i + 1 = s - 2
      BY <1>1, <2>3
    <3> QED BY <1>2, <2>1, <3>1
  <2>4. CASE i = s - 2
    BY <1>2, <2>1, <2>4
  <2>5. CASE i > s - 2
    <3>1. s - 2 \in p..i - 1
      BY <1>1, <2>5
    <3> QED BY <1>2, <1>4, <3>1
  <2> QED BY <1>1, <2>2, <2>3, <2>4, <2>5
<1> QED BY <1>3, <1>4

\* None stands in a unit, nor in the zeros after it.
LEMMA NoCodeWithin ==
    ASSUME file \in Seq(Octets), NEW p, NEW s, NEW t, NEW x, UnitLaid(file, p, s, t, x), NoStartCode(x),
           NEW q \in Nat, \A k \in t..q : file[k] = 0,
           NEW j \in Nat, s <= j, FindStartCode(j), j + 2 <= q
    PROVE  FALSE
<1>1. /\ p \in Nat /\ s \in Nat /\ t \in Nat /\ p >= 1 /\ p + 4 <= s /\ s < t /\ t <= Len(file) + 1
      /\ Len(file) \in Nat /\ Len(x) \in Nat /\ t = s + Len(x)
  BY UnitFields
<1>2. \A i \in 1..Len(x) : file[s + i - 1] = x[i]
  BY DEF UnitLaid
<1>3. file[j] = 0 /\ file[j + 1] = 0 /\ file[j + 2] = 1
  BY DEF FindStartCode
<1>4. CASE j + 2 >= t
  <2>1. j + 2 \in t..q
    BY <1>1, <1>4
  <2> QED BY <1>3, <2>1
<1>5. CASE j + 2 < t
  <2>1. PICK i \in 1..Len(x) - 2 : j = s + i - 1
    <3>1. j - s + 1 \in 1..Len(x) - 2 /\ j = s + (j - s + 1) - 1
      BY <1>1, <1>5
    <3> QED BY <3>1
  <2>2. /\ i \in 1..Len(x) /\ i + 1 \in 1..Len(x) /\ i + 2 \in 1..Len(x)
        /\ s + (i + 1) - 1 = j + 1 /\ s + (i + 2) - 1 = j + 2
    BY <1>1, <2>1
  <2>3. x[i] = 0 /\ x[i + 1] = 0 /\ x[i + 2] = 1
    BY <1>2, <1>3, <2>1, <2>2, SMTT(30)
  <2> QED BY <2>1, <2>3 DEF NoStartCode
<1> QED BY <1>1, <1>4, <1>5

\* So UnitEnd finds the end of the unit: before the next one, or at the end of the file.
LEMMA EndIs ==
    ASSUME NEW f, NEW s \in Nat, NEW t \in Nat, NEW stop \in Nat, s < t, t <= stop, f[t - 1] # 0,
           \A k \in t..stop - 1 : f[k] = 0
    PROVE  t = CHOOSE e \in s..stop : (\A k \in e..(stop - 1) : f[k] = 0) /\ (e = s \/ f[e - 1] # 0)
<1> DEFINE Ends(e) == (\A k \in e..(stop - 1) : f[k] = 0) /\ (e = s \/ f[e - 1] # 0)
<1>1. t \in s..stop /\ Ends(t)
  OBVIOUS
<1>2. ASSUME NEW e \in s..stop, Ends(e) PROVE e = t
  <2>1. CASE e < t
    <3>1. t - 1 \in e..stop - 1
      BY <2>1
    <3> QED BY <1>2, <3>1
  <2>2. CASE e > t
    <3>1. e - 1 \in t..stop - 1 /\ e # s
      BY <2>2
    <3> QED BY <1>2, <3>1
  <2> QED BY <2>1, <2>2
<1> HIDE DEF Ends
<1>3. (CHOOSE e \in s..stop : Ends(e)) = t
  BY <1>1, <1>2
<1> QED BY <1>3 DEF Ends

LEMMA UnitEndIs ==
    ASSUME file \in Seq(Octets), NEW p, NEW s, NEW t, NEW x, UnitLaid(file, p, s, t, x), NoStartCode(x), x[Len(x)] # 0,
           \/ \A k \in t..Len(file) : file[k] = 0
           \/ \E s2, t2, x2 : UnitLaid(file, t, s2, t2, x2)
    PROVE  UnitEnd(s) = t
<1>1. /\ p \in Nat /\ s \in Nat /\ t \in Nat /\ p >= 1 /\ p + 4 <= s /\ s < t /\ t <= Len(file) + 1
      /\ Len(file) \in Nat /\ Len(x) \in Nat /\ Len(x) >= 1 /\ t = s + Len(x)
  BY UnitFields
<1>2. file[t - 1] # 0
  <2>1. Len(x) \in 1..Len(x) /\ s + Len(x) - 1 = t - 1
    BY <1>1
  <2> QED BY <2>1 DEF UnitLaid
<1> DEFINE codes == {j \in s..Len(file) : FindStartCode(j)}
           stop == IF codes = {} THEN Len(file) + 1 ELSE CHOOSE j \in codes : \A k \in codes : j <= k
<1>3. UnitEnd(s) = CHOOSE e \in s..stop : (\A k \in e..(stop - 1) : file[k] = 0) /\ (e = s \/ file[e - 1] # 0)
  BY DEF UnitEnd
<1>4. CASE \A k \in t..Len(file) : file[k] = 0
  <2>1. codes = {}
    <3> SUFFICES ASSUME NEW j \in codes PROVE FALSE
      OBVIOUS
    <3>1. j \in Nat /\ s <= j /\ FindStartCode(j)
      BY <1>1
    <3>2. j + 2 <= Len(file)
      BY <3>1 DEF FindStartCode
    <3> QED BY <1>1, <1>4, <3>1, <3>2, NoCodeWithin
  <2>2. stop = Len(file) + 1
    <3> HIDE DEF codes
    <3> QED BY <2>1, Zenon
  <2>3. stop \in Nat /\ t <= stop /\ stop - 1 = Len(file)
    <3> HIDE DEF stop, codes
    <3> QED BY <1>1, <2>2
  <2> HIDE DEF stop
  <2> QED BY <1>1, <1>2, <1>3, <1>4, <2>3, EndIs, SMTT(30)
<1>5. CASE \E s2, t2, x2 : UnitLaid(file, t, s2, t2, x2)
  <2>1. PICK s2, t2, x2 : UnitLaid(file, t, s2, t2, x2)
    BY <1>5
  <2>2. s2 \in Nat /\ t2 \in Nat /\ t + 4 <= s2 /\ s2 < t2 /\ t2 <= Len(file) + 1
    BY <2>1, UnitFields
  <2>3. \A k \in t..s2 - 3 : file[k] = 0
    BY <2>1 DEF UnitLaid
  <2> DEFINE c == s2 - 4
  <2>4. c \in Nat /\ c \in t..Len(file) /\ c \in s..Len(file) /\ t <= c
    BY <1>1, <2>2
  <2>5. FindStartCode(c)
    BY <2>1, <2>4, CodeFound
  <2>6. c \in codes
    BY <2>4, <2>5
  <2>7. ASSUME NEW j \in codes PROVE c <= j
    <3>1. j \in Nat /\ s <= j /\ FindStartCode(j)
      BY <1>1
    <3> SUFFICES ASSUME ~(c <= j) PROVE FALSE
      OBVIOUS
    <3>2. j + 2 <= s2 - 3 /\ s2 - 3 \in Nat
      BY <1>1, <2>2, <3>1
    <3> QED BY <2>3, <3>1, <3>2, NoCodeWithin
  <2>8. \A j \in codes : j \in Nat
    BY <1>1
  <2> HIDE DEF c
  <2>9. \A j \in codes : (\A k \in codes : j <= k) => j = c
    BY <2>4, <2>6, <2>7, <2>8
  <2>10. stop = c
    <3> HIDE DEF codes
    <3>1. (CHOOSE j \in codes : \A k \in codes : j <= k) = c
      BY <2>6, <2>7, <2>9
    <3>2. codes # {}
      BY <2>6
    <3> QED BY <3>1, <3>2
  <2>11. \A k \in t..c - 1 : k \in t..s2 - 3
    BY <1>1, <2>2, <2>4 DEF c
  <2> HIDE DEF stop
  <2>12. stop \in Nat /\ t <= stop /\ \A k \in t..stop - 1 : file[k] = 0
    BY <2>3, <2>4, <2>10, <2>11
  <2> QED BY <1>1, <1>2, <1>3, <2>12, EndIs
<1> QED BY <1>4, <1>5

-----------------------------------------------------------------------------
LEMMA StreamInitInv == StreamInit => StreamInv
<1> SUFFICES ASSUME StreamInit PROVE StreamInv
  OBVIOUS
<1>1. file = <<>> /\ sent = <<>> /\ pos = 0 /\ buf = <<>> /\ got = <<>>
  BY DEF StreamInit
<1>2. Len(file) = 0 /\ Len(sent) = 0 /\ Len(got) = 0
  BY <1>1
<1>3. file \in Seq(Octets) /\ buf \in Seq(Octets) /\ sent \in Seq(Units) /\ got \in Seq(Seq(Octets))
  BY <1>1
<1> DEFINE T == [u \in 0..0 |-> 1]
<1>4. T[0] = 1
  OBVIOUS
<1> HIDE DEF T
<1>5. Laid(<<>>, T, <<>>)
  BY <1>2, <1>4 DEF Laid
<1>6. pos = T[Len(got)] - 1
  BY <1>1, <1>2, <1>4
<1>7. 0 \in Nat
  OBVIOUS
<1> QED BY <1>1, <1>2, <1>3, <1>5, <1>6, <1>7 DEF StreamInv

\* The file after one unit more.
Written(f, sp, x, z) == f \o WriteAnnexbNALU(sp, x) \o [i \in 1..z |-> 0]

CanGrow(f, p, sp, x, z) ==
    /\ f \in Seq(Octets) /\ x \in Seq(Octets) /\ Len(x) >= 1 /\ sp \in {3, 4} /\ z \in Nat /\ HEADER \in Octets
    /\ p \in Nat /\ p >= 1 /\ p <= Len(f) + 1 /\ \A k \in p..Len(f) : f[k] = 0

LEMMA FileGrows ==
    ASSUME NEW f, NEW p, NEW sp, NEW x, NEW z, CanGrow(f, p, sp, x, z)
    PROVE  LET g == Written(f, sp, x, z)
           IN  /\ g \in Seq(Octets) /\ Len(f) <= Len(g) /\ \A k \in 1..Len(f) : g[k] = f[k]
               /\ \E s, t : /\ UnitLaid(g, p, s, t, x) /\ \A k \in t..Len(g) : g[k] = 0
<1> USE DEF CanGrow
<1> DEFINE g == Written(f, sp, x, z)
           lead == IF sp > 3 THEN <<0>> ELSE <<>>
           code == <<0, 0, 1, HEADER>>
           c == Len(lead)
           F == Len(f)
           zs == [i \in 1..z |-> 0]
<1>1. lead \in Seq(Octets) /\ c \in {0, 1} /\ \A i \in 1..c : lead[i] = 0
  <2>1. CASE sp = 3
    BY <2>1
  <2>2. CASE sp = 4
    <3>1. lead = <<0>>
      BY <2>2
    <3>2. 0 \in Octets
      BY DEF Octets
    <3>3. <<0>> \in Seq(Octets) /\ Len(<<0>>) = 1 /\ \A i \in 1..1 : <<0>>[i] = 0
      BY <3>2
    <3> HIDE DEF lead
    <3> QED BY <3>1, <3>3
  <2> QED BY <2>1, <2>2
<1>2. code \in Seq(Octets) /\ Len(code) = 4 /\ code[1] = 0 /\ code[2] = 0 /\ code[3] = 1
  BY DEF Octets
<1>3. zs \in Seq(Octets) /\ Len(zs) = z /\ \A i \in 1..z : zs[i] = 0
  BY DEF Octets
<1>4. g = f \o ((lead \o code) \o x) \o zs
  BY DEF WriteAnnexbNALU, Written
<1>5. F \in Nat /\ f \in Seq(Octets) /\ Len(x) \in Nat
  OBVIOUS
<1> HIDE DEF lead, code, zs, F, g
<1> DEFINE h == lead \o code
           w == h \o x
           fw == f \o w
<1>6. /\ h \in Seq(Octets) /\ Len(h) = c + 4
      /\ \A i \in 1..c : h[i] = 0
      /\ h[c + 1] = 0 /\ h[c + 2] = 0 /\ h[c + 3] = 1
  <2>1. /\ h \in Seq(Octets) /\ Len(h) = Len(lead) + Len(code)
        /\ \A i \in 1..Len(lead) : h[i] = lead[i]
        /\ \A i \in 1..Len(code) : h[Len(lead) + i] = code[i]
    BY <1>1, <1>2, ConcatOctets, ZenonT(60)
  <2>2. 1 \in 1..Len(code) /\ 2 \in 1..Len(code) /\ 3 \in 1..Len(code)
    BY <1>2
  <2> HIDE DEF h
  <2> QED BY <1>1, <1>2, <2>1, <2>2
<1> HIDE DEF h, c
<1>7. /\ w \in Seq(Octets) /\ Len(w) = c + 4 + Len(x)
      /\ \A i \in 1..c + 4 : w[i] = h[i]
      /\ \A i \in 1..Len(x) : w[c + 4 + i] = x[i]
  <2>1. /\ w \in Seq(Octets) /\ Len(w) = Len(h) + Len(x)
        /\ \A i \in 1..Len(h) : w[i] = h[i]
        /\ \A i \in 1..Len(x) : w[Len(h) + i] = x[i]
    BY <1>6, ConcatOctets, ZenonT(60)
  <2> HIDE DEF w
  <2> QED BY <1>6, <2>1
<1> HIDE DEF w
<1>8. /\ fw \in Seq(Octets) /\ Len(fw) = F + Len(w)
      /\ \A i \in 1..F : fw[i] = f[i]
      /\ \A i \in 1..Len(w) : fw[F + i] = w[i]
  BY <1>5, <1>7, ConcatOctets DEF F
<1>9. g = fw \o zs
  BY <1>4 DEF h, w
<1> HIDE DEF fw
<1>10. /\ g \in Seq(Octets) /\ Len(g) = Len(fw) + z
       /\ \A i \in 1..Len(fw) : g[i] = fw[i]
       /\ \A i \in 1..z : g[Len(fw) + i] = zs[i]
  <2>1. /\ fw \o zs \in Seq(Octets) /\ Len(fw \o zs) = Len(fw) + Len(zs)
        /\ \A i \in 1..Len(fw) : (fw \o zs)[i] = fw[i]
        /\ \A i \in 1..Len(zs) : (fw \o zs)[Len(fw) + i] = zs[i]
    BY <1>3, <1>8, ConcatOctets, ZenonT(60)
  <2> QED BY <1>3, <1>9, <2>1
<1>11. PICK n \in Nat : n = Len(x) /\ n >= 1
  BY <1>5
<1>12. PICK dec \in {0, 1} : dec = c
  BY <1>1 DEF c
<1> DEFINE m == F + (dec + 4 + n)
<1>13. Len(fw) = m /\ m \in Nat /\ Len(w) = dec + 4 + n /\ Len(g) = m + z
  BY <1>5, <1>7, <1>8, <1>10, <1>11, <1>12
<1>14. \A k \in 1..F : g[k] = f[k]
  <2>1. \A k \in 1..F : k \in 1..m
    BY <1>5, <1>12
  <2> QED BY <1>8, <1>10, <1>13, <2>1
<1>15. \A i \in 1..dec + 4 + n : g[F + i] = w[i]
  <2>1. \A i \in 1..dec + 4 + n : F + i \in 1..m /\ i \in 1..Len(w)
    BY <1>5, <1>12, <1>13
  <2> QED BY <1>8, <1>10, <1>13, <2>1
<1>16. \A k \in m + 1..Len(g) : g[k] = 0
  <2> SUFFICES ASSUME NEW k \in m + 1..Len(g) PROVE g[k] = 0
    OBVIOUS
  <2>1. PICK i \in 1..z : k = m + i
    <3>1. k - m \in 1..z /\ k = m + (k - m)
      BY <1>13
    <3> QED BY <3>1
  <2> HIDE DEF m
  <2> QED BY <1>3, <1>10, <1>13, <2>1
<1> DEFINE s == F + (dec + 5)
           t == m + 1
<1>17. s \in Nat /\ t \in Nat /\ p + 4 <= s /\ t = s + n /\ t <= Len(g) + 1 /\ F <= Len(g)
  BY <1>5, <1>12, <1>13 DEF F
<1>18. \A k \in p..s - 3 : g[k] = 0
  <2> SUFFICES ASSUME NEW k \in p..s - 3 PROVE g[k] = 0
    OBVIOUS
  <2>1. CASE k <= F
    <3>1. k \in p..F /\ k \in 1..F
      BY <1>5, <2>1
    <3> QED BY <1>14, <3>1 DEF F
  <2>2. CASE ~(k <= F)
    <3>1. PICK i \in 1..dec + 2 : k = F + i
      <4>1. k - F \in 1..dec + 2 /\ k = F + (k - F)
        BY <1>5, <1>12, <2>2
      <4> QED BY <4>1
    <3>2. i \in 1..dec + 4 + n /\ i \in 1..dec + 4
      BY <1>11, <1>12
    <3>3. i \in 1..dec \/ i = dec + 1 \/ i = dec + 2
      BY <1>12
    <3>4. h[i] = 0
      BY <1>6, <1>12, <3>3
    <3>5. w[i] = h[i]
      BY <1>7, <1>12, <3>2
    <3> QED BY <1>15, <3>1, <3>2, <3>4, <3>5
  <2> QED BY <2>1, <2>2
<1>19. g[s - 2] = 1
  <2>1. s - 2 = F + (dec + 3) /\ dec + 3 \in 1..dec + 4 + n /\ dec + 3 \in 1..dec + 4
    BY <1>5, <1>11, <1>12
  <2>2. w[dec + 3] = 1
    BY <1>6, <1>7, <1>12, <2>1
  <2> QED BY <1>15, <2>1, <2>2
<1>20. \A i \in 1..n : g[s + i - 1] = x[i]
  <2> SUFFICES ASSUME NEW i \in 1..n PROVE g[s + i - 1] = x[i]
    OBVIOUS
  <2>1. s + i - 1 = F + (dec + 4 + i) /\ dec + 4 + i \in 1..dec + 4 + n
    BY <1>5, <1>12
  <2>2. w[dec + 4 + i] = x[i]
    BY <1>7, <1>11, <1>12
  <2> QED BY <1>15, <2>1, <2>2
<1> HIDE DEF s, t, m
<1>21. UnitLaid(g, p, s, t, x)
  BY <1>5, <1>11, <1>17, <1>18, <1>19, <1>20 DEF UnitLaid
<1>22. \A k \in t..Len(g) : g[k] = 0
  BY <1>16 DEF t
<1> QED BY <1>10, <1>14, <1>17, <1>21, <1>22 DEF F, g

LEMMA StillLaid ==
    ASSUME NEW f \in Seq(Octets), NEW g \in Seq(Octets), Len(f) <= Len(g), \A k \in 1..Len(f) : g[k] = f[k],
           NEW p, NEW s, NEW t, NEW x, UnitLaid(f, p, s, t, x)
    PROVE  UnitLaid(g, p, s, t, x)
<1>1. /\ p \in Nat /\ s \in Nat /\ t \in Nat /\ p >= 1 /\ p + 4 <= s /\ s < t /\ t <= Len(f) + 1
      /\ Len(x) \in Nat /\ Len(x) >= 1 /\ t = s + Len(x) /\ Len(f) \in Nat
  BY UnitFields
<1>2. /\ x \in Seq(Octets)
      /\ \A k \in p..s - 3 : f[k] = 0
      /\ f[s - 2] = 1
      /\ \A i \in 1..Len(x) : f[s + i - 1] = x[i]
  BY DEF UnitLaid
<1>3. /\ \A k \in p..s - 3 : k \in 1..Len(f)
      /\ s - 2 \in 1..Len(f)
      /\ \A i \in 1..Len(x) : s + i - 1 \in 1..Len(f)
  <2>1. PICK F \in Nat, n \in Nat : F = Len(f) /\ n = Len(x)
    BY <1>1
  <2> QED BY <1>1, <2>1, SMTT(30)
<1>4. t <= Len(g) + 1
  <2>1. Len(g) \in Nat
    OBVIOUS
  <2> QED BY <1>1, <2>1
<1>5. /\ \A k \in p..s - 3 : g[k] = 0
      /\ g[s - 2] = 1
      /\ \A i \in 1..Len(x) : g[s + i - 1] = x[i]
  BY <1>2, <1>3
<1> QED BY <1>1, <1>2, <1>4, <1>5 DEF UnitLaid

LEMMA WriteStep ==
    ASSUME StreamInv, Write
    PROVE  StreamInv'
<1> USE StreamAssumption
<1>1. PICK n \in 0..(MaxLen - 1) : \E sodb \in [1..n -> Bytes], last \in LastBytes, least \in Stuffing :
          LET rbsp == SODBtoRBSP(sodb, last)
              ebsp == RBSPtoEBSP(rbsp, least)
          IN  /\ n < Room
              /\ sent' = Append(sent, [rbsp |-> rbsp, stuffed |-> least > Len(RBSPtoEBSP(rbsp, 0))])
              /\ \E startcodeprefix_len \in {3, 4}, z \in 0..MaxZeros :
                   file' = file \o WriteAnnexbNALU(startcodeprefix_len, ebsp) \o [i \in 1..z |-> 0]
              /\ UNCHANGED <<pos, buf, got>>
  BY DEF Write
<1>2. PICK sodb \in [1..n -> Bytes], last \in LastBytes, least \in Stuffing :
          LET rbsp == SODBtoRBSP(sodb, last)
              ebsp == RBSPtoEBSP(rbsp, least)
          IN  /\ n < Room
              /\ sent' = Append(sent, [rbsp |-> rbsp, stuffed |-> least > Len(RBSPtoEBSP(rbsp, 0))])
              /\ \E startcodeprefix_len \in {3, 4}, z \in 0..MaxZeros :
                   file' = file \o WriteAnnexbNALU(startcodeprefix_len, ebsp) \o [i \in 1..z |-> 0]
              /\ UNCHANGED <<pos, buf, got>>
  BY <1>1
<1> DEFINE rbsp == Append(sodb, last)
           x == RBSPtoEBSP(rbsp, least)
           u == [rbsp |-> rbsp, stuffed |-> least > Len(RBSPtoEBSP(rbsp, 0))]
<1>3. PICK sp \in {3, 4}, z \in 0..MaxZeros : file' = file \o WriteAnnexbNALU(sp, x) \o [i \in 1..z |-> 0]
  BY <1>2 DEF SODBtoRBSP
<1>4. sent' = Append(sent, u) /\ pos' = pos /\ buf' = buf /\ got' = got /\ pos = 0
  BY <1>2 DEF SODBtoRBSP, Write
<1>5. rbsp \in Seq(Octets) /\ Len(rbsp) >= 1 /\ rbsp[Len(rbsp)] # 0
  <2>1. sodb \in Seq(Octets) /\ Len(sodb) = n /\ n \in Nat
    <3>1. sodb \in [1..n -> Octets] /\ n \in Nat
      OBVIOUS
    <3> QED BY <3>1
  <2>2. last \in Octets /\ last # 0
    OBVIOUS
  <2>3. /\ Append(sodb, last) \in Seq(Octets) /\ Len(Append(sodb, last)) = Len(sodb) + 1
        /\ Append(sodb, last)[Len(sodb) + 1] = last
    BY <2>1, <2>2, AppendIs
  <2>4. n + 1 >= 1
    BY <2>1
  <2> QED BY <2>1, <2>2, <2>3, <2>4
<1>6. u.rbsp = rbsp /\ u.stuffed = (least > Len(RBSPtoEBSP(rbsp, 0))) /\ u.stuffed \in BOOLEAN
  OBVIOUS
<1>7. least \in Nat /\ z \in Nat /\ HEADER \in Octets
  OBVIOUS
<1>8. u \in Units
  BY <1>5 DEF Units
<1> HIDE DEF rbsp
<1>9. Carries(x, u)
  <2> HIDE DEF u
  <2> QED BY <1>5, <1>6, <1>7, UnitCarries
<1> HIDE DEF x, u
<1>10. x \in Seq(Octets) /\ Len(x) >= 1
  BY <1>9 DEF Carries
<1>11. /\ file \in Seq(Octets) /\ buf \in Seq(Octets) /\ pos \in Nat
       /\ sent \in Seq(Units) /\ got \in Seq(Seq(Octets)) /\ Len(got) <= Len(sent)
       /\ \A k \in 1..Len(sent) : Len(sent[k].rbsp) >= 1 /\ sent[k].rbsp[Len(sent[k].rbsp)] # 0
       /\ got = <<>>
  BY <1>4 DEF StreamInv
<1>0. PICK m \in Nat : m = Len(sent)
  BY <1>11
<1>12. PICK S, T, X : Laid(S, T, X)
  BY DEF StreamInv
<1>13. T[m] \in Nat /\ 1 <= T[m] /\ T[m] <= Len(file) + 1 /\ \A k \in T[m]..Len(file) : file[k] = 0
  BY <1>0, <1>12 DEF Laid
<1>14. /\ file' \in Seq(Octets) /\ Len(file) <= Len(file') /\ \A k \in 1..Len(file) : file'[k] = file[k]
       /\ \E s, t : /\ UnitLaid(file', T[m], s, t, x) /\ \A k \in t..Len(file') : file'[k] = 0
  <2> DEFINE g == Written(file, sp, x, z)
  <2>1. /\ g \in Seq(Octets) /\ Len(file) <= Len(g) /\ \A k \in 1..Len(file) : g[k] = file[k]
        /\ \E s, t : /\ UnitLaid(g, T[m], s, t, x) /\ \A k \in t..Len(g) : g[k] = 0
    <3> DEFINE p == T[m]
    <3>1. CanGrow(file, p, sp, x, z)
      BY <1>7, <1>10, <1>11, <1>13 DEF CanGrow
    <3> HIDE DEF p, g
    <3>2. /\ g \in Seq(Octets) /\ Len(file) <= Len(g) /\ \A k \in 1..Len(file) : g[k] = file[k]
          /\ \E s, t : /\ UnitLaid(g, p, s, t, x) /\ \A k \in t..Len(g) : g[k] = 0
      BY <3>1, FileGrows DEF g
    <3> QED BY <3>2 DEF p
  <2>2. file' = g
    BY <1>3 DEF Written
  <2> HIDE DEF g
  <2> QED BY <2>1, <2>2
<1>15. PICK s, t : UnitLaid(file', T[m], s, t, x) /\ \A k \in t..Len(file') : file'[k] = 0
  BY <1>14
<1>16. /\ sent' \in Seq(Units) /\ Len(sent') = m + 1
       /\ \A k \in 1..m : sent'[k] = sent[k]
       /\ sent'[m + 1] = u
  BY <1>0, <1>4, <1>8, <1>11, AppendIs
<1> DEFINE S2 == [k \in 1..m + 1 |-> IF k <= m THEN S[k] ELSE s]
           T2 == [k \in 0..m + 1 |-> IF k <= m THEN T[k] ELSE t]
           X2 == [k \in 1..m + 1 |-> IF k <= m THEN X[k] ELSE x]
<1>17. /\ \A k \in 1..m : S2[k] = S[k] /\ X2[k] = X[k]
       /\ \A k \in 0..m : T2[k] = T[k]
       /\ S2[m + 1] = s /\ T2[m + 1] = t /\ X2[m + 1] = x
  <2>1. \A k \in 1..m : k \in 1..m + 1 /\ k <= m
    OBVIOUS
  <2>2. \A k \in 0..m : k \in 0..m + 1 /\ k <= m
    OBVIOUS
  <2>3. m + 1 \in 1..m + 1 /\ m + 1 \in 0..m + 1 /\ ~(m + 1 <= m)
    OBVIOUS
  <2> QED BY <2>1, <2>2, <2>3
<1> HIDE DEF S2, T2, X2
<1>24. PICK S3, T3, X3 : /\ \A k \in 1..m : S3[k] = S[k] /\ X3[k] = X[k]
                         /\ \A k \in 0..m : T3[k] = T[k]
                         /\ S3[m + 1] = s /\ T3[m + 1] = t /\ X3[m + 1] = x
  BY <1>17
<1>18. Laid(S3, T3, X3)'
  <2>1. T3[0] = 1
    BY <1>0, <1>12, <1>24 DEF Laid
  <2>2. ASSUME NEW k \in 1..m + 1
        PROVE  UnitLaid(file', T3[k - 1], S3[k], T3[k], X3[k]) /\ Carries(X3[k], sent'[k])
    <3>1. CASE k \in 1..m
      <4>1. UnitLaid(file, T[k - 1], S[k], T[k], X[k]) /\ Carries(X[k], sent[k])
        BY <1>0, <1>12, <3>1 DEF Laid
      <4>2. UnitLaid(file', T[k - 1], S[k], T[k], X[k])
        BY <1>11, <1>14, <4>1, StillLaid
      <4>3. k \in 0..m /\ k - 1 \in 0..m
        BY <3>1
      <4> QED BY <1>16, <1>24, <3>1, <4>1, <4>2, <4>3
    <3>2. CASE k \notin 1..m
      <4>1. k = m + 1 /\ k - 1 = m /\ m \in 0..m
        BY <3>2
      <4> QED BY <1>9, <1>15, <1>16, <1>24, <4>1
    <3> QED BY <3>1, <3>2
  <2>3. t \in Nat /\ 1 <= t /\ t <= Len(file') + 1
    BY <1>14, <1>15, UnitFields, SMTT(30)
  <2> QED BY <1>15, <1>16, <1>24, <2>1, <2>2, <2>3 DEF Laid
<1>19. Len(got') = 0 /\ T3[0] = 1 /\ pos' = T3[0] - 1
  <2>1. T3[0] = 1
    BY <1>0, <1>12, <1>24 DEF Laid
  <2> QED BY <1>4, <1>11, <2>1
<1>20. \E SS, TT, XX : /\ Laid(SS, TT, XX)'
                       /\ pos' = TT[Len(got')] - 1 \/ (pos' = Len(file') /\ Len(got') = Len(sent'))
  BY <1>18, <1>19
<1>21. \A k \in 1..Len(sent') : Len(sent'[k].rbsp) >= 1 /\ sent'[k].rbsp[Len(sent'[k].rbsp)] # 0
  <2>1. \A k \in 1..m + 1 : k \in 1..m \/ k = m + 1
    OBVIOUS
  <2>2. Len(u.rbsp) >= 1 /\ u.rbsp[Len(u.rbsp)] # 0
    BY <1>5, <1>6
  <2> QED BY <1>0, <1>11, <1>16, <2>1, <2>2
<1>22. \A k \in 1..Len(got') : Delivered(got'[k], sent'[k])
  BY <1>19
<1>23. Len(got') <= Len(sent')
  BY <1>16, <1>19
<1> QED BY <1>4, <1>11, <1>14, <1>16, <1>20, <1>21, <1>22, <1>23 DEF StreamInv

\* Where the layout does not change, the decoder takes the next unit, or what is left of the file.
LEMMA ReadStep ==
    ASSUME StreamInv, GetAnnexbNALU
    PROVE  StreamInv'
<1> DEFINE codes == {i \in (pos + 1)..Len(file) : FindStartCode(i) /\ \A k \in (pos + 1)..(i - 1) : file[k] = 0}
           first == (CHOOSE i \in codes : TRUE) + 4
           unit == SubSeq(file, first, UnitEnd(first) - 1)
           rbsp == EBSPtoRBSP(Over(unit), Len(unit))
<1>1. /\ pos < Len(file)
      /\ pos' = IF codes = {} THEN Len(file) ELSE UnitEnd(first) - 1
      /\ buf' = IF codes = {} THEN buf ELSE rbsp \o SubSeq(Over(unit), Len(rbsp) + 1, Len(Over(unit)))
      /\ got' = IF codes = {} THEN got ELSE Append(got, SubSeq(rbsp, 1, RBSPtoSODB(rbsp)))
      /\ file' = file /\ sent' = sent
  BY DEF GetAnnexbNALU
<1>2. /\ file \in Seq(Octets) /\ buf \in Seq(Octets) /\ pos \in Nat
      /\ sent \in Seq(Units) /\ got \in Seq(Seq(Octets)) /\ Len(got) <= Len(sent)
      /\ \A u \in 1..Len(sent) : Len(sent[u].rbsp) >= 1 /\ sent[u].rbsp[Len(sent[u].rbsp)] # 0
      /\ \A u \in 1..Len(got) : Delivered(got[u], sent[u])
  BY DEF StreamInv
<1>3. PICK S, T, X : /\ Laid(S, T, X)
                     /\ pos = T[Len(got)] - 1 \/ (pos = Len(file) /\ Len(got) = Len(sent))
  BY DEF StreamInv
<1>4. PICK n \in Nat, g \in Nat : n = Len(sent) /\ g = Len(got) /\ g <= n
  <2>1. Len(sent) \in Nat /\ Len(got) \in Nat
    BY <1>2
  <2> QED BY <1>2, <2>1
<1>5. PICK F \in Nat : F = Len(file)
  <2>1. Len(file) \in Nat
    BY <1>2
  <2> QED BY <2>1
<1>6. /\ \A u \in 1..n : UnitLaid(file, T[u - 1], S[u], T[u], X[u]) /\ Carries(X[u], sent[u])
      /\ T[n] \in Nat /\ 1 <= T[n] /\ T[n] <= F + 1
      /\ \A k \in T[n]..F : file[k] = 0
  BY <1>3, <1>4, <1>5 DEF Laid
<1>7. pos = T[g] - 1
  <2> HIDE DEF codes, rbsp, unit, first
  <2>1. pos < F /\ (pos = T[g] - 1 \/ pos = F)
    BY <1>1, <1>3, <1>4, <1>5
  <2> QED BY <1>2, <1>5, <2>1
<1>8. Laid(S, T, X)'
  BY <1>1, <1>3 DEF Laid
<1> HIDE DEF rbsp, unit, first
<1>9. CASE g = n
  <2>1. codes = {}
    <3> SUFFICES ASSUME NEW i \in codes PROVE FALSE
      OBVIOUS
    <3>1. i \in Nat /\ T[n] <= i /\ FindStartCode(i)
      BY <1>2, <1>6, <1>7, <1>9
    <3>2. i + 2 \in T[n]..F /\ file[i + 2] = 1
      BY <1>5, <1>6, <3>1 DEF FindStartCode
    <3> QED BY <1>6, <3>2
  <2> HIDE DEF codes
  <2>2. pos' = F /\ buf' = buf /\ got' = got
    BY <1>1, <1>5, <2>1
  <2>3. pos' # 0 /\ pos' \in Nat
    BY <1>1, <1>2, <1>5, <2>2
  <2>4. pos' = Len(file') /\ Len(got') = Len(sent')
    BY <1>1, <1>4, <1>5, <1>9, <2>2
  <2> QED BY <1>1, <1>2, <1>8, <2>2, <2>3, <2>4 DEF StreamInv
<1>10. CASE g # n
  <2>1. g + 1 \in 1..n /\ g + 1 - 1 = g
    BY <1>4, <1>10
  <2> DEFINE s == S[g + 1]
             t == T[g + 1]
             x == X[g + 1]
             u == sent[g + 1]
  <2>2. UnitLaid(file, pos + 1, s, t, x) /\ Carries(x, u)
    <3>1. T[g] = pos + 1
      <4>1. T[g] \in Nat
        <5>1. UnitLaid(file, T[g], S[g + 1], T[g + 1], X[g + 1])
          BY <1>6, <2>1
        <5> QED BY <5>1 DEF UnitLaid
      <4> QED BY <1>2, <1>7, <4>1
    <3> QED BY <1>6, <2>1, <3>1
  <2>3. (\A k \in t..Len(file) : file[k] = 0) \/ (\E s2, t2, x2 : UnitLaid(file, t, s2, t2, x2))
    <3>1. CASE g + 1 = n
      BY <1>5, <1>6, <3>1
    <3>2. CASE g + 1 # n
      <4>1. g + 2 \in 1..n /\ g + 2 - 1 = g + 1
        BY <1>4, <2>1, <3>2
      <4>2. UnitLaid(file, T[g + 1], S[g + 2], T[g + 2], X[g + 2])
        BY <1>6, <4>1
      <4> QED BY <4>2
    <3> QED BY <3>1, <3>2
  <2>4. u \in Units /\ Len(u.rbsp) >= 1 /\ u.rbsp[Len(u.rbsp)] # 0
    BY <1>2, <1>4, <2>1
  <2> HIDE DEF s, t, x, u
  <2>5. /\ s \in Nat /\ t \in Nat /\ pos + 1 + 4 <= s /\ s < t /\ t <= Len(file) + 1
        /\ Len(x) \in Nat /\ t = s + Len(x)
    BY <1>2, <2>2, UnitFields
  <2>6. x \in Seq(Octets) /\ NoStartCode(x) /\ x[Len(x)] # 0
    BY <2>2 DEF Carries
  <2>7. codes # {} /\ first = s
    <3>1. s - 4 \in (pos + 1)..Len(file)
      BY <1>2, <1>5, <2>5
    <3>2. \A i \in codes : i = s - 4
      BY <1>2, <2>2, CodeFound
    <3>3. s - 4 \in codes
      BY <1>2, <2>2, <3>1, CodeFound
    <3> HIDE DEF codes
    <3>4. (CHOOSE i \in codes : TRUE) = s - 4
      BY <3>2, <3>3
    <3>5. s - 4 + 4 = s
      BY <2>5
    <3> QED BY <3>3, <3>4, <3>5 DEF first
  <2> HIDE DEF codes
  <2>8. UnitEnd(first) = t
    BY <1>2, <2>2, <2>3, <2>6, <2>7, UnitEndIs
  <2>9. /\ unit \in Seq(Octets) /\ Len(unit) = Len(x) /\ \A i \in 1..Len(x) : unit[i] = x[i]
    <3>1. unit = SubSeq(file, s, t - 1)
      BY <2>7, <2>8 DEF unit
    <3>2. t - 1 \in Nat /\ s >= 1 /\ t - 1 <= Len(file) /\ s <= t - 1 /\ t - 1 - s + 1 = Len(x)
      BY <1>2, <1>5, <2>5
    <3>3. /\ SubSeq(file, s, t - 1) \in Seq(Octets)
          /\ Len(SubSeq(file, s, t - 1)) = (IF s <= t - 1 THEN t - 1 - s + 1 ELSE 0)
          /\ \A i \in 1..Len(SubSeq(file, s, t - 1)) : SubSeq(file, s, t - 1)[i] = file[s + i - 1]
      BY <1>2, <2>5, <3>2, SubSeqIs
    <3>4. \A i \in 1..Len(x) : file[s + i - 1] = x[i]
      BY <2>2 DEF UnitLaid
    <3> HIDE DEF unit
    <3> QED BY <3>1, <3>2, <3>3, <3>4
  <2> DEFINE b == Over(unit)
  <2>10. b \in Seq(Octets) /\ Begins(b, x)
    <3> DEFINE r == SubSeq(buf, Len(unit) + 1, Len(buf))
    <3>1. r \in Seq(Octets)
      <4>1. Len(unit) + 1 \in Nat /\ Len(unit) + 1 >= 1 /\ Len(buf) \in Nat /\ Len(buf) <= Len(buf)
        BY <1>2, <2>9
      <4> QED BY <1>2, <4>1, SubSeqIs
    <3>2. b = unit \o r
      BY DEF Over
    <3> HIDE DEF r, b
    <3>3. /\ b \in Seq(Octets) /\ Len(b) = Len(unit) + Len(r) /\ Len(unit) \in Nat /\ Len(r) \in Nat
          /\ \A i \in 1..Len(unit) : b[i] = unit[i]
      BY <2>9, <3>1, <3>2, ConcatOctets
    <3>4. \A i \in 1..Len(x) : i <= Len(b) /\ b[i] = x[i]
      BY <2>9, <3>3
    <3> QED BY <3>3, <3>4 DEF Begins, ByteAt
  <2>11. rbsp = EBSPtoRBSP(b, Len(x))
    BY <2>9 DEF rbsp
  <2> HIDE DEF b
  <2>12. Gives(rbsp, u)
    BY <2>2, <2>10, <2>11 DEF Carries
  <2>13. rbsp \in Seq(Octets)
    BY <2>12 DEF Gives
  <2> DEFINE p == SubSeq(rbsp, 1, RBSPtoSODB(rbsp))
  <2>14. p \in Seq(Octets) /\ Delivered(p, u)
    BY <2>4, <2>12, PayloadDelivered DEF Units
  <2>15. pos' = t - 1 /\ got' = Append(got, p) /\ buf' = rbsp \o SubSeq(b, Len(rbsp) + 1, Len(b))
    BY <1>1, <2>7, <2>8 DEF b
  <2>16. buf' \in Seq(Octets)
    <3> DEFINE r == SubSeq(b, Len(rbsp) + 1, Len(b))
    <3>1. Len(rbsp) + 1 \in Nat /\ Len(rbsp) + 1 >= 1 /\ Len(b) \in Nat /\ Len(b) <= Len(b)
      BY <2>10, <2>13
    <3>2. r \in Seq(Octets)
      BY <2>10, <3>1, SubSeqIs
    <3> HIDE DEF r
    <3>3. rbsp \o r \in Seq(Octets)
      BY <2>13, <3>2, ConcatOctets
    <3> QED BY <2>15, <3>3 DEF r
  <2> HIDE DEF p
  <2>17. /\ got' \in Seq(Seq(Octets)) /\ Len(got') = g + 1
         /\ \A k \in 1..g : got'[k] = got[k]
         /\ got'[g + 1] = p
    BY <1>2, <1>4, <2>14, <2>15, AppendIs
  <2>18. \A k \in 1..Len(got') : Delivered(got'[k], sent'[k])
    <3>1. \A k \in 1..g + 1 : k \in 1..g \/ k = g + 1
      BY <1>4
    <3>2. Delivered(got'[g + 1], sent'[g + 1])
      BY <1>1, <2>14, <2>17 DEF u
    <3> QED BY <1>1, <1>2, <1>4, <2>17, <3>1, <3>2
  <2>19. pos' \in Nat /\ pos' # 0
    BY <1>2, <2>5, <2>15, SMTT(30)
  <2>20. pos' = T[Len(got')] - 1
    BY <2>15, <2>17 DEF t
  <2>21. Len(got') <= Len(sent')
    BY <1>1, <1>4, <2>1, <2>17
  <2> QED BY <1>1, <1>2, <1>8, <2>16, <2>17, <2>18, <2>19, <2>20, <2>21 DEF StreamInv
<1> QED BY <1>9, <1>10

(* The byte stream carries every payload: whatever bytes it has, however   *)
(* it is stuffed and whatever zeros stand between the units, the decoder   *)
(* gets it from the file as the encoder wrote it, the stuffing apart.      *)
THEOREM PayloadsArrive == StreamSpec => []PayloadsSurvive
<1>1. StreamInv => PayloadsSurvive
  <2> SUFFICES ASSUME StreamInv PROVE PayloadsSurvive
    OBVIOUS
  <2>1. \A u \in 1..Len(got) : Delivered(got[u], sent[u])
    BY DEF StreamInv
  <2>2. file \in Seq(Octets) /\ sent \in Seq(Units) /\ got \in Seq(Seq(Octets)) /\ Len(got) <= Len(sent)
    BY DEF StreamInv
  <2>3. PICK S, T, X : /\ Laid(S, T, X)
                       /\ pos = T[Len(got)] - 1 \/ (pos = Len(file) /\ Len(got) = Len(sent))
    BY DEF StreamInv
  <2>4. ASSUME pos = Len(file), Len(got) # Len(sent) PROVE FALSE
    <3>1. PICK g \in Nat : g = Len(got) /\ g + 1 \in 1..Len(sent) /\ g + 1 - 1 = g
      BY <2>2, <2>4
    <3>2. UnitLaid(file, T[g], S[g + 1], T[g + 1], X[g + 1])
      BY <2>3, <3>1 DEF Laid
    <3>3. T[g] \in Nat /\ T[g] + 4 <= S[g + 1] /\ S[g + 1] < T[g + 1] /\ T[g + 1] <= Len(file) + 1
          /\ S[g + 1] \in Nat /\ T[g + 1] \in Nat /\ Len(file) \in Nat
      BY <2>2, <3>2, UnitFields
    <3>4. Len(file) = T[g] - 1
      BY <2>3, <2>4, <3>1
    <3> QED BY <3>3, <3>4
  <2> QED BY <2>1, <2>4 DEF PayloadsSurvive, Delivered
<1>2. StreamInv /\ [StreamNext]_streamVars => StreamInv'
  <2> SUFFICES ASSUME StreamInv, [StreamNext]_streamVars PROVE StreamInv'
    OBVIOUS
  <2>1. CASE Write
    BY <2>1, WriteStep
  <2>2. CASE GetAnnexbNALU
    BY <2>2, ReadStep
  <2>3. CASE UNCHANGED streamVars
    <3>1. file' = file /\ sent' = sent /\ pos' = pos /\ buf' = buf /\ got' = got
      BY <2>3 DEF streamVars
    <3>2. \A S, T, X : Laid(S, T, X) => Laid(S, T, X)'
      BY <3>1 DEF Laid
    <3> QED BY <3>1, <3>2 DEF StreamInv
  <2> QED BY <2>1, <2>2, <2>3 DEF StreamNext
<1> QED BY <1>1, <1>2, StreamInitInv, PTL DEF StreamSpec
=============================================================================
