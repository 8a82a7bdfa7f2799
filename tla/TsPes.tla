-------------------------------- MODULE TsPes --------------------------------
(***************************************************************************)
(* How trunk/parsempegts gathers the frames of one elementary stream from  *)
(* transport packets (CDecoderTs::GatherPes, CheckReadyCallback), against  *)
(* a source that sends numbered packets and a link that drops or repeats   *)
(* some.  A packet carries one unit of payload; the content of the frame   *)
(* buffer is the sequence of the units in it, so that what the callback    *)
(* is given can be compared with what was sent.                            *)
(***************************************************************************)
EXTENDS Integers, Sequences, SequencesExt

CONSTANTS
    MaxUnits,       \* bound: packets in a frame
    FrameIds,       \* bound: frames are numbered modulo this
    MaxFaults,      \* bound: packets dropped or repeated by the link
    NORMAL_FRAME_LEN

ASSUME BoundsAssumption == MaxUnits \in Nat \ {0} /\ FrameIds \in Nat \ {0} /\ MaxFaults \in Nat
ASSUME FrameLenAssumption == NORMAL_FRAME_LEN \in Nat \ {0}

CC == 16    \* the continuity counter has four bits

VARIABLES
    src,        \* the source: its counter, the frame being sent, the units left
    faults,     \* what the link has done so far
    counter,    \* TPidInfo.nContinuityCounter
    es,         \* TEsInfo
    out         \* the frames the callback got from the last packet

pesVars == <<src, faults, counter, es, out>>

Units == [frame : 0..FrameIds - 1, index : 1..MaxUnits, total : 1..MaxUnits]

PesTypeOK ==
    /\ src \in [cc : 0..CC - 1, frame : 0..FrameIds - 1, sent : 0..MaxUnits,
                total : 0..MaxUnits, good : BOOLEAN]
    /\ faults \in 0..MaxFaults
    /\ counter \in -1..CC - 1
    /\ es.nTsPacketLost \in BOOLEAN /\ es.bSeenUnitStartFlag \in BOOLEAN
    /\ es.nFrameSize \in 0..MaxUnits /\ es.nFrameBufLen \in Nat
    /\ es.overwritten \in BOOLEAN /\ es.inStep \in BOOLEAN
    /\ \A i \in DOMAIN es.frame : es.frame[i] \in Units

-----------------------------------------------------------------------------
(* The stream: frames of 1 to MaxUnits packets; the PES header announces   *)
(* the length or 0; a frame may be scrambled, so that no header is seen.   *)
PesInit ==
    /\ src = [cc |-> 0, frame |-> 0, sent |-> 0, total |-> 0, good |-> TRUE]
    /\ faults = 0 /\ counter = -1 /\ out = <<>>
    /\ es = [nTsPacketLost |-> FALSE, frame |-> <<>>, nFrameSize |-> 0,
             nFrameBufLen |-> NORMAL_FRAME_LEN, bSeenUnitStartFlag |-> FALSE,
             overwritten |-> FALSE, inStep |-> FALSE]

CheckReadyCallback_any(e) ==
    [es |-> [e EXCEPT !.nTsPacketLost = FALSE, !.frame = <<>>, !.nFrameSize = 0,
                      !.bSeenUnitStartFlag = FALSE, !.overwritten = FALSE],
     out |-> IF e.frame # <<>> /\ e.bSeenUnitStartFlag
             THEN <<[data |-> e.frame, overwritten |-> e.overwritten, inStep |-> e.inStep]>> ELSE <<>>]

CheckReadyCallback_tail(e) ==
    [es |-> [e EXCEPT !.nTsPacketLost = FALSE, !.frame = <<>>, !.nFrameSize = 0,
                      !.overwritten = FALSE],
     out |-> IF ~e.nTsPacketLost /\ e.frame # <<>> /\ e.bSeenUnitStartFlag
             THEN <<[data |-> e.frame, overwritten |-> e.overwritten, inStep |-> e.inStep]>> ELSE <<>>]

(* A frame is given to the callback when no packet is counted lost and its *)
(* start has been seen; in any case the gathering starts afresh.           *)
CheckReadyCallback(e) ==
    [es |-> [e EXCEPT !.nTsPacketLost = FALSE, !.frame = <<>>, !.nFrameSize = 0,
                      !.bSeenUnitStartFlag = FALSE, !.overwritten = FALSE],
     out |-> IF ~e.nTsPacketLost /\ e.frame # <<>> /\ e.bSeenUnitStartFlag
             THEN <<[data |-> e.frame, overwritten |-> e.overwritten, inStep |-> e.inStep]>> ELSE <<>>]

InSequence(p) == p.payload /\ (p.cc - counter) % CC = 1

Counter_frozen(p) == IF counter = -1 THEN p.cc ELSE counter

(* The counter follows packets in sequence only: after a loss it stays     *)
(* where it was until the stream comes round to it.                        *)
Counter(p) ==
    IF InSequence(p) THEN (counter + 1) % CC ELSE IF counter = -1 THEN p.cc ELSE counter

Counted(e, p) == [e EXCEPT !.nTsPacketLost = @ \/ (~InSequence(p) /\ counter # -1)]

(* A unit start closes the frame before it and opens its own, unless there *)
(* is no PES header: then the packet is left.  inStep remembers whether    *)
(* the counter of the decoder was the packet's by then.                    *)
Opened(e, p) ==
    [e EXCEPT !.nTsPacketLost = FALSE, !.frame = <<>>, !.bSeenUnitStartFlag = TRUE,
              !.nFrameSize = p.size, !.overwritten = FALSE, !.inStep = Counter(p) = p.cc]

(* A buffer too small is replaced by one twice the size needed, and what   *)
(* it held is not copied.                                                  *)
Appended(e, p) ==
    LET length == Len(e.frame) + Len(p.units)
        grows == length > e.nFrameBufLen
    IN  [e EXCEPT !.frame = @ \o p.units,
                  !.nFrameBufLen = IF grows THEN 2 * length ELSE @,
                  !.overwritten = @ \/ (grows /\ e.frame # <<>>)]

GatherPes(p) ==
    LET counted == Counted(es, p)
        closed == IF p.start /\ counted.frame # <<>> THEN CheckReadyCallback(counted)
                  ELSE [es |-> counted, out |-> <<>>]
        added == Appended(IF p.start THEN Opened(closed.es, p) ELSE closed.es, p)
        complete == added.nFrameSize > 0 /\ Len(added.frame) = added.nFrameSize
        ready == IF complete THEN CheckReadyCallback(added) ELSE [es |-> added, out |-> <<>>]
    IN  /\ counter' = Counter(p)
        /\ \/ p.start /\ ~p.good /\ es' = closed.es /\ out' = closed.out
           \/ ~(p.start /\ ~p.good) /\ es' = ready.es /\ out' = closed.out \o ready.out

-----------------------------------------------------------------------------
(* The source and the link.                                                *)
Packet(s, size) ==
    [start |-> s.sent = 1, payload |-> TRUE, good |-> s.good, cc |-> s.cc, size |-> size,
     units |-> <<[frame |-> s.frame, index |-> s.sent, total |-> s.total]>>]

(* What the source may send after s; a frame ends with its last packet.    *)
Following(s) ==
    IF s.sent = s.total
    THEN {[cc |-> (s.cc + 1) % CC, frame |-> (s.frame + 1) % FrameIds, sent |-> 1,
           total |-> total, good |-> good] : total \in 1..MaxUnits, good \in BOOLEAN}
    ELSE {[s EXCEPT !.cc = (@ + 1) % CC, !.sent = @ + 1]}

(* Only the first packet of a frame has a header to announce a length.     *)
Sizes(s) == IF s.sent = 1 THEN {0, s.total} ELSE {0}

Send == \E s \in Following(src) :
    /\ src' = s
    /\ \E size \in Sizes(s) : GatherPes(Packet(s, size))
    /\ UNCHANGED faults

Drop ==
    /\ faults < MaxFaults /\ faults' = faults + 1
    /\ src' \in Following(src)
    /\ out' = <<>>
    /\ UNCHANGED <<counter, es>>

(* A transport stream may send a packet twice.                             *)
Repeat ==
    /\ faults < MaxFaults /\ faults' = faults + 1 /\ src.sent > 0
    /\ \E size \in Sizes(src) : GatherPes(Packet(src, size))
    /\ UNCHANGED src

(* A packet that holds an adaptation field and no payload: it repeats the  *)
(* counter of the one before it.                                           *)
AdaptationOnly ==
    /\ faults < MaxFaults /\ faults' = faults + 1
    /\ GatherPes([start |-> FALSE, payload |-> FALSE, good |-> TRUE, cc |-> src.cc,
                  size |-> 0, units |-> <<>>])
    /\ UNCHANGED src

(* A new version of the PMT gives the stream a new buffer and leaves the   *)
(* other fields of the frame being gathered.                               *)
NewPmt ==
    /\ faults < MaxFaults /\ faults' = faults + 1
    /\ es' = [es EXCEPT !.nFrameBufLen = NORMAL_FRAME_LEN, !.overwritten = @ \/ es.frame # <<>>]
    /\ out' = <<>>
    /\ UNCHANGED <<src, counter>>

PesNext == Send \/ Drop \/ Repeat \/ AdaptationOnly \/ NewPmt

PesSpec == PesInit /\ [][PesNext]_pesVars /\ WF_pesVars(Send)

-----------------------------------------------------------------------------
(* A frame the callback gets is a frame the source sent: all its packets,  *)
(* in order and nothing else, as long as the buffer was not replaced while *)
(* it was being gathered.  The count of lost packets starts afresh with    *)
(* the frame, so that this is said only of a frame whose first packet met  *)
(* a decoder in step with the source.                                      *)
DeliveredIntact ==
    \A i \in DOMAIN out : LET d == out[i].data IN
        ~out[i].overwritten /\ out[i].inStep =>
            /\ Len(d) = d[1].total
            /\ \A j \in DOMAIN d : d[j] = [d[1] EXCEPT !.index = j]

(* Once the link loses and repeats nothing more, the decoder, which then   *)
(* ignores every packet until its own counter comes round, comes back in   *)
(* step with the source and stays so: it accepts every packet in sequence. *)
Resynchronises == (counter # -1) ~> [](counter = src.cc)

(* What remains of a frame after it has been delivered on reaching its     *)
(* announced length is not delivered as a frame of its own.                *)
OneDeliveryPerFrame ==
    [][\A i \in DOMAIN out' : out'[i].data[1].index = 1]_pesVars
=============================================================================
