------------------------------- MODULE WaveRing -------------------------------
(***************************************************************************)
(* Capture and playback through two rings of buffers                       *)
(* (testwave/wave-test.cpp).  The driver fills the capture buffers in the  *)
(* order they were added and reports each with WIM_DATA.  WaveInCallback   *)
(* adds the buffer again and only then lets playbackwave copy it into the  *)
(* next playback header, so the driver and the copy may meet in a buffer.  *)
(* A frame has two halves, captured and copied one after the other.        *)
(*                                                                         *)
(* The driver (waveIn..., waveOut...) is external: it is modelled by what  *)
(* the code relies on and by the errors the code tests for. In particular  *)
(* it writes dwBytesRecorded when it reports a buffer, not when it is      *)
(* given one: the callback reads the length after it gave the buffer back. *)
(***************************************************************************)
EXTENDS Integers, Sequences

CONSTANTS
    MAX_IN_BUFFERS,     \* capture buffers
    USED_OUT_BUFFERS,   \* playback headers
    MaxFrames,          \* bound: frames captured
    MaxFailures         \* bound: calls the driver fails without a reason of ours

ASSUME BuffersAssumption == MAX_IN_BUFFERS \in Nat \ {0} /\ USED_OUT_BUFFERS \in Nat \ {0}
ASSUME BoundsAssumption == MaxFrames \in Nat /\ MaxFailures \in Nat

VARIABLES
    queued,         \* capture buffers the driver may fill, in order
    half,           \* halves of the first of them that are filled
    dataBufferIn,   \* the frame each half of a capture buffer is from
    dwBytesRecorded,\* of each capture buffer, in halves, when it was last reported
    messages,       \* WIM_DATA not yet handled, each with its buffer wHdr
    callback,       \* where WaveInCallback is: on which buffer, halves copied of len
    captured,       \* frames captured so far
    pos_whdr,       \* the next playback header
    dataBufferOut,  \* as dataBufferIn
    dwBufferLength, \* of each playback header, in halves
    playing,        \* playback headers the driver has, in order
    heard,          \* what was played
    closing,        \* the last call os_sound_close has made
    open,           \* which devices are open
    failures,       \* failed calls of waveInAddBuffer and of waveOutWrite
    overrun,        \* was a header the driver still had ever copied to?
    behind          \* the most messages that ever waited while a frame was copied

capture == <<queued, half, dataBufferIn, dwBytesRecorded, captured>>
playback == <<pos_whdr, dataBufferOut, dwBufferLength, playing, heard>>
history == <<failures, overrun, behind>>
vars == <<capture, messages, callback, playback, closing, open, history>>

In == 0..MAX_IN_BUFFERS - 1
Out == 0..USED_OUT_BUFFERS - 1
Frames == 0..MaxFrames
Idle == [at |-> "idle", wHdr |-> 0, len |-> 0, copied |-> 0]
Halves == [{1, 2} -> Frames]
Elements(s) == {s[i] : i \in DOMAIN s}

TypeOK ==
    /\ queued \in Seq(In) /\ half \in {0, 1} /\ dataBufferIn \in [In -> Halves]
    /\ dwBytesRecorded \in [In -> 0..2] /\ messages \in Seq(In)
    /\ callback \in [at : {"idle", "add", "added", "copy"}, wHdr : In, len : 0..2, copied : 0..2]
    /\ captured \in Frames /\ pos_whdr \in Out /\ dataBufferOut \in [Out -> Halves]
    /\ dwBufferLength \in [Out -> 0..2]
    /\ playing \in Seq(Out) /\ heard \in Seq(Seq(Frames))
    /\ closing \in {"no", "waveInReset", "waveInClose", "waveOutReset", "waveOutClose"}
    /\ open \subseteq {"in", "out"}
    /\ failures \in [{"add", "write"} -> 0..MaxFailures]
    /\ overrun \in BOOLEAN /\ behind \in 0..MAX_IN_BUFFERS

(* open_sndcard: every header is prepared and the capture buffers added in *)
(* order.  A waveInAddBuffer that fails is passed over, so that its buffer *)
(* is not in the ring from the start.                                      *)
Init ==
    /\ \E n \in 0..MAX_IN_BUFFERS : queued \in [1..n -> In]
    /\ \A i, j \in DOMAIN queued : i < j => queued[i] < queued[j]
    /\ failures = [c \in {"add", "write"} |-> IF c = "add" THEN MAX_IN_BUFFERS - Len(queued) ELSE 0]
    /\ failures["add"] <= MaxFailures
    /\ half = 0 /\ dwBytesRecorded = [i \in In |-> 0]
    /\ dataBufferIn = [i \in In |-> [h \in {1, 2} |-> 0]] /\ messages = <<>> /\ callback = Idle
    /\ captured = 0 /\ pos_whdr = 0 /\ dwBufferLength = [i \in Out |-> 2]
    /\ dataBufferOut = [i \in Out |-> [h \in {1, 2} |-> 0]]
    /\ playing = <<>> /\ heard = <<>> /\ closing = "no" /\ open = {"in", "out"}
    /\ overrun = FALSE /\ behind = 0

Fails(call) == /\ failures["add"] + failures["write"] < MaxFailures
               /\ failures' = [failures EXCEPT ![call] = @ + 1]

-----------------------------------------------------------------------------
(* The capture driver: half a frame arrives.                               *)
Capture ==
    /\ closing = "no" /\ queued # <<>> /\ captured < MaxFrames
    /\ dataBufferIn' = [dataBufferIn EXCEPT ![Head(queued)][half + 1] = captured + 1]
    /\ IF half = 0
       THEN half' = 1 /\ UNCHANGED <<queued, dwBytesRecorded, messages, captured>>
       ELSE /\ half' = 0 /\ captured' = captured + 1 /\ queued' = Tail(queued)
            /\ dwBytesRecorded' = [dwBytesRecorded EXCEPT ![Head(queued)] = 2]
            /\ messages' = Append(messages, Head(queued))
    /\ UNCHANGED <<callback, playback, closing, open, history>>

(* The playback driver finishes the first header it has.                   *)
Play ==
    /\ playing # <<>>
    /\ heard' = Append(heard, SubSeq(dataBufferOut[Head(playing)], 1, dwBufferLength[Head(playing)]))
    /\ playing' = Tail(playing)
    /\ UNCHANGED <<capture, messages, callback, pos_whdr, dataBufferOut, dwBufferLength, closing,
                   open, history>>

-----------------------------------------------------------------------------
Called(wHdr) == [at |-> "add", wHdr |-> wHdr, len |-> 0, copied |-> 0]

WIM_DATA_coalesces ==
    /\ callback.at = "idle" /\ messages # <<>>
    /\ callback' = Called(Head(messages))
    /\ messages' = <<>>
    /\ UNCHANGED <<capture, playback, closing, open, history>>

(* WaveInCallback, before it calls waveInAddBuffer.                        *)
WIM_DATA ==
    /\ callback.at = "idle" /\ messages # <<>>
    /\ callback' = Called(Head(messages))
    /\ messages' = Tail(messages)
    /\ UNCHANGED <<capture, playback, closing, open, history>>

AddBuffer_in_front ==
    /\ callback.at = "add"
    /\ \/ queued' = <<callback.wHdr>> \o queued /\ UNCHANGED failures
       \/ Fails("add") /\ UNCHANGED queued
    /\ callback' = [callback EXCEPT !.at = "added"]
    /\ UNCHANGED <<half, dataBufferIn, dwBytesRecorded, captured, messages, playback, closing, open,
                   overrun, behind>>

(* waveInAddBuffer.  When it fails the frame is dropped and the buffer is  *)
(* never added again.                                                      *)
AddBuffer ==
    /\ callback.at = "add"
    /\ \/ /\ "in" \in open /\ queued' = Append(queued, callback.wHdr)
          /\ callback' = [callback EXCEPT !.at = "added"] /\ UNCHANGED failures
       \/ "in" \notin open /\ callback' = Idle /\ UNCHANGED <<queued, failures>>
       \/ Fails("add") /\ callback' = Idle /\ UNCHANGED queued
    /\ UNCHANGED <<half, dataBufferIn, dwBytesRecorded, captured, messages, playback, closing, open,
                   overrun, behind>>

(* The call of playbackwave: the length is read from the header now, when  *)
(* the driver has the buffer again.                                        *)
Playback ==
    /\ callback.at = "added"
    /\ callback' = [callback EXCEPT !.at = "copy", !.len = dwBytesRecorded[callback.wHdr]]
    /\ UNCHANGED <<capture, messages, playback, closing, open, history>>

Overruns == overrun' = (overrun \/ pos_whdr \in Elements(playing))

(* playbackwave: memset and memcpy, half by half.                          *)
Copy ==
    /\ callback.at = "copy" /\ callback.copied < callback.len
    /\ LET h == callback.copied + 1
       IN  /\ dataBufferOut' = [dataBufferOut EXCEPT ![pos_whdr][h] = dataBufferIn[callback.wHdr][h]]
           /\ callback' = [callback EXCEPT !.copied = h]
    /\ behind' = IF Len(messages) > behind THEN Len(messages) ELSE behind
    /\ Overruns
    /\ UNCHANGED <<capture, messages, pos_whdr, dwBufferLength, playing, heard, closing, open, failures>>

(* The headers are used in turn.                                           *)
NextHeader == IF pos_whdr + 1 = USED_OUT_BUFFERS THEN 0 ELSE pos_whdr + 1

(* waveOutWrite; whatever it returns, the next header is the next one.     *)
(* The driver refuses a header it still has, WAVERR_STILLPLAYING.          *)
Write ==
    /\ callback.at = "copy" /\ callback.copied = callback.len
    /\ dwBufferLength' = [dwBufferLength EXCEPT ![pos_whdr] = callback.len]
    /\ \/ /\ "out" \in open /\ pos_whdr \notin Elements(playing)
          /\ playing' = Append(playing, pos_whdr) /\ UNCHANGED failures
       \/ "out" \notin open /\ UNCHANGED <<playing, failures>>
       \/ /\ pos_whdr \in Elements(playing) /\ UNCHANGED <<playing, failures>>
       \/ Fails("write") /\ UNCHANGED playing
    /\ Overruns
    /\ pos_whdr' = NextHeader /\ callback' = Idle
    /\ UNCHANGED <<capture, messages, dataBufferOut, heard, closing, open, behind>>

-----------------------------------------------------------------------------
(* os_sound_close, in the main thread while callbacks go on.  No result of *)
(* its four calls is looked at.                                            *)
Closes(call, after) == closing = after /\ closing' = call

(* Every buffer comes back, the first with what it has.                    *)
waveInReset ==
    /\ Closes("waveInReset", "no")
    /\ dwBytesRecorded' = [b \in In |-> IF b \notin Elements(queued) THEN dwBytesRecorded[b]
                                        ELSE IF b = Head(queued) THEN half ELSE 0]
    /\ messages' = messages \o queued /\ queued' = <<>> /\ half' = 0
    /\ UNCHANGED <<dataBufferIn, captured, callback, playback, open, history>>

(* Refused while the driver has a buffer.                                  *)
waveInClose ==
    /\ Closes("waveInClose", "waveInReset")
    /\ open' = IF queued = <<>> THEN open \ {"in"} ELSE open
    /\ UNCHANGED <<capture, messages, callback, playback, history>>

waveOutReset ==
    /\ Closes("waveOutReset", "waveInClose")
    /\ playing' = <<>>
    /\ UNCHANGED <<capture, messages, callback, pos_whdr, dataBufferOut, dwBufferLength, heard,
                   open, history>>

waveOutClose ==
    /\ Closes("waveOutClose", "waveOutReset")
    /\ open' = IF playing = <<>> THEN open \ {"out"} ELSE open
    /\ UNCHANGED <<capture, messages, callback, playback, history>>

Driver == Capture \/ Play
WaveInCallback == WIM_DATA \/ AddBuffer \/ Playback \/ Copy \/ Write
os_sound_close == waveInReset \/ waveInClose \/ waveOutReset \/ waveOutClose

Next == Driver \/ WaveInCallback \/ os_sound_close

Spec == Init /\ [][Next]_vars

-----------------------------------------------------------------------------
(* A buffer goes back to the driver before it is copied.  Still the frames *)
(* heard are whole and in the order they were captured, as long as fewer   *)
(* messages wait than there are other buffers, the ones lost not counted.  *)
InTime == behind < MAX_IN_BUFFERS - failures["add"] - 1

HeardAsCaptured ==
    closing = "no" /\ InTime /\ ~overrun =>
        /\ \A i \in DOMAIN heard : Len(heard[i]) = 2 /\ heard[i][1] = heard[i][2]
        /\ \A i, j \in DOMAIN heard : i < j => heard[i][1] < heard[j][1]

(* No frame is lost without a failed call: each is in a message, in the    *)
(* callback, with the playback driver, or was played, once. And capture    *)
(* runs dry only when every buffer waits for the callback or was lost to a *)
(* failed waveInAddBuffer, one for each failure.                           *)
NothingLost ==
    /\ closing = "no" /\ ~overrun /\ (\A c \in DOMAIN failures : failures[c] = 0) =>
        captured = Len(messages) + (IF callback = Idle THEN 0 ELSE 1) + Len(playing) + Len(heard)
    /\ "in" \in open =>
        Len(queued) + Len(messages) + (IF callback.at = "add" THEN 1 ELSE 0) + failures["add"] = MAX_IN_BUFFERS
=============================================================================
