---------------------------- MODULE WaveRingProofs ----------------------------
(***************************************************************************)
(* What testwave keeps for any number of capture buffers and playback      *)
(* headers: no frame is lost without a failed call, and as long as the     *)
(* callback is in time what is heard is what was captured.                 *)
(***************************************************************************)
EXTENDS WaveRing, SequenceTheorems, TLAPS

Callbacks == [at : {"idle", "add", "added", "copy"}, wHdr : In, len : 0..2, copied : 0..2]

CaptureTypeOK ==
    /\ queued \in Seq(In) /\ half \in {0, 1} /\ dataBufferIn \in [In -> Halves]
    /\ dwBytesRecorded \in [In -> 0..2]
    /\ messages \in Seq(In) /\ callback \in Callbacks /\ captured \in Frames
    /\ closing \in {"no", "waveInReset", "waveInClose", "waveOutReset", "waveOutClose"}
    /\ open \subseteq {"in", "out"}

PlaybackTypeOK ==
    /\ pos_whdr \in Out /\ dataBufferOut \in [Out -> Halves] /\ dwBufferLength \in [Out -> 0..2]
    /\ playing \in Seq(Out) /\ heard \in Seq(Seq(Frames))
    /\ failures \in [{"add", "write"} -> 0..MaxFailures] /\ behind \in 0..MAX_IN_BUFFERS

(* A frame half captured has a buffer; a buffer is in one place.           *)
ControlOK ==
    /\ half = 1 => queued # <<>> /\ captured < MaxFrames
    /\ callback.at = "idle" => callback = Idle
    /\ callback.at \in {"add", "added"} => callback.copied = 0
    /\ callback.copied <= callback.len
    /\ closing = "no" => open = {"in", "out"}

Adding == IF callback.at = "add" THEN 1 ELSE 0

BuffersCounted ==
    /\ Len(queued) + Len(messages) <= MAX_IN_BUFFERS
    /\ "in" \in open => Len(queued) + Len(messages) + Adding + failures["add"] = MAX_IN_BUFFERS

Base == CaptureTypeOK /\ PlaybackTypeOK /\ ControlOK /\ BuffersCounted

(***************************************************************************)
(* Sequences.                                                              *)
(***************************************************************************)
LEMMA Appended ==
    ASSUME NEW S, NEW s \in Seq(S), NEW e \in S
    PROVE  /\ Append(s, e) \in Seq(S) /\ Len(Append(s, e)) = Len(s) + 1 /\ Append(s, e) # <<>>
           /\ Append(s, e)[Len(s) + 1] = e
           /\ \A i \in 1..Len(s) : Append(s, e)[i] = s[i]
  OBVIOUS

LEMMA Shortened ==
    ASSUME NEW S, NEW s \in Seq(S), s # <<>>
    PROVE  /\ Head(s) \in S /\ Tail(s) \in Seq(S) /\ Len(Tail(s)) = Len(s) - 1 /\ Len(s) \in Nat \ {0}
           /\ Head(s) = s[1]
           /\ \A i \in 1..Len(s) - 1 : Tail(s)[i] = s[i + 1]
<1>1. Len(s) \in Nat \ {0}
  BY LenProperties, EmptySeq
<1>2. QED
  BY <1>1

(* What is heard of a header is what it held.                              *)
LEMMA HalvesPlayed ==
    ASSUME NEW d \in [1..2 -> Frames]
    PROVE  /\ SubSeq(d, 1, 2) \in Seq(Frames) /\ Len(SubSeq(d, 1, 2)) = 2
           /\ SubSeq(d, 1, 2)[1] = d[1] /\ SubSeq(d, 1, 2)[2] = d[2]
<1>1. d \in UNION {[1..m -> Frames] : m \in Nat}
  OBVIOUS
<1>2. d \in Seq(Frames)
  BY <1>1, SeqDef, Zenon
<1>3. DOMAIN d = 1..2 /\ Len(d) \in Nat /\ DOMAIN d = 1..Len(d)
  BY <1>2, LenProperties
<1>4. Len(d) = 2
  BY <1>3
<1>5. QED
  BY <1>2, <1>4, SubSeqProperties

LEMMA InitBase == Init => Base
<1> SUFFICES ASSUME Init PROVE Base
  OBVIOUS
<1> USE BuffersAssumption, BoundsAssumption
<1>1. queued \in Seq(In) /\ Len(queued) \in 0..MAX_IN_BUFFERS
  <2>1. PICK n \in 0..MAX_IN_BUFFERS : queued \in [1..n -> In]
    BY DEF Init
  <2>2. queued \in Seq(In) /\ DOMAIN queued = 1..n
    BY <2>1, IsASeq
  <2>3. Len(queued) = n
    BY <2>2, LenProperties
  <2>4. QED
    BY <2>2, <2>3
<1>2. messages \in Seq(In) /\ Len(messages) = 0 /\ playing \in Seq(Out) /\ heard \in Seq(Seq(Frames))
  BY DEF Init
<1>3. callback \in Callbacks /\ callback.at = "idle" /\ callback = Idle /\ callback.copied = 0
      /\ callback.len = 0
  BY DEF Init, Idle, Callbacks, In
<1>4. /\ dataBufferIn \in [In -> Halves] /\ dataBufferOut \in [Out -> Halves]
      /\ dwBufferLength \in [Out -> 0..2] /\ dwBytesRecorded \in [In -> 0..2]
  BY DEF Init, Halves, Frames
<1>5. /\ failures \in [{"add", "write"} -> 0..MaxFailures]
      /\ failures["add"] = MAX_IN_BUFFERS - Len(queued)
  BY <1>1 DEF Init
<1>6. CaptureTypeOK
  BY <1>1, <1>2, <1>3, <1>4 DEF Init, CaptureTypeOK, Frames
<1>7. PlaybackTypeOK
  <2>1. pos_whdr \in Out
    BY DEF Init, Out
  <2>2. behind \in 0..MAX_IN_BUFFERS
    BY DEF Init
  <2>3. QED
    BY <1>2, <1>4, <1>5, <2>1, <2>2 DEF PlaybackTypeOK
<1>8. ControlOK
  BY <1>3 DEF Init, ControlOK
<1>9. BuffersCounted
  BY <1>1, <1>2, <1>3, <1>5 DEF BuffersCounted, Adding
<1>10. QED
  BY <1>6, <1>7, <1>8, <1>9 DEF Base

LEMMA CaptureBase == ASSUME Base, Capture PROVE Base'
<1> USE BuffersAssumption, BoundsAssumption
<1>1. /\ queued \in Seq(In) /\ queued # <<>> /\ captured \in Frames /\ captured < MaxFrames
      /\ half \in {0, 1} /\ messages \in Seq(In) /\ dataBufferIn \in [In -> Halves]
      /\ dwBytesRecorded \in [In -> 0..2]
  BY DEF Base, CaptureTypeOK, Capture
<1>2. /\ Head(queued) \in In /\ Tail(queued) \in Seq(In) /\ Len(Tail(queued)) = Len(queued) - 1
      /\ Len(queued) \in Nat \ {0}
  BY <1>1, Shortened
<1>3. captured + 1 \in Frames
  BY <1>1 DEF Frames
<1>4. dataBufferIn' \in [In -> Halves]
  <2>1. dataBufferIn[Head(queued)] \in Halves
    BY <1>1, <1>2
  <2>2. [dataBufferIn[Head(queued)] EXCEPT ![half + 1] = captured + 1] \in Halves
    BY <1>1, <1>3, <2>1 DEF Halves
  <2>3. dataBufferIn' = [dataBufferIn EXCEPT ![Head(queued)] =
                           [dataBufferIn[Head(queued)] EXCEPT ![half + 1] = captured + 1]]
    BY <1>1, <1>2 DEF Capture
  <2>4. QED
    BY <1>1, <1>2, <2>2, <2>3
<1>5. CASE half = 0
  <2>1. /\ half' = 1
        /\ UNCHANGED <<queued, dwBytesRecorded, messages, captured, callback, playback, closing, open,
                       failures, behind>>
    BY <1>5 DEF Capture, history
  <2>2. CaptureTypeOK' /\ PlaybackTypeOK'
    BY <1>4, <2>1 DEF Base, CaptureTypeOK, PlaybackTypeOK, playback
  <2>3. ControlOK' /\ BuffersCounted'
    BY <1>1, <2>1 DEF Base, ControlOK, BuffersCounted, Adding
  <2>4. QED
    BY <2>2, <2>3 DEF Base
<1>6. CASE half = 1
  <2>1. /\ half' = 0 /\ captured' = captured + 1 /\ queued' = Tail(queued)
        /\ dwBytesRecorded' = [dwBytesRecorded EXCEPT ![Head(queued)] = 2]
        /\ messages' = Append(messages, Head(queued))
        /\ UNCHANGED <<callback, playback, closing, open, failures, behind>>
    BY <1>6 DEF Capture, history
  <2>2. messages' \in Seq(In) /\ Len(messages') = Len(messages) + 1 /\ dwBytesRecorded' \in [In -> 0..2]
    BY <1>1, <1>2, <2>1, Appended
  <2>3. CaptureTypeOK' /\ PlaybackTypeOK'
    BY <1>2, <1>3, <1>4, <2>1, <2>2 DEF Base, CaptureTypeOK, PlaybackTypeOK, playback
  <2>4. ControlOK'
    BY <2>1 DEF Base, ControlOK
  <2>5. BuffersCounted'
    <3>1. Len(messages) \in Nat
      BY <1>1
    <3>2. QED
      BY <1>2, <2>1, <2>2, <3>1 DEF Base, BuffersCounted, Adding
  <2>6. QED
    BY <2>3, <2>4, <2>5 DEF Base
<1>7. QED
  BY <1>1, <1>5, <1>6

LEMMA PlayBase == ASSUME Base, Play PROVE Base'
<1>1. playing \in Seq(Out) /\ playing # <<>> /\ heard \in Seq(Seq(Frames))
  BY DEF Base, PlaybackTypeOK, Play
<1>2. Head(playing) \in Out /\ Tail(playing) \in Seq(Out)
  BY <1>1, Shortened
<1>3. SubSeq(dataBufferOut[Head(playing)], 1, dwBufferLength[Head(playing)]) \in Seq(Frames)
  <2>1. dataBufferOut[Head(playing)] \in [1..2 -> Frames] /\ dwBufferLength[Head(playing)] \in 0..2
    BY <1>2 DEF Base, PlaybackTypeOK, Halves
  <2>2. \A n \in 0..2, d \in [1..2 -> Frames] : SubSeq(d, 1, n) \in Seq(Frames)
    <3> SUFFICES ASSUME NEW n \in 0..2, NEW d \in [1..2 -> Frames] PROVE SubSeq(d, 1, n) \in Seq(Frames)
      OBVIOUS
    <3>1. d \in Seq(Frames)
      <4>1. 2 \in Nat /\ d \in [1..2 -> Frames]
        OBVIOUS
      <4>2. d \in UNION {[1..m -> Frames] : m \in Nat}
        BY <4>1
      <4>3. QED
        BY <4>2, SeqDef, Zenon
    <3>2. DOMAIN d = 1..2 /\ Len(d) \in Nat /\ DOMAIN d = 1..Len(d)
      BY <3>1, LenProperties
    <3>3. Len(d) = 2
      BY <3>2
    <3>4. QED
      BY <3>1, <3>3, SubSeqProperties
  <2>3. QED
    BY <2>1, <2>2
<1>4. heard' \in Seq(Seq(Frames))
  BY <1>1, <1>3, Appended DEF Play
<1>5. UNCHANGED <<capture, messages, callback, pos_whdr, dataBufferOut, dwBufferLength, closing, open, history>>
      /\ playing' = Tail(playing)
  BY DEF Play
<1>6. QED
  BY <1>2, <1>4, <1>5 DEF Base, CaptureTypeOK, PlaybackTypeOK, ControlOK, BuffersCounted, Adding,
     capture, history

LEMMA MessageBase == ASSUME Base, WIM_DATA PROVE Base'
<1>1. /\ messages \in Seq(In) /\ messages # <<>> /\ callback.at = "idle"
      /\ callback' = Called(Head(messages)) /\ messages' = Tail(messages)
      /\ UNCHANGED <<capture, playback, closing, open, history>>
  BY DEF Base, CaptureTypeOK, WIM_DATA
<1>2. /\ Head(messages) \in In /\ messages' \in Seq(In)
      /\ Len(messages') = Len(messages) - 1 /\ Len(messages) \in Nat \ {0}
  BY <1>1, Shortened
<1>3. callback' \in Callbacks /\ callback'.at = "add" /\ callback'.copied = 0 /\ 0 <= callback'.len
  BY <1>1, <1>2 DEF Callbacks, Called
<1>4. CaptureTypeOK' /\ PlaybackTypeOK'
  BY <1>1, <1>2, <1>3 DEF Base, CaptureTypeOK, PlaybackTypeOK, capture, playback, history
<1>5. ControlOK'
  BY <1>1, <1>3 DEF Base, ControlOK, capture
<1>6. BuffersCounted'
  <2>1. Len(queued) \in Nat
    BY DEF Base, CaptureTypeOK
  <2>2. /\ Adding' = 1 /\ Adding = 0 /\ queued' = queued /\ open' = open
        /\ failures'["add"] = failures["add"]
    BY <1>1, <1>3 DEF Adding, capture, history
  <2>3. failures["add"] \in Nat
    BY BoundsAssumption DEF Base, PlaybackTypeOK
  <2>4. QED
    BY <1>2, <2>1, <2>2, <2>3, BuffersAssumption DEF Base, BuffersCounted
<1>7. QED
  BY <1>4, <1>5, <1>6 DEF Base

LEMMA FailsCounted ==
    ASSUME PlaybackTypeOK, NEW call \in {"add", "write"}, Fails(call)
    PROVE  /\ failures' \in [{"add", "write"} -> 0..MaxFailures]
           /\ failures'[call] = failures[call] + 1
           /\ \A other \in {"add", "write"} \ {call} : failures'[other] = failures[other]
<1>1. failures["add"] \in 0..MaxFailures /\ failures["write"] \in 0..MaxFailures
  BY DEF PlaybackTypeOK
<1>2. failures["add"] + failures["write"] < MaxFailures
  BY DEF Fails
<1>3. failures[call] + 1 \in 0..MaxFailures
  BY <1>1, <1>2, BoundsAssumption
<1>4. failures' = [failures EXCEPT ![call] = failures[call] + 1]
  BY DEF Fails
<1>5. QED
  BY <1>3, <1>4 DEF PlaybackTypeOK

LEMMA AddBase == ASSUME Base, AddBuffer PROVE Base'
<1>0. /\ callback \in Callbacks /\ queued \in Seq(In) /\ callback.wHdr \in In /\ Len(queued) \in Nat
      /\ callback.at = "add" /\ callback.copied = 0 /\ Len(messages) \in Nat
      /\ UNCHANGED <<half, dataBufferIn, dwBytesRecorded, captured, messages, playback, closing, open,
                     behind>>
  BY DEF Base, CaptureTypeOK, ControlOK, AddBuffer, Callbacks
<1>a. Idle \in Callbacks /\ Idle.at = "idle" /\ Idle.copied = 0 /\ Idle.len = 0
  BY BuffersAssumption DEF Idle, Callbacks, In
<1>1. CASE /\ "in" \in open /\ queued' = Append(queued, callback.wHdr)
           /\ callback' = [callback EXCEPT !.at = "added"] /\ UNCHANGED failures
  <2>1. queued' \in Seq(In) /\ Len(queued') = Len(queued) + 1 /\ queued' # <<>>
    BY <1>0, <1>1, Appended
  <2>2. /\ callback' \in Callbacks /\ callback'.at = "added" /\ callback'.copied <= callback'.len
        /\ callback'.copied = 0
    BY <1>0, <1>1 DEF Callbacks, Base, ControlOK
  <2>3. CaptureTypeOK' /\ PlaybackTypeOK'
    BY <1>0, <1>1, <2>1, <2>2 DEF Base, CaptureTypeOK, PlaybackTypeOK, playback
  <2>4. ControlOK'
    BY <1>0, <2>1, <2>2 DEF Base, ControlOK
  <2>5. BuffersCounted'
    <3>1. Adding = 1 /\ Adding' = 0
      BY <1>0, <2>2 DEF Adding
    <3>2. failures["add"] \in Nat
      BY BoundsAssumption DEF Base, PlaybackTypeOK
    <3>3. QED
      BY <1>0, <1>1, <2>1, <3>1, <3>2 DEF Base, BuffersCounted
  <2>6. QED
    BY <2>3, <2>4, <2>5 DEF Base
<1>2. CASE "in" \notin open /\ callback' = Idle /\ UNCHANGED <<queued, failures>>
  <2>1. CaptureTypeOK' /\ PlaybackTypeOK'
    BY <1>0, <1>a, <1>2 DEF Base, CaptureTypeOK, PlaybackTypeOK, playback
  <2>2. ControlOK' /\ BuffersCounted'
    BY <1>0, <1>a, <1>2 DEF Base, ControlOK, BuffersCounted
  <2>3. QED
    BY <2>1, <2>2 DEF Base
<1>3. CASE Fails("add") /\ callback' = Idle /\ UNCHANGED queued
  <2>1. /\ failures' \in [{"add", "write"} -> 0..MaxFailures]
        /\ failures'["add"] = failures["add"] + 1
    BY <1>3, FailsCounted DEF Base
  <2>2. CaptureTypeOK' /\ PlaybackTypeOK'
    BY <1>0, <1>a, <1>3, <2>1 DEF Base, CaptureTypeOK, PlaybackTypeOK, playback
  <2>3. ControlOK'
    BY <1>0, <1>a, <1>3 DEF Base, ControlOK
  <2>4. BuffersCounted'
    <3>1. Adding = 1 /\ Adding' = 0
      BY <1>0, <1>a, <1>3 DEF Adding
    <3>2. failures["add"] \in Nat
      BY BoundsAssumption DEF Base, PlaybackTypeOK
    <3>3. QED
      BY <1>0, <1>3, <2>1, <3>1, <3>2 DEF Base, BuffersCounted
  <2>5. QED
    BY <2>2, <2>3, <2>4 DEF Base
<1>4. QED
  BY <1>1, <1>2, <1>3 DEF AddBuffer

LEMMA PlaybackBase == ASSUME Base, Playback PROVE Base'
<1>1. /\ callback \in Callbacks /\ callback.at = "added" /\ callback.copied = 0
      /\ callback' = [callback EXCEPT !.at = "copy", !.len = dwBytesRecorded[callback.wHdr]]
      /\ UNCHANGED <<capture, messages, playback, closing, open, history>>
  BY DEF Base, CaptureTypeOK, ControlOK, Playback
<1>2. dwBytesRecorded[callback.wHdr] \in 0..2
  BY <1>1 DEF Base, CaptureTypeOK, Callbacks
<1>3. callback' \in Callbacks /\ callback'.at = "copy" /\ callback'.copied <= callback'.len
  <2> DEFINE read == dwBytesRecorded[callback.wHdr]
  <2>1. read \in 0..2 /\ callback' = [callback EXCEPT !.at = "copy", !.len = read]
    BY <1>1, <1>2
  <2> HIDE DEF read
  <2>2. callback' \in Callbacks /\ callback'.at = "copy" /\ callback'.copied = 0 /\ callback'.len = read
    BY <1>1, <2>1 DEF Callbacks
  <2>3. QED
    BY <2>1, <2>2
<1>4. CaptureTypeOK' /\ PlaybackTypeOK'
  BY <1>1, <1>3 DEF Base, CaptureTypeOK, PlaybackTypeOK, capture, playback, history
<1>5. ControlOK' /\ BuffersCounted'
  BY <1>1, <1>3 DEF Base, ControlOK, BuffersCounted, Adding, capture, history
<1>6. QED
  BY <1>4, <1>5 DEF Base

LEMMA CopyBase == ASSUME Base, Copy PROVE Base'
<1> DEFINE h == callback.copied + 1
<1>1. /\ callback \in Callbacks /\ callback.at = "copy" /\ callback.copied < callback.len
      /\ callback' = [callback EXCEPT !.copied = h]
      /\ dataBufferOut' = [dataBufferOut EXCEPT ![pos_whdr][h] = dataBufferIn[callback.wHdr][h]]
      /\ UNCHANGED <<capture, messages, pos_whdr, dwBufferLength, playing, heard, closing, open, failures>>
  BY DEF Base, CaptureTypeOK, Copy
<1>a. callback.copied \in 0..2 /\ callback.wHdr \in In /\ callback.len \in 0..2
      /\ callback.copied < callback.len
  BY <1>1 DEF Callbacks
<1>2. h \in {1, 2}
  BY <1>a
<1>3. callback' \in Callbacks /\ callback'.at = "copy" /\ callback'.copied <= callback'.len
  <2>1. h \in 0..2 /\ h <= callback.len
    BY <1>a
  <2> HIDE DEF h
  <2>2. QED
    BY <1>1, <2>1 DEF Callbacks
<1>4. dataBufferOut' \in [Out -> Halves]
  <2>1. /\ dataBufferOut \in [Out -> Halves] /\ pos_whdr \in Out
        /\ dataBufferIn[callback.wHdr] \in Halves
    BY <1>a DEF Base, CaptureTypeOK, PlaybackTypeOK
  <2>2. dataBufferIn[callback.wHdr][h] \in Frames
    BY <1>2, <2>1 DEF Halves
  <2>3. [dataBufferOut[pos_whdr] EXCEPT ![h] = dataBufferIn[callback.wHdr][h]] \in Halves
    BY <1>2, <2>1, <2>2 DEF Halves
  <2>4. QED
    BY <1>1, <2>1, <2>3
<1> HIDE DEF h
<1>b. behind' \in 0..MAX_IN_BUFFERS
  <2>1. Len(messages) \in Nat /\ Len(queued) \in Nat
    BY DEF Base, CaptureTypeOK
  <2>2. Len(messages) \in 0..MAX_IN_BUFFERS
    BY <2>1, BuffersAssumption DEF Base, BuffersCounted
  <2>3. QED
    BY <2>2 DEF Copy, Base, PlaybackTypeOK
<1>5. CaptureTypeOK' /\ PlaybackTypeOK'
  BY <1>1, <1>3, <1>4, <1>b DEF Base, CaptureTypeOK, PlaybackTypeOK, capture
<1>6. ControlOK' /\ BuffersCounted'
  BY <1>1, <1>3 DEF Base, ControlOK, BuffersCounted, Adding, capture
<1>7. QED
  BY <1>5, <1>6 DEF Base

LEMMA WriteBase == ASSUME Base, Write PROVE Base'
<1>1. /\ callback \in Callbacks /\ callback.at = "copy"
      /\ dwBufferLength' = [dwBufferLength EXCEPT ![pos_whdr] = callback.len]
      /\ pos_whdr' = NextHeader /\ callback' = Idle
      /\ UNCHANGED <<capture, messages, dataBufferOut, heard, closing, open, behind>>
  BY DEF Base, CaptureTypeOK, Write
<1>2. Idle \in Callbacks /\ Idle.at = "idle" /\ Idle.copied = 0 /\ Idle.len = 0
  BY BuffersAssumption DEF Idle, Callbacks, In
<1>3. playing' \in Seq(Out)
  <2>1. playing \in Seq(Out) /\ pos_whdr \in Out
    BY DEF Base, PlaybackTypeOK
  <2>2. playing' = playing \/ playing' = Append(playing, pos_whdr)
    BY DEF Write
  <2>3. QED
    BY <2>1, <2>2, Appended
<1>4. failures' \in [{"add", "write"} -> 0..MaxFailures] /\ failures'["add"] = failures["add"]
  <2>1. failures' = failures \/ Fails("write")
    BY DEF Write
  <2>2. QED
    BY <2>1, FailsCounted DEF Base, PlaybackTypeOK
<1>5. dwBufferLength' \in [Out -> 0..2]
  BY <1>1 DEF Base, PlaybackTypeOK, Callbacks
<1>6. NextHeader \in Out
  BY BuffersAssumption DEF NextHeader, Out, Base, PlaybackTypeOK
<1>7. CaptureTypeOK' /\ PlaybackTypeOK'
  BY <1>1, <1>2, <1>3, <1>4, <1>5, <1>6 DEF Base, CaptureTypeOK, PlaybackTypeOK, capture
<1>8. ControlOK' /\ BuffersCounted'
  BY <1>1, <1>2, <1>4 DEF Base, ControlOK, BuffersCounted, Adding, capture
<1>9. QED
  BY <1>7, <1>8 DEF Base

LEMMA ResetBase == ASSUME Base, waveInReset PROVE Base'
<1>1. /\ queued \in Seq(In) /\ messages \in Seq(In) /\ half \in {0, 1}
      /\ Len(queued) \in Nat /\ Len(messages) \in Nat
  BY DEF Base, CaptureTypeOK
<1>2. dwBytesRecorded' \in [In -> 0..2]
  BY <1>1 DEF waveInReset, Base, CaptureTypeOK
<1>3. /\ closing = "no" /\ closing' = "waveInReset" /\ messages' = messages \o queued
      /\ queued' = <<>> /\ half' = 0
      /\ UNCHANGED <<dataBufferIn, captured, callback, playback, open, history>>
  BY DEF waveInReset, Closes
<1>4. messages' \in Seq(In) /\ Len(messages') = Len(messages) + Len(queued)
  BY <1>1, <1>3, ConcatProperties
<1>5. queued' \in Seq(In) /\ Len(queued') = 0
  BY <1>3
<1>6. CaptureTypeOK' /\ PlaybackTypeOK'
  BY <1>2, <1>3, <1>4, <1>5 DEF Base, CaptureTypeOK, PlaybackTypeOK, playback, history
<1>7. ControlOK'
  BY <1>3 DEF Base, ControlOK
<1>8. BuffersCounted'
  BY <1>1, <1>3, <1>4, <1>5 DEF Base, BuffersCounted, Adding, history
<1>9. QED
  BY <1>6, <1>7, <1>8 DEF Base

LEMMA CloseBase == ASSUME Base, waveInClose \/ waveOutReset \/ waveOutClose PROVE Base'
<1>1. /\ closing # "no" /\ open' \subseteq open
      /\ closing' \in {"waveInClose", "waveOutReset", "waveOutClose"}
      /\ UNCHANGED <<capture, messages, callback, pos_whdr, dataBufferOut, dwBufferLength, heard, history>>
  BY DEF waveInClose, waveOutReset, waveOutClose, Closes, playback
<1>2. playing' \in Seq(Out)
  <2>1. playing' = playing \/ playing' = <<>>
    BY DEF waveInClose, waveOutReset, waveOutClose, playback
  <2>2. playing \in Seq(Out) /\ <<>> \in Seq(Out)
    BY DEF Base, PlaybackTypeOK
  <2>3. QED
    BY <2>1, <2>2
<1>3. CaptureTypeOK' /\ PlaybackTypeOK'
  BY <1>1, <1>2 DEF Base, CaptureTypeOK, PlaybackTypeOK, capture, history
<1>4. ControlOK' /\ BuffersCounted'
  BY <1>1 DEF Base, ControlOK, BuffersCounted, Adding, capture, history
<1>5. QED
  BY <1>3, <1>4 DEF Base

LEMMA BaseStep == Base /\ [Next]_vars => Base'
<1>1. Base /\ UNCHANGED vars => Base'
  BY DEF Base, CaptureTypeOK, PlaybackTypeOK, ControlOK, BuffersCounted, Adding, vars, capture,
     playback, history
<1>2. QED
  BY <1>1, CaptureBase, PlayBase, MessageBase, AddBase, PlaybackBase, CopyBase, WriteBase, ResetBase,
     CloseBase
     DEF Next, Driver, WaveInCallback, os_sound_close

-----------------------------------------------------------------------------
(* Until a call fails or a header is copied to that the driver still has,  *)
(* the frames in the messages, in the callback, with the playback driver   *)
(* and heard are those captured.                                           *)
Handled == IF callback = Idle THEN 0 ELSE 1

FramesCounted ==
    closing = "no" /\ ~overrun /\ (\A c \in DOMAIN failures : failures[c] = 0) =>
        captured = Len(messages) + Handled + Len(playing) + Len(heard)

LEMMA Lengths ==
    ASSUME Base
    PROVE  /\ Len(messages) \in Nat /\ Len(playing) \in Nat /\ Len(heard) \in Nat /\ Len(queued) \in Nat
           /\ Handled \in {0, 1} /\ captured \in Nat /\ failures["add"] \in Nat
  BY BoundsAssumption DEF Base, CaptureTypeOK, PlaybackTypeOK, Handled, Frames

(* What makes the hypothesis of FramesCounted hold after a step but not    *)
(* before it: nothing.                                                     *)
Faultless == closing = "no" /\ ~overrun /\ \A c \in {"add", "write"} : failures[c] = 0

LEMMA FramesStep ==
    ASSUME Base, FramesCounted, [Next]_vars
    PROVE  FramesCounted'
<1>0. Base'
  BY BaseStep
<1>1. Faultless' <=> (closing = "no" /\ ~overrun /\ (\A c \in DOMAIN failures : failures[c] = 0))'
  BY <1>0 DEF Base, PlaybackTypeOK, Faultless
<1>2. Faultless => captured = Len(messages) + Handled + Len(playing) + Len(heard)
  BY DEF Base, PlaybackTypeOK, Faultless, FramesCounted
<1> SUFFICES ASSUME Faultless'
             PROVE  captured' = Len(messages') + Handled' + Len(playing') + Len(heard')
  BY <1>1 DEF FramesCounted, Handled
<1>3. CASE UNCHANGED vars
  BY <1>2, <1>3 DEF Faultless, Handled, vars, capture, playback, history
<1>4. CASE Capture
  <2>1. UNCHANGED <<callback, playing, heard, closing, failures, overrun>> /\ Faultless /\ Handled' = Handled
    BY <1>4 DEF Capture, playback, history, Faultless, Handled
  <2>2. \/ Len(messages') = Len(messages) + 1 /\ captured' = captured + 1
        \/ Len(messages') = Len(messages) /\ captured' = captured
    <3>1. Len(Append(messages, Head(queued))) = Len(messages) + 1
      <4>1. messages \in Seq(In) /\ Head(queued) \in In
        BY <1>4, Shortened DEF Base, CaptureTypeOK, Capture
      <4>2. QED
        BY <4>1, Appended
    <3>2. QED
      BY <1>4, <3>1 DEF Capture
  <2>3. captured = Len(messages) + Handled + Len(playing) + Len(heard)
    BY <1>2, <2>1
  <2>4. captured' = Len(messages') + Handled + Len(playing) + Len(heard)
    <3> DEFINE m == Len(messages)
               n == Len(messages')
               r == Handled + Len(playing) + Len(heard)
    <3>1. m \in Nat /\ r \in Nat /\ captured \in Nat
      BY Lengths
    <3>2. captured = m + r
      BY <2>3, Lengths
    <3>3. (n = m + 1 /\ captured' = captured + 1) \/ (n = m /\ captured' = captured)
      BY <2>2
    <3> HIDE DEF m, n, r
    <3>4. captured' = n + r /\ n \in Nat
      BY <3>1, <3>2, <3>3
    <3>5. QED
      BY <3>4, Lengths DEF n, r
  <2>5. QED
    BY <2>1, <2>4
<1>5. CASE Play
  <2>1. /\ UNCHANGED <<captured, messages, callback, closing, failures, overrun>> /\ Faultless
        /\ Handled' = Handled
    BY <1>5 DEF Play, capture, history, Faultless, Handled
  <2>2. Len(playing') = Len(playing) - 1
    BY <1>5, Shortened DEF Play, Base, PlaybackTypeOK
  <2>3. Len(heard') = Len(heard) + 1
    <3>1. heard' = Append(heard, SubSeq(dataBufferOut[Head(playing)], 1, dwBufferLength[Head(playing)]))
      BY <1>5 DEF Play
    <3>2. heard \in Seq(Seq(Frames))
      BY DEF Base, PlaybackTypeOK
    <3> DEFINE new == SubSeq(dataBufferOut[Head(playing)], 1, dwBufferLength[Head(playing)])
    <3> HIDE DEF new
    <3>3. QED
      BY <3>1, <3>2 DEF new
  <2>4. QED
    <3>1. captured = Len(messages) + Handled + Len(playing) + Len(heard)
      BY <1>2, <2>1
    <3>2. captured = Len(messages) + Handled + Len(playing') + Len(heard')
      <4> DEFINE p == Len(playing)
                 h == Len(heard)
                 r == Len(messages) + Handled
      <4>1. p \in Nat /\ h \in Nat /\ r \in Nat /\ captured = r + p + h
        BY <3>1, Lengths
      <4> HIDE DEF p, h, r
      <4>2. captured = r + (p - 1) + (h + 1)
        BY <4>1
      <4>3. Len(playing') = p - 1 /\ Len(heard') = h + 1
        BY <2>2, <2>3 DEF p, h
      <4>4. QED
        BY <4>2, <4>3 DEF r
    <3>3. QED
      BY <2>1, <3>2
<1>6. CASE WIM_DATA
  <2>1. /\ UNCHANGED <<captured, playing, heard, closing, failures, overrun>> /\ Faultless
        /\ Len(messages') = Len(messages) - 1
    BY <1>6, Shortened DEF WIM_DATA, capture, playback, history, Faultless, Base, CaptureTypeOK
  <2>2. Handled = 0 /\ Handled' = 1
    BY <1>6 DEF WIM_DATA, Base, ControlOK, Handled, Called, Idle
  <2>3. QED
    BY <1>2, <2>1, <2>2, Lengths
<1>7. CASE AddBuffer
  <2>1. /\ UNCHANGED <<captured, messages, playing, heard, closing, overrun>> /\ "in" \in open
    BY <1>7 DEF AddBuffer, playback, Faultless, Base, ControlOK
  <2>2. ~Fails("add")
    BY FailsCounted, Lengths DEF Faultless, Base
  <2>3. callback.at = "add" /\ callback' = [callback EXCEPT !.at = "added"] /\ UNCHANGED failures
    BY <1>7, <2>1, <2>2 DEF AddBuffer
  <2>4. callback.at # Idle.at /\ callback'.at # Idle.at
    BY <2>3 DEF Idle, Base, CaptureTypeOK, Callbacks
  <2>5. Handled = 1 /\ Handled' = 1 /\ Faultless
    BY <2>1, <2>3, <2>4 DEF Handled, Faultless
  <2>6. QED
    BY <1>2, <2>1, <2>5
<1>12. CASE Playback
  <2>1. /\ UNCHANGED <<captured, messages, playing, heard, closing, failures, overrun>>
        /\ callback.at = "added" /\ callback'.at = "copy"
    BY <1>12 DEF Playback, Base, CaptureTypeOK, Callbacks, capture, playback, history
  <2>2. Handled = 1 /\ Handled' = 1 /\ Faultless
    BY <2>1 DEF Handled, Faultless, Idle
  <2>3. QED
    BY <1>2, <2>1, <2>2
<1>8. CASE Copy
  <2>1. /\ UNCHANGED <<captured, messages, playing, heard, closing, failures>> /\ ~overrun
    BY <1>8 DEF Copy, capture, Overruns, Faultless
  <2>2. callback.at = "copy" /\ callback'.at = "copy"
    BY <1>8 DEF Copy, Base, CaptureTypeOK, Callbacks
  <2>3. Handled = 1 /\ Handled' = 1 /\ Faultless
    BY <2>1, <2>2 DEF Handled, Faultless, Idle
  <2>4. QED
    BY <1>2, <2>1, <2>3
<1>9. CASE Write
  <2>1. /\ UNCHANGED <<captured, messages, heard, closing>> /\ ~overrun /\ "out" \in open
        /\ pos_whdr \notin Elements(playing) /\ callback' = Idle
    BY <1>9 DEF Write, capture, Overruns, Faultless, Base, ControlOK
  <2>2. ~Fails("write")
    BY <1>0, FailsCounted, BoundsAssumption DEF Faultless, Base, PlaybackTypeOK
  <2>3. playing' = Append(playing, pos_whdr) /\ UNCHANGED failures /\ callback.at = "copy"
    BY <1>9, <2>1, <2>2 DEF Write
  <2>4. Len(playing') = Len(playing) + 1
    BY <2>3, Appended DEF Base, PlaybackTypeOK
  <2>5. Handled = 1 /\ Handled' = 0 /\ Faultless
    BY <2>1, <2>3 DEF Handled, Faultless, Idle
  <2>6. QED
    BY <1>2, <2>1, <2>4, <2>5, Lengths
<1>10. CASE os_sound_close
  BY <1>10 DEF os_sound_close, waveInReset, waveInClose, waveOutReset, waveOutClose, Closes, Faultless
<1>11. QED
  BY <1>3, <1>4, <1>5, <1>6, <1>7, <1>12, <1>8, <1>9, <1>10 DEF Next, Driver, WaveInCallback

(* WaveInCallback: whatever the numbers of buffers and headers and         *)
(* whichever calls fail, the buffers are all accounted for while the       *)
(* device is open, and without a failure so is every frame captured.       *)
THEOREM NoFrameLost == Spec => []NothingLost
<1>1. Init => FramesCounted
  <2> SUFFICES ASSUME Init PROVE captured = Len(messages) + Handled + Len(playing) + Len(heard)
    BY DEF FramesCounted
  <2>1. captured = 0 /\ messages = <<>> /\ playing = <<>> /\ heard = <<>> /\ Handled = 0
    BY DEF Init, Handled
  <2>2. QED
    BY <2>1
<1>2. Base /\ FramesCounted => NothingLost
  BY DEF Base, BuffersCounted, FramesCounted, NothingLost, Handled, Adding
<1>3. QED
  BY <1>1, <1>2, InitBase, BaseStep, FramesStep, PTL DEF Spec

-----------------------------------------------------------------------------
(* Until the devices are closed a buffer is in one place: queued, in a     *)
(* message or, until it is added again, in the callback.  While it is      *)
(* copied it is the last one queued, for only the callback adds any.       *)
Apart ==
    closing = "no" =>
        /\ \A i, j \in DOMAIN queued : queued[i] = queued[j] => i = j
        /\ \A i, j \in DOMAIN messages : messages[i] = messages[j] => i = j
        /\ \A i \in DOMAIN queued, j \in DOMAIN messages : queued[i] # messages[j]
        /\ callback.at = "add" =>
              /\ \A i \in DOMAIN queued : queued[i] # callback.wHdr
              /\ \A i \in DOMAIN messages : messages[i] # callback.wHdr
        /\ callback.at \in {"added", "copy"} /\ queued # <<>> => callback.wHdr = queued[Len(queued)]
        /\ callback.at \in {"add", "added"} => dwBytesRecorded[callback.wHdr] = 2
        /\ callback.at = "copy" => callback.len = 2
        /\ \A i \in DOMAIN messages : dwBytesRecorded[messages[i]] = 2

(* The frames since the one in the callback are in the messages, in order. *)
Holds(d, frame) == d[1] = frame /\ d[2] = frame

Current == captured - Len(messages)

Filled ==
    closing = "no" =>
        /\ half = 1 => dataBufferIn[Head(queued)][1] = captured + 1
        /\ \A j \in DOMAIN messages : Holds(dataBufferIn[messages[j]], Current + j)
        /\ callback.at = "add" => Holds(dataBufferIn[callback.wHdr], Current)
        /\ callback.at \in {"added", "copy"} /\ Len(queued) > 1 =>
              Holds(dataBufferIn[callback.wHdr], Current)

(* The frames given to the playback driver are whole, in order, and before *)
(* the one in the callback.                                                *)
Last == IF callback.at = "idle" THEN Current ELSE Current - 1

Playing(i) == dataBufferOut[playing[i]]

Fine == closing = "no" /\ InTime /\ ~overrun

PlayedOK ==
    Fine =>
        /\ callback.at = "copy" => \A h \in 1..callback.copied : dataBufferOut[pos_whdr][h] = Current
        /\ \A i \in DOMAIN playing :
              /\ dwBufferLength[playing[i]] = 2
              /\ Holds(Playing(i), Playing(i)[1]) /\ Playing(i)[1] <= Last
        /\ \A i, j \in DOMAIN playing : i < j => Playing(i)[1] < Playing(j)[1]
        /\ \A i \in DOMAIN heard :
              /\ Len(heard[i]) = 2
              /\ Holds(heard[i], heard[i][1]) /\ heard[i][1] <= Last
        /\ \A i, j \in DOMAIN heard : i < j => heard[i][1] < heard[j][1]
        /\ \A i \in DOMAIN heard, j \in DOMAIN playing : heard[i][1] < Playing(j)[1]

Rings == Apart /\ Filled /\ PlayedOK

LEMMA InitRings == Init => Rings
<1> SUFFICES ASSUME Init PROVE Rings
  OBVIOUS
<1>1. /\ messages = <<>> /\ playing = <<>> /\ heard = <<>> /\ half = 0 /\ callback.at = "idle"
  BY DEF Init, Idle
<1>2. DOMAIN messages = {} /\ DOMAIN playing = {} /\ DOMAIN heard = {}
  BY <1>1
<1>3. \A i, j \in DOMAIN queued : queued[i] = queued[j] => i = j
  <2>1. PICK n \in 0..MAX_IN_BUFFERS : queued \in [1..n -> In]
    BY DEF Init
  <2>2. DOMAIN queued = 1..n /\ (\A i \in 1..n : queued[i] \in Int)
    BY <2>1, BuffersAssumption DEF In
  <2>3. \A i, j \in DOMAIN queued : i < j => queued[i] < queued[j]
    BY DEF Init
  <2>4. ASSUME NEW i \in DOMAIN queued, NEW j \in DOMAIN queued, queued[i] = queued[j] PROVE i = j
    <3>1. ~(i < j) /\ ~(j < i)
      BY <2>2, <2>3, <2>4
    <3>2. i \in Int /\ j \in Int
      BY <2>2
    <3>3. QED
      BY <3>1, <3>2
  <2>5. QED
    BY <2>4
<1>4. QED
  BY <1>1, <1>2, <1>3 DEF Rings, Apart, Filled, PlayedOK

LEMMA CaptureRings == ASSUME Base, Rings, Capture PROVE Rings'
<1>1. /\ queued \in Seq(In) /\ queued # <<>> /\ captured \in Nat /\ closing = "no"
      /\ half \in {0, 1} /\ messages \in Seq(In) /\ dataBufferIn \in [In -> Halves]
      /\ dwBytesRecorded \in [In -> 0..2] /\ Apart /\ Filled /\ PlayedOK
  BY BoundsAssumption DEF Base, CaptureTypeOK, Capture, Frames, Rings
<1>2. /\ Head(queued) = queued[1] /\ Head(queued) \in In
      /\ Len(queued) \in Nat \ {0} /\ DOMAIN queued = 1..Len(queued) /\ 1 \in DOMAIN queued
      /\ Len(messages) \in Nat /\ DOMAIN messages = 1..Len(messages)
  BY <1>1, Shortened, LenProperties
<1>3. \A i \in DOMAIN messages : messages[i] \in In /\ messages[i] # Head(queued)
  <2>1. \A i \in DOMAIN messages : messages[i] \in In
    BY <1>1, <1>2, ElementOfSeq
  <2>2. QED
    BY <1>1, <1>2, <2>1 DEF Apart
<1>4. callback.wHdr \in In
  BY DEF Base, CaptureTypeOK, Callbacks
<1>5. callback.at = "add" => callback.wHdr # Head(queued)
  BY <1>1, <1>2 DEF Apart
<1>6. callback.at \in {"added", "copy"} /\ Len(queued) > 1 => callback.wHdr # Head(queued)
  <2>1. Len(queued) \in DOMAIN queued
    BY <1>2
  <2>2. QED
    BY <1>1, <1>2, <2>1 DEF Apart
<1>7. /\ \A b \in In : b # Head(queued) => dataBufferIn'[b] = dataBufferIn[b]
      /\ dataBufferIn'[Head(queued)][half + 1] = captured + 1
      /\ half = 1 => dataBufferIn'[Head(queued)][1] = dataBufferIn[Head(queued)][1]
  <2>1. dataBufferIn[Head(queued)] \in [{1, 2} -> Frames]
    BY <1>1, <1>2 DEF Halves
  <2>2. dataBufferIn' = [dataBufferIn EXCEPT ![Head(queued)] =
                           [dataBufferIn[Head(queued)] EXCEPT ![half + 1] = captured + 1]]
    BY <1>1, <1>2 DEF Capture
  <2>3. QED
    BY <1>1, <1>2, <2>1, <2>2
<1>8. UNCHANGED <<callback, pos_whdr, dataBufferOut, dwBufferLength, playing, heard, closing, failures,
                  overrun, behind>>
  BY DEF Capture, playback, history
<1>9. CASE half = 0
  <2>1. half' = 1 /\ UNCHANGED <<queued, dwBytesRecorded, messages, captured>>
    BY <1>9 DEF Capture
  <2>2. Apart'
    BY <1>1, <1>8, <2>1 DEF Apart
  <2>3. Filled'
    BY <1>1, <1>2, <1>3, <1>4, <1>5, <1>6, <1>7, <1>8, <1>9, <2>1 DEF Filled, Holds, Current
  <2>4. PlayedOK'
    BY <1>1, <1>8, <2>1 DEF PlayedOK, Holds, Current, Last, Playing, Fine, InTime
  <2>5. QED
    BY <2>2, <2>3, <2>4 DEF Rings
<1>10. CASE half = 1
  <2> DEFINE new == Head(queued)
  <2>1. /\ half' = 0 /\ captured' = captured + 1 /\ queued' = Tail(queued)
        /\ messages' = Append(messages, new)
    BY <1>10 DEF Capture
  <2>2. new \in In /\ new = Head(queued)
    BY <1>2
  <2>r. /\ dwBytesRecorded'[new] = 2
        /\ \A b \in In : dwBytesRecorded[b] = 2 => dwBytesRecorded'[b] = 2
    BY <1>1, <1>10, <2>2 DEF Capture
  <2> HIDE DEF new
  <2>3. /\ messages' \in Seq(In) /\ Len(messages') = Len(messages) + 1
        /\ messages'[Len(messages) + 1] = new
        /\ \A i \in 1..Len(messages) : messages'[i] = messages[i]
    BY <1>1, <2>1, <2>2, Appended
  <2>4. DOMAIN messages' = 1..Len(messages) + 1
    BY <2>3, LenProperties
  <2>5. /\ queued' \in Seq(In) /\ Len(queued') = Len(queued) - 1
        /\ \A i \in 1..Len(queued) - 1 : queued'[i] = queued[i + 1]
    BY <1>1, <2>1, Shortened
  <2>6. DOMAIN queued' = 1..Len(queued) - 1
    BY <1>2, <2>5, LenProperties
  <2>7. \A i \in DOMAIN queued' : i + 1 \in DOMAIN queued /\ i + 1 # 1 /\ queued'[i] = queued[i + 1]
    BY <1>2, <2>5, <2>6
  <2>8. Apart'
    <3>1. \A i, j \in DOMAIN queued' : queued'[i] = queued'[j] => i = j
      <4>1. ASSUME NEW i \in DOMAIN queued', NEW j \in DOMAIN queued', queued'[i] = queued'[j]
            PROVE  i = j
        <5>1. i + 1 = j + 1
          BY <1>1, <2>7, <4>1 DEF Apart
        <5>2. QED
          BY <1>2, <2>6, <5>1
      <4>2. QED
        BY <4>1
    <3>2. \A i, j \in DOMAIN messages' : messages'[i] = messages'[j] => i = j
      BY <1>1, <1>2, <1>3, <2>2, <2>3, <2>4 DEF Apart
    <3>3. \A i \in DOMAIN queued', j \in DOMAIN messages' : queued'[i] # messages'[j]
      BY SMTT(40), <1>1, <1>2, <2>2, <2>3, <2>4, <2>7 DEF Apart
    <3>4. callback.at = "add" =>
              /\ \A i \in DOMAIN queued' : queued'[i] # callback.wHdr
              /\ \A i \in DOMAIN messages' : messages'[i] # callback.wHdr
      BY SMTT(40), <1>1, <1>2, <1>5, <2>2, <2>3, <2>4, <2>7 DEF Apart
    <3>5. callback.at \in {"added", "copy"} /\ queued' # <<>> => callback.wHdr = queued'[Len(queued')]
      <4> SUFFICES ASSUME callback.at \in {"added", "copy"}, queued' # <<>>
                   PROVE  callback.wHdr = queued'[Len(queued')]
        OBVIOUS
      <4>1. Len(queued) - 1 \in 1..Len(queued) - 1
        BY <1>2, <2>5, EmptySeq
      <4>2. queued'[Len(queued')] = queued[Len(queued)]
        BY <1>2, <2>5, <4>1
      <4>3. QED
        BY <1>1, <4>2 DEF Apart
    <3>6. \A i \in DOMAIN messages' : dwBytesRecorded'[messages'[i]] = 2
      BY <1>1, <1>2, <1>3, <2>2, <2>r, <2>3, <2>4 DEF Apart
    <3>8. callback.at \in {"add", "added"} => dwBytesRecorded'[callback.wHdr] = 2
      BY <1>1, <1>4, <2>r DEF Apart
    <3>9. callback.at = "copy" => callback.len = 2
      BY <1>1 DEF Apart
    <3>7. QED
      BY <1>8, <3>1, <3>2, <3>3, <3>4, <3>5, <3>6, <3>8, <3>9 DEF Apart
  <2>9. Current' = Current /\ Current + Len(messages) = captured /\ Current \in Int
    BY <1>1, <1>2, <2>1, <2>3 DEF Current
  <2>10. Filled'
    <3>1. \A j \in DOMAIN messages' : Holds(dataBufferIn'[messages'[j]], Current + j)
      <4>1. ASSUME NEW j \in 1..Len(messages)
            PROVE  Holds(dataBufferIn'[messages'[j]], Current + j)
        BY <1>1, <1>2, <1>3, <1>7, <2>3 DEF Filled, Holds
      <4>2. Holds(dataBufferIn'[new], Current + (Len(messages) + 1))
        <5>1. Current + (Len(messages) + 1) = captured + 1
          BY <1>1, <1>2, <2>9
        <5>2. dataBufferIn'[new][1] = captured + 1 /\ dataBufferIn'[new][2] = captured + 1
          BY <1>1, <1>7, <1>10, <2>2 DEF Filled
        <5>3. QED
          BY <5>1, <5>2 DEF Holds
      <4>3. QED
        BY <1>2, <2>3, <2>4, <4>1, <4>2
    <3>2. callback.at = "add" => Holds(dataBufferIn'[callback.wHdr], Current)
      BY <1>1, <1>4, <1>5, <1>7 DEF Filled, Holds
    <3>3. callback.at \in {"added", "copy"} /\ Len(queued') > 1 =>
              Holds(dataBufferIn'[callback.wHdr], Current)
      BY <1>1, <1>2, <1>4, <1>6, <1>7, <2>5 DEF Filled, Holds
    <3>4. QED
      BY <1>8, <2>1, <2>9, <3>1, <3>2, <3>3 DEF Filled, Holds
  <2>11. PlayedOK'
    BY <1>1, <1>8, <2>9 DEF PlayedOK, Holds, Last, Playing, Fine, InTime
  <2>12. QED
    BY <2>8, <2>10, <2>11 DEF Rings
<1>11. QED
  BY <1>1, <1>9, <1>10

LEMMA PlayRings == ASSUME Base, Rings, Play PROVE Rings'
<1>1. /\ playing \in Seq(Out) /\ playing # <<>> /\ heard \in Seq(Seq(Frames))
      /\ playing' = Tail(playing) /\ Apart /\ Filled /\ PlayedOK
      /\ UNCHANGED <<capture, messages, callback, pos_whdr, dataBufferOut, dwBufferLength, closing,
                     open, history>>
  BY DEF Base, PlaybackTypeOK, Play, Rings
<1>2. Apart' /\ Filled'
  BY <1>1 DEF Apart, Filled, Holds, Current, capture
<1>3. ASSUME Fine' PROVE PlayedOK'
  <2>1. Fine
    BY <1>1, <1>3 DEF Fine, InTime, history
  <2>2. /\ Len(playing) \in Nat \ {0} /\ Len(playing') = Len(playing) - 1 /\ playing' \in Seq(Out)
        /\ Head(playing) = playing[1]
        /\ \A i \in 1..Len(playing) - 1 : playing'[i] = playing[i + 1]
    BY <1>1, Shortened
  <2>3. DOMAIN playing = 1..Len(playing) /\ DOMAIN playing' = 1..Len(playing) - 1 /\ 1 \in DOMAIN playing
    BY <1>1, <2>2, LenProperties
  <2>4. \A i \in DOMAIN playing' : /\ i + 1 \in DOMAIN playing /\ 1 < i + 1
                                   /\ playing'[i] = playing[i + 1] /\ Playing(i)' = Playing(i + 1)
    BY <1>1, <2>2, <2>3 DEF Playing
  <2> DEFINE new == SubSeq(dataBufferOut[Head(playing)], 1, dwBufferLength[Head(playing)])
  <2>5. /\ new \in Seq(Frames) /\ Len(new) = 2 /\ new[1] = Playing(1)[1] /\ new[2] = Playing(1)[2]
    <3>1. dwBufferLength[Head(playing)] = 2
      BY <1>1, <2>1, <2>2, <2>3 DEF PlayedOK
    <3>2. playing[1] \in Out
      BY <1>1, <2>3, ElementOfSeq
    <3>3. dataBufferOut[playing[1]] \in [1..2 -> Frames]
      BY <3>2 DEF Base, PlaybackTypeOK, Halves
    <3>4. \A d \in [1..2 -> Frames] :
             /\ SubSeq(d, 1, 2) \in Seq(Frames) /\ Len(SubSeq(d, 1, 2)) = 2
             /\ SubSeq(d, 1, 2)[1] = d[1] /\ SubSeq(d, 1, 2)[2] = d[2]
      BY HalvesPlayed
    <3>5. QED
      BY <2>2, <3>1, <3>3, <3>4 DEF Playing
  <2>6. heard' = Append(heard, new)
    BY DEF Play
  <2> HIDE DEF new
  <2>7. /\ Len(heard) \in Nat /\ heard' \in Seq(Seq(Frames)) /\ Len(heard') = Len(heard) + 1
        /\ heard'[Len(heard) + 1] = new
        /\ \A i \in 1..Len(heard) : heard'[i] = heard[i]
    BY <1>1, <2>5, <2>6, Appended
  <2>8. DOMAIN heard = 1..Len(heard) /\ DOMAIN heard' = 1..Len(heard) + 1
    BY <1>1, <2>7, LenProperties
  <2>9. Last' = Last
    BY <1>1 DEF Last, Current, capture
  <2>10. \A i \in DOMAIN heard' : \/ i \in DOMAIN heard /\ heard'[i] = heard[i]
                                  \/ i = Len(heard) + 1 /\ heard'[i] = new
    <3>1. ASSUME NEW i \in DOMAIN heard', i # Len(heard) + 1
          PROVE  i \in DOMAIN heard /\ heard'[i] = heard[i]
      BY <2>7, <2>8, <3>1
    <3>2. QED
      BY <2>7, <3>1
  <2>11. \A i \in DOMAIN playing' :
            /\ dwBufferLength'[playing'[i]] = 2
            /\ Holds(Playing(i), Playing(i)[1])' /\ Playing(i)'[1] <= Last
    BY <1>1, <2>1, <2>4 DEF PlayedOK, Holds
  <2>12. \A i, j \in DOMAIN playing' : i < j => Playing(i)'[1] < Playing(j)'[1]
    <3>1. ASSUME NEW i \in DOMAIN playing', NEW j \in DOMAIN playing', i < j
          PROVE  Playing(i)'[1] < Playing(j)'[1]
      <4>1. i + 1 < j + 1
        BY <2>2, <2>3, <3>1
      <4>2. QED
        BY <1>1, <2>1, <2>4, <4>1 DEF PlayedOK
    <3>2. QED
      BY <3>1
  <2>13. \A i \in DOMAIN heard' :
            /\ Len(heard'[i]) = 2 /\ Holds(heard'[i], heard'[i][1]) /\ heard'[i][1] <= Last
    BY <1>1, <2>1, <2>3, <2>5, <2>10 DEF PlayedOK, Holds
  <2>14. \A i, j \in DOMAIN heard' : i < j => heard'[i][1] < heard'[j][1]
    <3>1. ASSUME NEW i \in DOMAIN heard', NEW j \in DOMAIN heard', i < j
          PROVE  heard'[i][1] < heard'[j][1]
      <4>1. i \in DOMAIN heard /\ heard'[i] = heard[i]
        BY <2>7, <2>8, <3>1
      <4>2. CASE j \in DOMAIN heard /\ heard'[j] = heard[j]
        BY <1>1, <2>1, <3>1, <4>1, <4>2 DEF PlayedOK
      <4>3. CASE heard'[j] = new
        BY <1>1, <2>1, <2>3, <2>5, <4>1, <4>3 DEF PlayedOK
      <4>4. QED
        BY <2>10, <4>2, <4>3
    <3>2. QED
      BY <3>1
  <2>15. \A i \in DOMAIN heard', j \in DOMAIN playing' : heard'[i][1] < Playing(j)'[1]
    <3> SUFFICES ASSUME NEW i \in DOMAIN heard', NEW j \in DOMAIN playing'
                 PROVE  heard'[i][1] < Playing(j)'[1]
      OBVIOUS
    <3>1. j + 1 \in DOMAIN playing /\ 1 < j + 1 /\ Playing(j)' = Playing(j + 1)
      BY <2>4
    <3>2. CASE i \in DOMAIN heard /\ heard'[i] = heard[i]
      BY <1>1, <2>1, <3>1, <3>2 DEF PlayedOK
    <3>3. CASE heard'[i] = new
      BY <1>1, <2>1, <2>3, <2>5, <3>1, <3>3 DEF PlayedOK
    <3>4. QED
      BY <2>10, <3>2, <3>3
  <2>16. callback'.at = "copy" => \A h \in 1..callback'.copied : dataBufferOut'[pos_whdr'][h] = Current'
    BY <1>1, <2>1 DEF PlayedOK, Current, capture
  <2>17. QED
    BY <2>9, <2>11, <2>12, <2>13, <2>14, <2>15, <2>16 DEF PlayedOK
<1>4. QED
  BY <1>2, <1>3 DEF Rings, PlayedOK

LEMMA MessageRings == ASSUME Base, Rings, WIM_DATA PROVE Rings'
<1>1. /\ messages \in Seq(In) /\ messages # <<>> /\ callback.at = "idle"
      /\ callback' = Called(Head(messages)) /\ messages' = Tail(messages)
      /\ UNCHANGED <<capture, playback, closing, open, history>>
      /\ captured \in Nat /\ Apart /\ Filled /\ PlayedOK
  BY BoundsAssumption DEF Base, CaptureTypeOK, WIM_DATA, Rings, Frames
<1>2. /\ Head(messages) \in In /\ messages' \in Seq(In) /\ Head(messages) = messages[1]
      /\ Len(messages') = Len(messages) - 1 /\ Len(messages) \in Nat \ {0}
      /\ \A i \in 1..Len(messages) - 1 : messages'[i] = messages[i + 1]
  BY <1>1, Shortened
<1>3. DOMAIN messages = 1..Len(messages) /\ DOMAIN messages' = 1..Len(messages) - 1 /\ 1 \in DOMAIN messages
  BY <1>1, <1>2, LenProperties
<1>4. \A i \in DOMAIN messages' : i + 1 \in DOMAIN messages /\ i + 1 # 1 /\ messages'[i] = messages[i + 1]
  BY <1>2, <1>3
<1>5. callback'.at = "add" /\ callback'.wHdr = messages[1]
  BY <1>1, <1>2 DEF Called
<1>6. Current' = Current + 1 /\ Current \in Int /\ Last' = Last
  BY <1>1, <1>2, <1>5 DEF Current, Last, capture
<1>7. Apart'
  <2>1. \A i, j \in DOMAIN messages' : messages'[i] = messages'[j] => (closing = "no" => i = j)
    <3>1. ASSUME NEW i \in DOMAIN messages', NEW j \in DOMAIN messages', closing = "no",
                 messages'[i] = messages'[j]
          PROVE  i = j
      <4>1. i + 1 = j + 1
        BY <1>1, <1>4, <3>1 DEF Apart
      <4>2. QED
        BY <1>2, <1>3, <4>1
    <3>2. QED
      BY <3>1
  <2>2. QED
    BY <1>1, <1>3, <1>4, <1>5, <2>1 DEF Apart, capture
<1>8. Filled'
  <2>1. ASSUME closing = "no", NEW j \in DOMAIN messages'
        PROVE  Holds(dataBufferIn[messages'[j]], Current' + j)
    <3>1. Current' + j = Current + (j + 1)
      BY <1>2, <1>3, <1>6
    <3>2. QED
      BY <1>1, <1>4, <2>1, <3>1 DEF Filled
  <2>2. closing = "no" => Holds(dataBufferIn[messages[1]], Current')
    BY <1>1, <1>3, <1>6 DEF Filled
  <2>3. QED
    BY <1>1, <1>5, <2>1, <2>2 DEF Filled, Holds, capture
<1>9. PlayedOK'
  BY <1>1, <1>5, <1>6 DEF PlayedOK, Holds, Playing, Fine, InTime, playback, history
<1>10. QED
  BY <1>7, <1>8, <1>9 DEF Rings

LEMMA FramesAreNumbers ==
    ASSUME Base, PlayedOK, Fine
    PROVE  /\ \A i \in DOMAIN playing : Playing(i)[1] \in Nat
           /\ \A i \in DOMAIN heard : heard[i][1] \in Nat
<1>1. ASSUME NEW i \in DOMAIN playing PROVE Playing(i)[1] \in Nat
  <2>1. playing \in Seq(Out) /\ dataBufferOut \in [Out -> [{1, 2} -> Frames]]
    BY DEF Base, PlaybackTypeOK, Halves
  <2>2. playing[i] \in Out
    BY <1>1, <2>1, LenProperties, ElementOfSeq
  <2>3. Playing(i)[1] \in Frames
    BY <2>1, <2>2 DEF Playing
  <2>4. QED
    BY <2>3, BoundsAssumption DEF Frames
<1>2. ASSUME NEW i \in DOMAIN heard PROVE heard[i][1] \in Nat
  <2>1. heard[i] \in Seq(Frames)
    BY <1>2, LenProperties, ElementOfSeq DEF Base, PlaybackTypeOK
  <2>2. Len(heard[i]) = 2
    BY <1>2 DEF PlayedOK
  <2>3. heard[i][1] \in Frames
    BY SMTT(40), <2>1, <2>2, ElementOfSeq
  <2>4. QED
    BY <2>3, BoundsAssumption DEF Frames
<1>3. QED
  BY <1>1, <1>2

LEMMA AddRings == ASSUME Base, Rings, AddBuffer PROVE Rings'
<1>1. /\ callback.at = "add" /\ callback \in Callbacks /\ callback.copied = 0
      /\ queued \in Seq(In) /\ callback.wHdr \in In /\ Apart /\ Filled /\ PlayedOK
      /\ UNCHANGED <<half, dataBufferIn, dwBytesRecorded, captured, messages, playback, closing, open,
                     overrun, behind>>
      /\ Current \in Int
  BY DEF Base, CaptureTypeOK, ControlOK, AddBuffer, Rings, Callbacks, Current, Frames
<1>2. CASE queued' = Append(queued, callback.wHdr) /\ callback' = [callback EXCEPT !.at = "added"]
           /\ UNCHANGED failures
  <2>1. /\ queued' \in Seq(In) /\ Len(queued') = Len(queued) + 1 /\ queued' # <<>>
        /\ queued'[Len(queued) + 1] = callback.wHdr /\ Len(queued) \in Nat
        /\ \A i \in 1..Len(queued) : queued'[i] = queued[i]
    BY <1>1, <1>2, Appended
  <2>2. DOMAIN queued = 1..Len(queued) /\ DOMAIN queued' = 1..Len(queued) + 1
    BY <1>1, <2>1, LenProperties
  <2>3. \A i \in DOMAIN queued' : \/ i \in DOMAIN queued /\ queued'[i] = queued[i]
                                  \/ i = Len(queued) + 1 /\ queued'[i] = callback.wHdr
    <3>1. ASSUME NEW i \in DOMAIN queued', i # Len(queued) + 1
          PROVE  i \in DOMAIN queued /\ queued'[i] = queued[i]
      BY <2>1, <2>2, <3>1
    <3>2. QED
      BY <2>1, <3>1
  <2>4. callback'.at = "added" /\ callback'.wHdr = callback.wHdr /\ callback'.len = callback.len
        /\ callback'.copied = 0
    BY <1>1, <1>2 DEF Callbacks
  <2>5. Apart'
    <3>1. ASSUME closing = "no", NEW i \in DOMAIN queued', NEW j \in DOMAIN queued',
                 queued'[i] = queued'[j]
          PROVE  i = j
      <4>1. ASSUME NEW k \in DOMAIN queued PROVE queued[k] # callback.wHdr
        BY <1>1, <3>1 DEF Apart
      <4>2. ASSUME NEW k \in DOMAIN queued, NEW l \in DOMAIN queued, queued[k] = queued[l] PROVE k = l
        BY <1>1, <3>1, <4>2 DEF Apart
      <4>3. QED
        BY <2>3, <3>1, <4>1, <4>2
    <3>2. ASSUME closing = "no", NEW i \in DOMAIN queued', NEW j \in DOMAIN messages
          PROVE  queued'[i] # messages[j]
      BY <1>1, <2>3, <3>2 DEF Apart
    <3>3. QED
      BY <1>1, <2>1, <2>4, <3>1, <3>2 DEF Apart
  <2>6. Filled'
    <3>1. half = 1 => queued # <<>>
      BY DEF Base, ControlOK
    <3>2. half = 1 => Head(queued') = Head(queued)
      <4>1. ASSUME half = 1 PROVE queued'[1] = queued[1]
        <5>1. Len(queued) # 0
          BY <1>1, <3>1, <4>1, EmptySeq
        <5>2. QED
          BY <2>1, <5>1
      <4>2. half = 1 => Head(queued) = queued[1] /\ Head(queued') = queued'[1]
        BY <1>1, <2>1, <3>1, Shortened
      <4>3. QED
        BY <4>1, <4>2
    <3>3. QED
      BY <1>1, <2>4, <3>2 DEF Filled, Holds, Current
  <2>7. PlayedOK'
    BY <1>1, <1>2, <2>4 DEF PlayedOK, Holds, Playing, Fine, InTime, Last, Current, playback
  <2>8. QED
    BY <2>5, <2>6, <2>7 DEF Rings
<1>3. CASE callback' = Idle /\ queued' = queued /\ (UNCHANGED failures \/ Fails("add"))
  <2>1. callback'.at = "idle"
    BY <1>3 DEF Idle
  <2>2. Apart' /\ Filled'
    BY <1>1, <1>3, <2>1 DEF Apart, Filled, Holds, Current
  <2>3. Fine' => Fine
    <3>1. failures'["add"] >= failures["add"] /\ failures["add"] \in Nat /\ failures'["add"] \in Nat
      BY <1>3, FailsCounted, BoundsAssumption DEF Base, PlaybackTypeOK
    <3>2. InTime' => InTime
      BY <1>1, <3>1, BuffersAssumption DEF InTime, Base, PlaybackTypeOK
    <3>3. QED
      BY <1>1, <3>2 DEF Fine
  <2>4. Last' = Last + 1 /\ Last \in Int
    BY <1>1, <2>1 DEF Last, Current
  <2>5. PlayedOK'
    <3> SUFFICES ASSUME Fine' PROVE PlayedOK'
      BY DEF PlayedOK
    <3>1. Fine
      BY <2>3
    <3>2. \A i \in DOMAIN playing : Playing(i)[1] <= Last'
      BY <1>1, <2>4, <3>1, FramesAreNumbers DEF PlayedOK
    <3>3. \A i \in DOMAIN heard : heard[i][1] <= Last'
      BY <1>1, <2>4, <3>1, FramesAreNumbers DEF PlayedOK
    <3>4. QED
      BY <1>1, <2>1, <3>1, <3>2, <3>3 DEF PlayedOK, Holds, Playing, playback
  <2>6. QED
    BY <2>2, <2>5 DEF Rings
<1>4. QED
  BY <1>2, <1>3 DEF AddBuffer

LEMMA PlaybackRings == ASSUME Base, Rings, Playback PROVE Rings'
<1>1. /\ callback.at = "added" /\ callback \in Callbacks /\ callback.copied = 0
      /\ callback' = [callback EXCEPT !.at = "copy", !.len = dwBytesRecorded[callback.wHdr]]
      /\ Apart /\ Filled /\ PlayedOK
      /\ UNCHANGED <<capture, messages, playback, closing, open, history>>
  BY DEF Base, CaptureTypeOK, ControlOK, Playback, Rings
<1>2. /\ callback'.at = "copy" /\ callback'.wHdr = callback.wHdr /\ callback'.copied = 0
      /\ callback'.len = dwBytesRecorded[callback.wHdr]
  BY <1>1 DEF Callbacks
<1>3. Apart' /\ Filled'
  BY <1>1, <1>2 DEF Apart, Filled, Holds, Current, capture
<1>4. PlayedOK'
  BY <1>1, <1>2 DEF PlayedOK, Holds, Last, Current, Playing, Fine, InTime, capture, playback, history
<1>5. QED
  BY <1>3, <1>4 DEF Rings

(* As long as the callback is in time the buffer it copies from has        *)
(* another one before it in the queue.                                     *)
LEMMA CopyRings == ASSUME Base, Rings, Copy PROVE Rings'
<1> DEFINE h == callback.copied + 1
<1>1. /\ callback.at = "copy" /\ callback \in Callbacks /\ callback.copied < callback.len
      /\ callback' = [callback EXCEPT !.copied = h]
      /\ dataBufferOut' = [dataBufferOut EXCEPT ![pos_whdr][h] = dataBufferIn[callback.wHdr][h]]
      /\ Apart /\ Filled /\ PlayedOK
      /\ UNCHANGED <<capture, messages, pos_whdr, dwBufferLength, playing, heard, closing, open, failures>>
  BY DEF Base, CaptureTypeOK, Copy, Rings
<1>2. /\ callback'.at = "copy" /\ callback'.wHdr = callback.wHdr /\ callback'.len = callback.len
      /\ callback'.copied = h /\ callback.copied \in {0, 1} /\ h \in {1, 2}
  <2>1. callback.copied \in 0..2 /\ callback.len \in 0..2 /\ callback.copied < callback.len
    BY <1>1 DEF Callbacks
  <2>2. callback.copied \in {0, 1} /\ h \in {1, 2}
    BY <2>1
  <2> HIDE DEF h
  <2>3. QED
    BY <1>1, <2>2 DEF Callbacks
<1>3. Apart' /\ Filled'
  BY <1>1, <1>2 DEF Apart, Filled, Holds, Current, capture
<1>4. Last' = Last /\ Current' = Current
  BY <1>1, <1>2 DEF Last, Current, capture
<1>5. ASSUME Fine' PROVE PlayedOK'
  <2>0. /\ behind' = IF Len(messages) > behind THEN Len(messages) ELSE behind
        /\ overrun' = (overrun \/ pos_whdr \in Elements(playing))
    BY DEF Copy, Overruns
  <2>1. /\ closing = "no" /\ ~overrun /\ pos_whdr \notin Elements(playing)
        /\ behind' < MAX_IN_BUFFERS - failures["add"] - 1
    BY <1>1, <1>5, <2>0 DEF Fine, InTime
  <2>2. /\ Len(messages) \in Nat /\ Len(queued) \in Nat /\ failures["add"] \in Nat /\ behind \in Nat
    BY Lengths, BuffersAssumption DEF Base, PlaybackTypeOK
  <2>3. behind' >= Len(messages) /\ behind' >= behind /\ behind' \in Nat
    BY <2>0, <2>2
  <2>4. Fine
    BY <2>1, <2>2, <2>3, BuffersAssumption DEF Fine, InTime
  <2>5. Len(queued) > 1
    <3>1. Len(queued) + Len(messages) + failures["add"] = MAX_IN_BUFFERS
      BY <1>1, <2>1, <2>2 DEF Base, ControlOK, BuffersCounted, Adding
    <3>2. QED
      BY <2>1, <2>2, <2>3, <3>1, BuffersAssumption
  <2>6. dataBufferIn[callback.wHdr][h] = Current
    BY <1>1, <1>2, <2>1, <2>5 DEF Filled, Holds
  <2>7. pos_whdr \in Out /\ dataBufferOut \in [Out -> [{1, 2} -> Frames]] /\ playing \in Seq(Out)
    BY DEF Base, PlaybackTypeOK, Halves
  <2>8. dataBufferOut' = [dataBufferOut EXCEPT ![pos_whdr] =
                            [dataBufferOut[pos_whdr] EXCEPT ![h] = Current]]
    BY <1>1, <2>6, <2>7
  <2> HIDE DEF h
  <2>9. /\ dataBufferOut'[pos_whdr][h] = Current
        /\ \A g \in {1, 2} : g # h => dataBufferOut'[pos_whdr][g] = dataBufferOut[pos_whdr][g]
        /\ \A o \in Out : o # pos_whdr => dataBufferOut'[o] = dataBufferOut[o]
    BY <1>2, <2>7, <2>8
  <2>10. \A i \in DOMAIN playing : Playing(i)' = Playing(i)
    <3>1. \A i \in DOMAIN playing : playing[i] \in Out /\ playing[i] # pos_whdr
      BY <2>1, <2>7, LenProperties, ElementOfSeq DEF Elements
    <3>2. QED
      BY <1>1, <2>9, <3>1 DEF Playing
  <2>11. \A g \in 1..h : dataBufferOut'[pos_whdr][g] = Current
    <3>1. ASSUME NEW g \in 1..h, g # h PROVE g \in 1..callback.copied /\ g \in {1, 2}
      BY <1>2, <3>1 DEF h
    <3>2. \A g \in 1..callback.copied : dataBufferOut[pos_whdr][g] = Current
      BY <1>1, <2>4 DEF PlayedOK
    <3>3. QED
      BY <2>9, <3>1, <3>2
  <2>12. callback'.at = "copy" => \A g \in 1..callback'.copied : dataBufferOut'[pos_whdr'][g] = Current'
    BY <1>1, <1>2, <1>4, <2>11
  <2>13. \A i \in DOMAIN playing' :
            /\ dwBufferLength'[playing'[i]] = 2
            /\ Holds(Playing(i), Playing(i)[1])' /\ Playing(i)'[1] <= Last'
    BY <1>1, <1>4, <2>4, <2>10 DEF PlayedOK, Holds
  <2>14. \A i, j \in DOMAIN playing' : i < j => Playing(i)'[1] < Playing(j)'[1]
    BY <1>1, <2>4, <2>10 DEF PlayedOK
  <2>15. \A i \in DOMAIN heard', j \in DOMAIN playing' : heard'[i][1] < Playing(j)'[1]
    BY <1>1, <2>4, <2>10 DEF PlayedOK
  <2>16. /\ \A i \in DOMAIN heard' :
              Len(heard'[i]) = 2 /\ Holds(heard'[i], heard'[i][1]) /\ heard'[i][1] <= Last'
         /\ \A i, j \in DOMAIN heard' : i < j => heard'[i][1] < heard'[j][1]
    BY <1>1, <1>4, <2>4 DEF PlayedOK
  <2>17. QED
    BY <2>12, <2>13, <2>14, <2>15, <2>16 DEF PlayedOK
<1>6. QED
  BY <1>3, <1>5 DEF Rings, PlayedOK

LEMMA WriteRings == ASSUME Base, Rings, Write PROVE Rings'
<1>1. /\ callback.at = "copy" /\ callback.copied = callback.len
      /\ dwBufferLength' = [dwBufferLength EXCEPT ![pos_whdr] = callback.len]
      /\ callback' = Idle /\ Apart /\ Filled /\ PlayedOK
      /\ UNCHANGED <<capture, messages, dataBufferOut, heard, closing, open, behind>>
      /\ Current \in Int
  BY DEF Write, Rings, Base, CaptureTypeOK, Frames, Current
<1>2. callback'.at = "idle"
  BY <1>1 DEF Idle
<1>3. Apart' /\ Filled'
  BY <1>1, <1>2 DEF Apart, Filled, Holds, Current, capture
<1>4. Last = Current - 1 /\ Last' = Current
  BY <1>1, <1>2 DEF Last, Current, capture
<1>5. ASSUME Fine' PROVE PlayedOK'
  <2>1. failures'["add"] = failures["add"]
    <3>1. failures' = failures \/ Fails("write")
      BY DEF Write
    <3>2. QED
      BY <3>1, FailsCounted DEF Base
  <2>2. Fine /\ pos_whdr \notin Elements(playing) /\ closing = "no"
    BY <1>1, <1>5, <2>1 DEF Fine, InTime, Write, Overruns
  <2>3. pos_whdr \in Out /\ playing \in Seq(Out) /\ dwBufferLength \in [Out -> 0..2]
    BY DEF Base, PlaybackTypeOK
  <2>4. callback.len = 2 /\ callback.copied = 2
    BY <1>1, <2>2 DEF Apart
  <2>5. Holds(dataBufferOut[pos_whdr], Current)
    <3>1. \A h \in 1..2 : dataBufferOut[pos_whdr][h] = Current
      BY <1>1, <2>2, <2>4 DEF PlayedOK
    <3>2. QED
      BY <3>1 DEF Holds
  <2>6. DOMAIN playing = 1..Len(playing) /\ Len(playing) \in Nat
    BY <2>3, LenProperties
  <2>7. \A i \in DOMAIN playing : playing[i] \in Out /\ playing[i] # pos_whdr
    BY <2>2, <2>3, <2>6, ElementOfSeq DEF Elements
  <2>8. /\ dwBufferLength'[pos_whdr] = 2
        /\ \A i \in DOMAIN playing : dwBufferLength'[playing[i]] = 2
    BY <1>1, <2>2, <2>3, <2>4, <2>7 DEF PlayedOK
  <2>9. /\ \A i \in DOMAIN playing : /\ Holds(Playing(i), Playing(i)[1])
                                     /\ Playing(i)[1] < Current /\ Playing(i)[1] \in Nat
        /\ \A i \in DOMAIN heard : heard[i][1] < Current /\ heard[i][1] \in Nat
    BY <1>1, <1>4, <2>2, FramesAreNumbers DEF PlayedOK
  <2>10. \A i \in DOMAIN playing' :
            \/ /\ i \in DOMAIN playing /\ playing'[i] = playing[i] /\ Playing(i)' = Playing(i)
            \/ /\ i = Len(playing) + 1 /\ playing'[i] = pos_whdr
               /\ Playing(i)' = dataBufferOut[pos_whdr]
    <3>1. CASE playing' = playing
      BY <1>1, <3>1 DEF Playing
    <3>2. CASE playing' = Append(playing, pos_whdr)
      <4>1. /\ playing' \in Seq(Out) /\ Len(playing') = Len(playing) + 1
            /\ playing'[Len(playing) + 1] = pos_whdr
            /\ \A i \in 1..Len(playing) : playing'[i] = playing[i]
        BY <2>3, <3>2, Appended
      <4>2. DOMAIN playing' = 1..Len(playing) + 1
        BY <4>1, LenProperties
      <4>3. ASSUME NEW i \in DOMAIN playing', i # Len(playing) + 1
            PROVE  i \in DOMAIN playing /\ playing'[i] = playing[i]
        BY <2>6, <4>1, <4>2, <4>3
      <4>4. QED
        BY <1>1, <4>1, <4>3 DEF Playing
    <3>3. QED
      BY <3>1, <3>2 DEF Write
  <2>11. \A i \in DOMAIN playing' :
            /\ dwBufferLength'[playing'[i]] = 2
            /\ Holds(Playing(i), Playing(i)[1])' /\ Playing(i)'[1] <= Last'
    BY <1>1, <1>4, <2>5, <2>8, <2>9, <2>10 DEF Holds
  <2>12. ASSUME NEW i \in DOMAIN playing', NEW j \in DOMAIN playing', i < j
         PROVE  Playing(i)'[1] < Playing(j)'[1]
    <3>1. i \in DOMAIN playing /\ Playing(i)' = Playing(i)
      BY <2>6, <2>10, <2>12
    <3>2. CASE j \in DOMAIN playing /\ Playing(j)' = Playing(j)
      BY <1>1, <2>2, <2>12, <3>1, <3>2 DEF PlayedOK
    <3>3. CASE Playing(j)' = dataBufferOut[pos_whdr]
      BY <2>5, <2>9, <3>1, <3>3 DEF Holds
    <3>4. QED
      BY <2>10, <3>2, <3>3
  <2>13. ASSUME NEW i \in DOMAIN heard, NEW j \in DOMAIN playing'
         PROVE  heard[i][1] < Playing(j)'[1]
    <3>1. CASE j \in DOMAIN playing /\ Playing(j)' = Playing(j)
      BY <1>1, <2>2, <3>1 DEF PlayedOK
    <3>2. CASE Playing(j)' = dataBufferOut[pos_whdr]
      BY <2>5, <2>9, <3>2 DEF Holds
    <3>3. QED
      BY <2>10, <3>1, <3>2
  <2>14. /\ \A i \in DOMAIN heard' :
              Len(heard'[i]) = 2 /\ Holds(heard'[i], heard'[i][1]) /\ heard'[i][1] <= Last'
         /\ \A i, j \in DOMAIN heard' : i < j => heard'[i][1] < heard'[j][1]
    BY <1>1, <1>4, <2>2, <2>9 DEF PlayedOK
  <2>15. callback'.at # "copy" /\ heard' = heard
    BY <1>1, <1>2
  <2>16. QED
    BY <2>11, <2>12, <2>13, <2>14, <2>15 DEF PlayedOK
<1>6. QED
  BY <1>3, <1>5 DEF Rings, PlayedOK

LEMMA RingsStep == Base /\ Rings /\ [Next]_vars => Rings'
<1>1. ASSUME Rings, UNCHANGED vars PROVE Rings'
  BY <1>1 DEF Rings, Apart, Filled, PlayedOK, Holds, Current, Last, Playing, Fine, InTime, vars,
     capture, playback, history
<1>2. ASSUME os_sound_close PROVE Rings'
  <2>1. closing' # "no"
    BY <1>2 DEF os_sound_close, waveInReset, waveInClose, waveOutReset, waveOutClose, Closes
  <2>2. QED
    BY <2>1 DEF Rings, Apart, Filled, PlayedOK, Fine
<1>3. QED
  BY <1>1, <1>2, CaptureRings, PlayRings, MessageRings, AddRings, PlaybackRings, CopyRings, WriteRings
     DEF Next, Driver, WaveInCallback

(* playbackwave: for every number of buffers and headers, though a buffer  *)
(* is given back before it is copied, the frames heard are whole and in    *)
(* the order of their capture while the callback is in time.               *)
THEOREM HeardInOrder == Spec => []HeardAsCaptured
<1>1. Base /\ Rings => HeardAsCaptured
  <2> SUFFICES ASSUME Base, PlayedOK, Fine
               PROVE  /\ \A i \in DOMAIN heard : Len(heard[i]) = 2 /\ heard[i][1] = heard[i][2]
                      /\ \A i, j \in DOMAIN heard : i < j => heard[i][1] < heard[j][1]
    BY DEF Rings, Fine, HeardAsCaptured
  <2>1. QED
    BY DEF PlayedOK, Holds
<1>2. QED
  BY <1>1, InitBase, BaseStep, InitRings, RingsStep, PTL DEF Spec

OverrunTypeOK == overrun \in BOOLEAN

(* The buffers, the headers and the messages keep their types.             *)
THEOREM WaveTypeCorrect == Spec => []TypeOK
<1>1. Init => OverrunTypeOK
  BY DEF Init, OverrunTypeOK
<1>2. OverrunTypeOK /\ [Next]_vars => OverrunTypeOK'
  <2>1. overrun' = overrun \/ overrun' = (overrun \/ pos_whdr \in Elements(playing))
        => (overrun \in BOOLEAN => overrun' \in BOOLEAN)
    OBVIOUS
  <2>2. [Next]_vars => \/ overrun' = overrun
                      \/ overrun' = (overrun \/ pos_whdr \in Elements(playing))
    BY DEF Next, Driver, WaveInCallback, os_sound_close, Capture, Play, WIM_DATA, AddBuffer, Playback,
       Copy, Write, waveInReset, waveInClose, waveOutReset, waveOutClose, Overruns, vars, history
  <2>3. QED
    BY <2>1, <2>2 DEF OverrunTypeOK
<1>3. Base /\ OverrunTypeOK => TypeOK
  BY DEF OverrunTypeOK, Base, CaptureTypeOK, PlaybackTypeOK, TypeOK, Callbacks
<1>4. QED
  BY <1>1, <1>2, <1>3, InitBase, BaseStep, PTL DEF Spec

=============================================================================
