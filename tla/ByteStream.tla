------------------------------ MODULE ByteStream ------------------------------
(***************************************************************************)
(* NAL units through an Annex B file: the encoder escapes each payload and *)
(* writes it after a start code (lencod: nal.c, nalu.c, annexb.c); the     *)
(* decoder finds the start codes again, takes the trailing zeros off and   *)
(* undoes the escaping in the buffer of the NAL unit, which still holds    *)
(* the bytes of the unit before (ldecod: annexb.c, nal.c).                 *)
(*                                                                         *)
(* A payload is a sequence of bytes that ends with the byte of the stop    *)
(* bit, which is never 0.                                                  *)
(***************************************************************************)
EXTENDS Integers, SequencesExt

CONSTANTS
    Bytes,          \* the values of the bytes of a payload before its last
    LastBytes,      \* and of the last, which holds the stop bit and is never 0
    HEADER,         \* the first byte of a NAL unit, never 0
    MaxLen,         \* bytes of all payloads together
    MaxUnits,       \* NAL units in the file
    Stuffing,       \* the least lengths asked for by CABAC stuffing
    MaxZeros        \* most zero bytes an external multiplexer puts after a unit

Octets == 0..255

ASSUME StreamAssumption ==
    /\ Bytes \subseteq Octets /\ LastBytes \subseteq Octets \ {0} /\ HEADER \in Octets \ {0}
    /\ MaxLen \in Nat /\ Stuffing \subseteq Nat /\ MaxZeros \in Nat

ZEROBYTES_SHORTSTARTCODE == 2

VARIABLES
    file,           \* the bytes of the file
    sent,           \* history: the payload of every unit, and whether it was stuffed
    pos,            \* bytes of the file read
    buf,            \* nalu->buf after its first byte, from the last unit read
    got             \* the payloads the decoder has read

streamVars == <<file, sent, pos, buf, got>>

StreamInit ==
    /\ file = <<>>
    /\ sent = <<>>
    /\ pos = 0
    /\ buf = <<>>
    /\ got = <<>>

----------------------------------------------------------------------------
(* The encoder. *)

SODBtoRBSP(sodb, last) == Append(sodb, last)

\* Mutant: escapes start codes only.
RBSPtoEBSP_start_codes_only(rbsp, min_num_bytes) ==
    FoldLeft(LAMBDA a, b : a \o (IF b = 1 /\ IsSuffix(<<0, 0>>, a) THEN <<3, b>> ELSE <<b>>), <<>>, rbsp)

\* One byte of the payload, after those escaped so far.
EscapeByte(a, b) ==
    LET stop == a.count = ZEROBYTES_SHORTSTARTCODE /\ b <= 3
    IN  [out |-> a.out \o (IF stop THEN <<3, b>> ELSE <<b>>),
         count |-> IF b # 0 THEN 0 ELSE IF stop THEN 1 ELSE a.count + 1]

RBSPtoEBSP(rbsp, min_num_bytes) ==
    LET After[k \in 0..Len(rbsp)] ==
            IF k = 0 THEN [out |-> <<>>, count |-> 0] ELSE EscapeByte(After[k - 1], rbsp[k])
        ebsp == After[Len(rbsp)].out
        words == IF Len(ebsp) < min_num_bytes THEN (min_num_bytes - Len(ebsp) + 2) \div 3 ELSE 0
    IN  ebsp \o [i \in 1..(3 * words) |-> IF i % 3 = 0 THEN 3 ELSE 0]

WriteAnnexbNALU(startcodeprefix_len, ebsp) ==
    (IF startcodeprefix_len > 3 THEN <<0>> ELSE <<>>) \o <<0, 0, 1, HEADER>> \o ebsp

Room == MaxLen - FoldLeft(LAMBDA n, u : n + Len(u.rbsp), 0, sent)

Write ==
    /\ pos = 0
    /\ Len(sent) < MaxUnits
    /\ \E n \in 0..(MaxLen - 1) : \E sodb \in [1..n -> Bytes], last \in LastBytes, least \in Stuffing :
        LET rbsp == SODBtoRBSP(sodb, last)
            ebsp == RBSPtoEBSP(rbsp, least)
        IN  /\ n < Room
            /\ sent' = Append(sent, [rbsp |-> rbsp, stuffed |-> least > Len(RBSPtoEBSP(rbsp, 0))])
            /\ \E startcodeprefix_len \in {3, 4}, z \in 0..MaxZeros :
                 file' = file \o WriteAnnexbNALU(startcodeprefix_len, ebsp) \o [i \in 1..z |-> 0]
            /\ UNCHANGED <<pos, buf, got>>

----------------------------------------------------------------------------
(* The decoder. *)

\* FindStartCode(&file[i], 2): at byte i stands a start code.
FindStartCode(i) == /\ i + 2 <= Len(file)
                    /\ file[i] = 0 /\ file[i + 1] = 0 /\ file[i + 2] = 1

\* The first byte after the unit that begins at byte i: the next start code
\* without the zeros before it, or the end of the file without its zeros.
UnitEnd(i) ==
    LET codes == {j \in i..Len(file) : FindStartCode(j)}
        stop == IF codes = {} THEN Len(file) + 1 ELSE CHOOSE j \in codes : \A k \in codes : j <= k
    IN  CHOOSE e \in i..stop : /\ \A k \in e..(stop - 1) : file[k] = 0
                               /\ e = i \/ file[e - 1] # 0

\* nalu->buf with the unit copied over what was in it.
Over(unit) == unit \o SubSeq(buf, Len(unit) + 1, Len(buf))

\* The buffer is far longer than any unit and zero where no unit has been.
ByteAt(b, i) == IF i <= Len(b) THEN b[i] ELSE 0

\* The byte at i, after those unescaped so far: an escape byte is skipped together
\* with the test of the byte after it, which is read although it may lie beyond the unit.
UnescapeByte(a, b, i) ==
    IF a.skip THEN [a EXCEPT !.skip = FALSE]
    ELSE LET escape == a.count = ZEROBYTES_SHORTSTARTCODE /\ ByteAt(b, i) = 3
             byte == IF escape THEN ByteAt(b, i + 1) ELSE ByteAt(b, i)
             zeros == IF escape THEN 0 ELSE a.count
         IN  [out |-> Append(a.out, byte), skip |-> escape, count |-> IF byte = 0 THEN zeros + 1 ELSE 0]

EBSPtoRBSP(b, len) ==
    LET After[i \in 0..len] ==
            IF i = 0 THEN [out |-> <<>>, skip |-> FALSE, count |-> 0] ELSE UnescapeByte(After[i - 1], b, i)
    IN  After[len].out

\* The length of a payload: up to the byte of the last bit that is 1.
RBSPtoSODB(rbsp) ==
    LET ones == {i \in 1..Len(rbsp) : rbsp[i] # 0}
    IN  IF ones = {} THEN 0 ELSE CHOOSE i \in ones : \A j \in ones : j <= i

\* GetAnnexbNALU, NALUtoRBSP and, of the slice that is read, RBSPtoSODB. Where no
\* start code stands the decoder gives up.
GetAnnexbNALU ==
    LET codes == {i \in (pos + 1)..Len(file) : FindStartCode(i) /\ \A k \in (pos + 1)..(i - 1) : file[k] = 0}
        first == (CHOOSE i \in codes : TRUE) + 4       \* after the start code and the header
        unit == SubSeq(file, first, UnitEnd(first) - 1)
        rbsp == EBSPtoRBSP(Over(unit), Len(unit))
    IN  /\ pos < Len(file)
        /\ pos' = IF codes = {} THEN Len(file) ELSE UnitEnd(first) - 1
        /\ buf' = IF codes = {} THEN buf ELSE rbsp \o SubSeq(Over(unit), Len(rbsp) + 1, Len(Over(unit)))
        /\ got' = IF codes = {} THEN got ELSE Append(got, SubSeq(rbsp, 1, RBSPtoSODB(rbsp)))
        /\ UNCHANGED <<file, sent>>

StreamNext == Write \/ GetAnnexbNALU

StreamSpec == StreamInit /\ [][StreamNext]_streamVars

----------------------------------------------------------------------------
\* The decoder reads the payloads that were written, in their order and whole,
\* whatever start codes, zeros and escape bytes stand between and in them. Only
\* a payload with stuffing may be longer: by zeros and one byte of an earlier
\* unit, which the escape at the end lets in (EBSPtoRBSP). At the end of the
\* file it has read all of them.
PayloadsSurvive ==
    /\ \A u \in 1..Len(got) :
           /\ IsPrefix(sent[u].rbsp, got[u])
           /\ \A i \in (Len(sent[u].rbsp) + 1)..(Len(got[u]) - 1) : got[u][i] = 0
           /\ ~sent[u].stuffed => got[u] = sent[u].rbsp
    /\ pos = Len(file) => Len(got) = Len(sent)
=============================================================================
