------------------------------ MODULE TsFraming ------------------------------
(***************************************************************************)
(* How CDecoderTs::DecodeTs cuts the chunks a file or a socket gives into  *)
(* transport packets: an incomplete packet at the end of a chunk is kept   *)
(* and completed from the next one; at the start of every chunk the first  *)
(* sync byte is looked for.  A byte is its offset in the stream; packets   *)
(* begin at Lead and every PacketLen bytes after.                          *)
(***************************************************************************)
EXTENDS Integers, Sequences

CONSTANTS
    PacketLen,      \* NORMAL_TS_PACKET_LEN, 188 in the code
    Lead,           \* bytes before the first packet of the stream
    FalseSyncs,     \* where packets hold a byte 0x47 besides their first
    Chunks,         \* the lengths of the chunks DecodeTs is given
    StreamLen       \* bound: the stream ends here

ASSUME PacketLenAssumption == PacketLen \in Nat \ {0}
ASSUME LeadAssumption == Lead \in Nat
\* None before the first packet, where DecodeTs would take it for a packet.
ASSUME FalseSyncsAssumption == FalseSyncs \subseteq Nat \ (0..Lead - 1)
ASSUME ChunksAssumption == Chunks \subseteq Nat \ {0}
ASSUME StreamLenAssumption == StreamLen \in Nat

VARIABLES
    pos,                    \* bytes given to DecodeTs
    m_nRemainderDataLen,    \* bytes kept in m_pRemainderBuf: the last ones before pos
    analysed,               \* where the windows given to AnalyseTsPasket began, in order
    overrun                 \* a chunk did not complete the packet kept

framingVars == <<pos, m_nRemainderDataLen, analysed, overrun>>

IsPacket(o) == o >= Lead /\ (o - Lead) % PacketLen = 0
IsSync(o) == IsPacket(o) \/ o \in FalseSyncs

FramingTypeOK == /\ pos \in 0..StreamLen /\ overrun \in BOOLEAN
          /\ m_nRemainderDataLen \in 0..PacketLen - 1
          /\ analysed \in Seq(0..StreamLen)

FramingInit == pos = 0 /\ m_nRemainderDataLen = 0 /\ analysed = <<>> /\ overrun = FALSE

(* The first sync byte from s on, or the end of the chunk.                 *)
SkipToSync(s, end) ==
    LET found == {o \in s..end - 1 : IsSync(o)}
    IN  IF found = {} THEN end ELSE CHOOSE o \in found : \A p \in found : o <= p

(* The packets that begin at s.                                            *)
Windows(s, end) == [k \in 1..(end - s) \div PacketLen |-> s + (k - 1) * PacketLen]

DecodeTs_discards_kept(n) ==
    LET end == pos + n
        s == SkipToSync(pos, end)
    IN  /\ ~overrun /\ end <= StreamLen
        /\ pos' = end /\ UNCHANGED overrun
        /\ analysed' = analysed \o Windows(s, end)
        /\ m_nRemainderDataLen' = (end - s) % PacketLen

(* A chunk too short to complete the packet kept is read past its end, the *)
(* length left becomes negative and so does not stop the search.           *)
DecodeTs(n) ==
    LET kept == pos - m_nRemainderDataLen
        needed == IF m_nRemainderDataLen > 0 THEN PacketLen - m_nRemainderDataLen ELSE 0
        completed == IF needed > 0 THEN <<kept>> ELSE <<>>
        end == pos + n
        s == SkipToSync(pos + needed, end)
    IN  /\ ~overrun /\ end <= StreamLen
        /\ pos' = end
        /\ \/ /\ n >= needed
              /\ analysed' = analysed \o completed \o Windows(s, end)
              /\ m_nRemainderDataLen' = (end - s) % PacketLen
              /\ UNCHANGED overrun
           \/ n < needed /\ overrun' = TRUE /\ UNCHANGED <<m_nRemainderDataLen, analysed>>

FramingNext == \E n \in Chunks : DecodeTs(n)

FramingSpec == FramingInit /\ [][FramingNext]_framingVars

-----------------------------------------------------------------------------
(* The packets received whole.                                             *)
Received == IF pos < Lead THEN 0 ELSE (pos - Lead) \div PacketLen

(* The packets received whole have been analysed, each once and in order,  *)
(* and nothing else has, wherever else in the packets there is a sync      *)
(* byte, and for every way of cutting the stream whose chunks complete a   *)
(* kept packet.                                                            *)
EveryPacketOnce ==
    ~overrun => analysed = [k \in 1..Received |-> Lead + (k - 1) * PacketLen]

=============================================================================
