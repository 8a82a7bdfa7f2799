----------------------- MODULE TransportStreamProofs -----------------------
(***************************************************************************)
(* What the demultiplexer of trunk/parsempegts keeps: its framing for      *)
(* every length of packets and every way of cutting the stream, its tables *)
(* for every tables that keep their places, its frames for every link that *)
(* loses or repeats fewer packets than the continuity counter has values.  *)
(***************************************************************************)
EXTENDS TsFraming, TsTable, TsPes, SequenceTheorems, WellFoundedInduction, TLAPS

(***************************************************************************)
(* Numbers.                                                                *)
(***************************************************************************)
LEMMA SmallestOf ==
    ASSUME NEW S \in SUBSET Nat, S # {}
    PROVE  \E x \in S : \A y \in S : x <= y
<1> DEFINE less == OpToRel(<, Nat)
<1>1. PICK x \in S : \A y \in S : <<y, x>> \notin less
  BY NatLessThanWellFounded, WFMin
<1>2. \A y \in S : y < x => <<y, x>> \in less
  BY DEF OpToRel
<1> HIDE DEF less
<1>3. ASSUME NEW y \in S PROVE x <= y
  <2>1. ~(y < x)
    BY <1>1, <1>2
  <2>2. QED
    BY <2>1
<1>4. QED
  BY <1>3

LEMMA Division ==
    ASSUME NEW b \in Nat \ {0}, NEW a \in Int
    PROVE  a = b * (a \div b) + (a % b) /\ a % b \in 0..b - 1 /\ a \div b \in Int
  OBVIOUS

LEMMA Remainder ==
    ASSUME NEW b \in Nat \ {0}, NEW q \in Int, NEW r \in 0..b - 1, NEW a \in Int, a = b * q + r
    PROVE  a % b = r /\ a \div b = q
  OBVIOUS

-----------------------------------------------------------------------------
(***************************************************************************)
(* Framing.                                                                *)
(***************************************************************************)
(* The first k packets of the stream, and their number at most.            *)
Packets(k) == [i \in 1..k |-> Lead + (i - 1) * PacketLen]
Place(k) == Lead + k * PacketLen
Fitting(a, end) == (end - a) \div PacketLen

(* Either no packet has begun, or k packets are handled and less than one  *)
(* more is kept: then what comes next continues at a packet's first byte.  *)
Aligned(k) == analysed = Packets(k) /\ pos - m_nRemainderDataLen = Lead + k * PacketLen

FramingInv ==
    /\ FramingTypeOK
    /\ ~overrun => \/ pos <= Lead /\ m_nRemainderDataLen = 0 /\ analysed = <<>>
                   \/ \E k \in Nat : Aligned(k)

LEMMA PacketsIn ==
    ASSUME NEW k \in Nat, NEW V, \A i \in 1..k : Lead + (i - 1) * PacketLen \in V
    PROVE  Packets(k) \in Seq(V) /\ Len(Packets(k)) = k
  BY DEF Packets

LEMMA PacketsType ==
    ASSUME NEW k \in Nat
    PROVE  Packets(k) \in Seq(Int) /\ Len(Packets(k)) = k
<1>1. \A i \in 1..k : Lead + (i - 1) * PacketLen \in Int
  BY PacketLenAssumption, LeadAssumption
<1>2. QED
  BY <1>1, PacketsIn

LEMMA PacketPlaces ==
    ASSUME NEW k \in Nat
    PROVE  Lead + k * PacketLen \in Nat /\ IsPacket(Lead + k * PacketLen)
<1> USE PacketLenAssumption, LeadAssumption
<1>1. k * PacketLen \in Nat /\ k * PacketLen = PacketLen * k + 0
  OBVIOUS
<1>2. (k * PacketLen) % PacketLen = 0
  BY <1>1, Remainder
<1>3. QED
  BY <1>1, <1>2 DEF IsPacket

LEMMA SyncsNotBefore ==
    ASSUME NEW o \in Int, o < Lead
    PROVE  ~IsSync(o)
<1>1. ~IsPacket(o)
  BY LeadAssumption DEF IsPacket
<1>2. o \notin FalseSyncs
  BY FalseSyncsAssumption, LeadAssumption
<1>3. QED
  BY <1>1, <1>2 DEF IsSync

(* A search that begins at a packet ends there, or there is nothing left;  *)
(* one that begins before the stream finds the first packet, if it is in.  *)
LEMMA SearchStops ==
    ASSUME NEW s \in Nat, NEW end \in Nat, NEW p \in s..end, p = end \/ IsSync(p),
           \A o \in s..p - 1 : ~IsSync(o)
    PROVE  SkipToSync(s, end) = p
<1> DEFINE found == {o \in s..end - 1 : IsSync(o)}
<1>1. CASE p = end
  <2>1. found = {}
    BY <1>1
  <2>2. QED
    BY <1>1, <2>1 DEF SkipToSync
<1>2. CASE p # end
  <2>1. p \in found
    BY <1>2
  <2>2. \A o \in found : p <= o
    <3> SUFFICES ASSUME NEW o \in found PROVE p <= o
      OBVIOUS
    <3>1. ~(o \in s..p - 1)
      OBVIOUS
    <3>2. QED
      BY <3>1
  <2>3. \A o \in found : (\A q \in found : o <= q) => o = p
    <3> SUFFICES ASSUME NEW o \in found, \A q \in found : o <= q PROVE o = p
      OBVIOUS
    <3>1. o <= p /\ p <= o
      BY <2>1, <2>2
    <3>2. QED
      BY <3>1
  <2>4. SkipToSync(s, end) = CHOOSE o \in found : \A q \in found : o <= q
    BY <2>1 DEF SkipToSync
  <2> HIDE DEF found
  <2>5. QED
    BY <2>1, <2>2, <2>3, <2>4
<1>3. QED
  BY <1>1, <1>2

(* Two sequences that make up a third.                                     *)
LEMMA Joined ==
    ASSUME NEW x \in Seq(Int), NEW y \in Seq(Int), NEW z \in Seq(Int),
           Len(z) = Len(x) + Len(y),
           \A i \in 1..Len(x) : z[i] = x[i],
           \A i \in 1..Len(y) : z[Len(x) + i] = y[i]
    PROVE  x \o y = z
<1>1. x \o y \in Seq(Int) /\ Len(x \o y) = Len(z)
  OBVIOUS
<1>2. ASSUME NEW i \in 1..Len(z) PROVE (x \o y)[i] = z[i]
  <2>1. CASE i \in 1..Len(x)
    BY <2>1
  <2>2. CASE i > Len(x)
    <3>1. i - Len(x) \in 1..Len(y) /\ i = Len(x) + (i - Len(x))
      BY <2>2
    <3>2. (x \o y)[i] = y[i - Len(x)]
      BY <2>2
    <3>3. QED
      BY <3>1, <3>2
  <2>3. QED
    BY <2>1, <2>2
<1>3. QED
  BY <1>1, <1>2, SeqEqual

(* Packets in two parts.                                                   *)
LEMMA PacketsJoin ==
    ASSUME NEW j \in Nat, NEW end \in Nat, NEW a \in Nat, a = Place(j),
           NEW k \in Nat, k = Fitting(a, end)
    PROVE  Packets(j) \o Windows(a, end) = Packets(j + k)
<1> USE PacketLenAssumption, LeadAssumption DEF Place, Fitting
<1>1. j + k \in Nat
  OBVIOUS
<1>2. /\ Packets(j) \in Seq(Int) /\ Len(Packets(j)) = j
      /\ Packets(j + k) \in Seq(Int) /\ Len(Packets(j + k)) = j + k
  BY <1>1, PacketsType
<1>3. Windows(a, end) = [i \in 1..k |-> a + (i - 1) * PacketLen]
  BY DEF Windows
<1>4. Windows(a, end) \in Seq(Int) /\ Len(Windows(a, end)) = k
  BY <1>3
<1>5. ASSUME NEW i \in 1..j PROVE Packets(j + k)[i] = Packets(j)[i]
  BY DEF Packets
<1>6. ASSUME NEW i \in 1..k PROVE Packets(j + k)[j + i] = Windows(a, end)[i]
  <2>1. j + i \in 1..j + k
    OBVIOUS
  <2>2. Packets(j + k)[j + i] = Lead + (j + i - 1) * PacketLen
    BY <2>1 DEF Packets
  <2>3. Windows(a, end)[i] = a + (i - 1) * PacketLen
    BY <1>3
  <2>4. /\ j * PacketLen + (i - 1) * PacketLen = (j + i - 1) * PacketLen
        /\ j * PacketLen \in Int /\ (i - 1) * PacketLen \in Int
    OBVIOUS
  <2>5. QED
    BY <2>2, <2>3, <2>4
<1>7. \A i \in 1..Len(Packets(j)) : Packets(j + k)[i] = Packets(j)[i]
  BY <1>2, <1>5
<1>8. \A i \in 1..Len(Windows(a, end)) :
         Packets(j + k)[Len(Packets(j)) + i] = Windows(a, end)[i]
  BY <1>2, <1>4, <1>6
<1>9. Len(Packets(j + k)) = Len(Packets(j)) + Len(Windows(a, end))
  BY <1>2, <1>4
<1>10. QED
  BY <1>2, <1>4, <1>7, <1>8, <1>9, Joined

(* What is left after the packets from a on is less than one.              *)
LEMMA LeftOver ==
    ASSUME NEW j \in Nat, NEW end \in Nat, NEW a \in Nat, a = Lead + j * PacketLen, a <= end
    PROVE  LET k == (end - a) \div PacketLen
               r == (end - a) % PacketLen
           IN  k \in Nat /\ r \in 0..PacketLen - 1 /\ end - r = Lead + (j + k) * PacketLen
<1> USE PacketLenAssumption, LeadAssumption
<1> DEFINE k == (end - a) \div PacketLen
           r == (end - a) % PacketLen
<1>0. end - a \in Int
  OBVIOUS
<1>1. end - a = PacketLen * k + r /\ r \in 0..PacketLen - 1 /\ k \in Int
  BY <1>0, Division
<1>2. k >= 0
  BY <1>1
<1>3. j * PacketLen + PacketLen * k = (j + k) * PacketLen
  BY <1>1
<1> HIDE DEF k, r
<1>4. end - r = Lead + (j + k) * PacketLen
  <2>1. j * PacketLen \in Int /\ PacketLen * k \in Int /\ (j + k) * PacketLen \in Int
    BY <1>1
  <2>2. QED
    BY <1>1, <1>3, <2>1
<1>5. QED
  BY <1>1, <1>2, <1>4 DEF k, r

LEMMA FramingInitInv == FramingInit => FramingInv
<1> SUFFICES ASSUME FramingInit PROVE FramingInv
  OBVIOUS
<1>1. overrun \in BOOLEAN
  BY DEF FramingInit
<1>2. analysed \in Seq(0..StreamLen)
  BY DEF FramingInit
<1>3. QED
  BY <1>1, <1>2, PacketLenAssumption, LeadAssumption, StreamLenAssumption
  DEF FramingInit, FramingInv, FramingTypeOK

(* The packet after k packets.                                             *)
LEMMA OneMore ==
    ASSUME NEW k \in Nat, NEW v \in Int, v = Lead + k * PacketLen
    PROVE  Packets(k) \o <<v>> = Packets(k + 1)
<1> DEFINE x == Packets(k)
           y == <<v>>
           z == Packets(k + 1)
<1>1. x \in Seq(Int) /\ Len(x) = k
  BY PacketsType
<1>2. z \in Seq(Int) /\ Len(z) = k + 1
  BY PacketsType
<1>3. y \in Seq(Int) /\ Len(y) = 1 /\ y[1] = v
  OBVIOUS
<1>4. ASSUME NEW i \in 1..k PROVE z[i] = x[i]
  BY DEF Packets
<1>5. z[k + 1] = v
  <2>1. k + 1 \in 1..k + 1 /\ k + 1 - 1 = k
    OBVIOUS
  <2>2. QED
    BY <2>1 DEF Packets
<1> HIDE DEF x, y, z
<1>6. \A i \in 1..Len(y) : z[Len(x) + i] = y[i]
  BY <1>1, <1>3, <1>5
<1>7. Len(z) = Len(x) + Len(y) /\ \A i \in 1..Len(x) : z[i] = x[i]
  BY <1>1, <1>2, <1>3, <1>4
<1>8. x \o y = z
  BY <1>1, <1>2, <1>3, <1>6, <1>7, Joined
<1>9. QED
  BY <1>8 DEF x, y, z

(* A chunk whose search finds packet j at a, after j packets are handled.  *)
LEMMA ChunkAligned ==
    ASSUME FramingTypeOK, NEW j \in Nat, NEW end \in Nat, NEW a \in Nat,
           a = Lead + j * PacketLen, a <= end, end <= StreamLen,
           pos' = end, overrun' = overrun, m_nRemainderDataLen' = (end - a) % PacketLen,
           analysed' = Packets(j) \o Windows(a, end)
    PROVE  FramingInv'
<1> DEFINE k == (end - a) \div PacketLen
<1>1. /\ k \in Nat /\ m_nRemainderDataLen' \in 0..PacketLen - 1
      /\ end - m_nRemainderDataLen' = Lead + (j + k) * PacketLen
  BY LeftOver
<1>2. analysed' = Packets(j + k)
  <2>1. k = Fitting(a, end) /\ a = Place(j)
    BY DEF Fitting, Place
  <2>2. k \in Nat
    BY <1>1
  <2> HIDE DEF k
  <2>3. Packets(j) \o Windows(a, end) = Packets(j + k)
    BY <2>1, <2>2, PacketsJoin
  <2>4. QED
    BY <2>3
<1> HIDE DEF k
<1>3. Aligned(j + k)'
  BY <1>1, <1>2 DEF Aligned, Packets
<1>4. analysed' \in Seq(0..StreamLen)
  <2>1. ASSUME NEW i \in 1..j + k PROVE Lead + (i - 1) * PacketLen \in 0..StreamLen
    <3>1. i - 1 \in Nat
      OBVIOUS
    <3>2. Lead + (i - 1) * PacketLen \in Nat
      BY <3>1, PacketPlaces
    <3>3. (i - 1) * PacketLen <= (j + k) * PacketLen
      BY <1>1, PacketLenAssumption
    <3>4. (i - 1) * PacketLen \in Int /\ (j + k) * PacketLen \in Int
      BY <1>1, PacketLenAssumption
    <3>5. Lead + (j + k) * PacketLen <= StreamLen
      BY <1>1, PacketLenAssumption, StreamLenAssumption
    <3>6. QED
      BY <3>2, <3>3, <3>4, <3>5, LeadAssumption, StreamLenAssumption
  <2>2. j + k \in Nat
    BY <1>1
  <2>3. Packets(j + k) \in Seq(0..StreamLen)
    BY <2>1, <2>2, PacketsIn
  <2>4. QED
    BY <1>2, <2>3
<1>5. overrun' \in BOOLEAN /\ pos' \in 0..StreamLen
  BY StreamLenAssumption DEF FramingTypeOK
<1>6. j + k \in Nat
  BY <1>1
<1>7. QED
  BY <1>1, <1>3, <1>4, <1>5, <1>6 DEF FramingInv, FramingTypeOK

LEMMA ChunkStep ==
    ASSUME FramingInv, NEW n \in Chunks, DecodeTs(n)
    PROVE  FramingInv'
<1> DEFINE L == m_nRemainderDataLen
           kept == pos - L
           needed == IF L > 0 THEN PacketLen - L ELSE 0
           completed == IF needed > 0 THEN <<kept>> ELSE <<>>
           end == pos + n
           s == SkipToSync(pos + needed, end)
<1> USE PacketLenAssumption, LeadAssumption, StreamLenAssumption
<1>0. /\ n \in Nat \ {0} /\ pos \in 0..StreamLen /\ L \in 0..PacketLen - 1 /\ FramingTypeOK
      /\ ~overrun /\ end \in Nat /\ end <= StreamLen /\ pos' = end
  BY ChunksAssumption DEF DecodeTs, FramingInv, FramingTypeOK
<1>1. CASE n < needed /\ overrun' = TRUE /\ UNCHANGED <<m_nRemainderDataLen, analysed>>
  BY <1>0, <1>1 DEF FramingInv, FramingTypeOK
<1>2. CASE /\ n >= needed
           /\ analysed' = analysed \o completed \o Windows(s, end)
           /\ L' = (end - s) % PacketLen
           /\ UNCHANGED overrun
  <2>1. CASE pos <= Lead /\ L = 0 /\ analysed = <<>>
    <3>1. needed = 0 /\ completed = <<>>
      BY <2>1
    <3>2. CASE end <= Lead
      <4>1. s = end
        BY <1>0, <3>1, <3>2, SearchStops, SyncsNotBefore
      <4>2. Windows(s, end) = <<>> /\ L' = 0
        BY <1>0, <1>2, <4>1 DEF Windows
      <4>3. analysed' = <<>>
        BY <1>2, <2>1, <3>1, <4>2
      <4>4. overrun' \in BOOLEAN
        BY <1>0, <1>2 DEF FramingTypeOK
      <4>5. analysed' \in Seq(0..StreamLen) /\ pos' \in 0..StreamLen
        BY <1>0, <4>3
      <4>6. QED
        BY <1>0, <3>2, <4>2, <4>3, <4>4, <4>5 DEF FramingInv, FramingTypeOK
    <3>3. CASE end > Lead
      <4>1. IsSync(Lead) /\ Lead = Lead + 0 * PacketLen
        BY PacketPlaces DEF IsSync
      <4>2. s = Lead
        BY <1>0, <2>1, <3>1, <3>3, <4>1, SearchStops, SyncsNotBefore
      <4>3. Packets(0) = <<>>
        BY DEF Packets
      <4>4. analysed' = Packets(0) \o Windows(Lead, end)
        <5>1. analysed \o completed = Packets(0)
          BY <2>1, <3>1, <4>3
        <5>2. QED
          BY <1>2, <4>2, <5>1
      <4>5. L' = (end - Lead) % PacketLen /\ Lead <= end
        BY <1>0, <1>2, <3>3, <4>2
      <4> HIDE DEF L, end, s, completed
      <4>6. QED
        BY <1>0, <1>2, <4>1, <4>4, <4>5, ChunkAligned DEF L
    <3>4. QED
      BY <1>0, <3>2, <3>3
  <2>2. ASSUME NEW k \in Nat, Aligned(k) PROVE FramingInv'
    <3> DEFINE a == pos + needed
               j == IF needed > 0 THEN k + 1 ELSE k
    <3>1. kept = Lead + k * PacketLen /\ analysed = Packets(k)
      BY <2>2 DEF Aligned
    <3>2. k * PacketLen \in Int /\ (k + 1) * PacketLen = k * PacketLen + PacketLen
      OBVIOUS
    <3>3. j \in Nat /\ a \in Nat /\ a = Lead + j * PacketLen
      BY <1>0, <3>1, <3>2
    <3>4. a <= end
      BY <1>0, <1>2
    <3>5. s = a
      <4>1. IsSync(a)
        BY <3>3, PacketPlaces DEF IsSync
      <4>2. QED
        BY <1>0, <3>3, <3>4, <4>1, SearchStops
    <3>6. analysed \o completed = Packets(j)
      <4>1. CASE needed > 0
        <5>1. kept \in Int
          BY <1>0
        <5>2. Packets(k) \o <<kept>> = Packets(k + 1)
          BY <3>1, <5>1, OneMore
        <5>3. QED
          BY <3>1, <4>1, <5>2
      <4>2. CASE ~(needed > 0)
        BY <1>0, <3>1, <4>2 DEF FramingTypeOK
      <4>3. QED
        BY <4>1, <4>2
    <3>7. analysed' = Packets(j) \o Windows(a, end)
      BY <1>2, <3>5, <3>6
    <3> HIDE DEF a, j
    <3>8. QED
      BY <1>0, <1>2, <3>3, <3>4, <3>5, <3>7, ChunkAligned
  <2>3. QED
    BY <1>0, <2>1, <2>2 DEF FramingInv
<1>3. QED
  BY <1>1, <1>2 DEF DecodeTs

LEMMA FramingStep == FramingInv /\ [FramingNext]_framingVars => FramingInv'
<1>1. FramingInv /\ UNCHANGED framingVars => FramingInv'
  BY DEF FramingInv, FramingTypeOK, Aligned, Packets, framingVars
<1>2. QED
  BY <1>1, ChunkStep DEF FramingNext

(* The packets handled are those received whole.                           *)
LEMMA FramingExact == FramingInv => EveryPacketOnce
<1> SUFFICES ASSUME FramingInv, ~overrun PROVE analysed = Packets(Received)
  BY DEF EveryPacketOnce, Packets
<1> USE PacketLenAssumption, LeadAssumption, StreamLenAssumption
<1>0. pos \in Nat /\ m_nRemainderDataLen \in 0..PacketLen - 1
  BY DEF FramingInv, FramingTypeOK
<1>1. CASE pos <= Lead /\ analysed = <<>>
  <2>1. Received = 0
    BY <1>0, <1>1 DEF Received
  <2>2. QED
    BY <1>1, <2>1 DEF Packets
<1>2. ASSUME NEW k \in Nat, Aligned(k) PROVE analysed = Packets(Received)
  <2>1. pos - Lead = PacketLen * k + m_nRemainderDataLen /\ pos - Lead \in Int /\ pos >= Lead
    <3>1. k * PacketLen = PacketLen * k /\ k * PacketLen \in Nat
      OBVIOUS
    <3>2. QED
      BY <1>0, <1>2, <3>1 DEF Aligned
  <2>2. (pos - Lead) \div PacketLen = k
    BY <1>0, <2>1, Remainder
  <2>3. Received = k
    BY <1>0, <2>1, <2>2 DEF Received
  <2>4. QED
    BY <1>2, <2>3 DEF Aligned
<1>3. QED
  BY <1>1, <1>2 DEF FramingInv

(* DecodeTs: for every length of packets and however the stream is cut,    *)
(* the packets analysed are the packets received, as long as no chunk ends *)
(* within the packet that the one before it began.                         *)
THEOREM PacketsFoundOnce == FramingSpec => []EveryPacketOnce
  BY FramingExact, FramingInitInv, FramingStep, PTL DEF FramingSpec

-----------------------------------------------------------------------------
(***************************************************************************)
(* Tables.                                                                 *)
(***************************************************************************)
Slot == [pid : Nat, bPsi : BOOLEAN, es : Nat \X Nat]
Program == [pid : Nat, number : Int, version : Int, streams : Seq(Nat)]

(* Every PID in the map has a slot that was made for it.                   *)
OwnSlots ==
    /\ slots \in Seq(Slot)
    /\ \A pid \in DOMAIN pidMap : pidMap[pid] \in DOMAIN slots /\ slots[pidMap[pid]].pid = pid

TableBase ==
    /\ Len(slots) \in 1..MAX_PID_INFO_NUM /\ OwnSlots
    /\ \A i \in DOMAIN slots : slots[i].es = Psi <=> slots[i].bPsi
    /\ programs \in [1..MAX_PMT_NUM_PER_PID -> Program]
    /\ nProgramNum \in 0..MAX_PMT_NUM_PER_PID
    /\ nPatVersion \in Nat \cup {-1} /\ aborted \in BOOLEAN

(* The slots taken are new ones, the PIDs known keep theirs.               *)
LEMMA TakesSlots ==
    ASSUME TableBase, NEW new \in Seq(Slot), InitPidInfo(new),
           \A i \in DOMAIN new : new[i].es = Psi <=> new[i].bPsi
    PROVE  /\ Len(slots') \in 1..MAX_PID_INFO_NUM /\ OwnSlots' /\ aborted' \in BOOLEAN
           /\ \A i \in DOMAIN slots' : slots'[i].es = Psi <=> slots'[i].bPsi
           /\ ~aborted' => \A i \in DOMAIN slots' :
                 slots'[i] \in {slots[j] : j \in DOMAIN slots} \cup {new[j] : j \in DOMAIN new}
<1> USE LimitsAssumption DEF TableBase, OwnSlots
<1>0. MAX_PID_INFO_NUM \in Int
  BY DEF MAX_PID_INFO_NUM
<1>1. CASE aborted' = TRUE /\ UNCHANGED <<slots, pidMap>>
  BY <1>1
<1>2. CASE Len(slots) + Len(new) <= MAX_PID_INFO_NUM
  <2> DEFINE fresh == {new[i].pid : i \in DOMAIN new} \ DOMAIN pidMap
             first(pid) == CHOOSE i \in DOMAIN new :
                              new[i].pid = pid /\ \A j \in 1..i - 1 : new[j].pid # pid
  <2>1. /\ slots' = slots \o new
        /\ pidMap' = [pid \in DOMAIN pidMap \cup fresh |->
                         IF pid \in fresh THEN Len(slots) + first(pid) ELSE pidMap[pid]]
        /\ UNCHANGED aborted
    <3>1. Len(slots) \in Nat /\ Len(new) \in Nat
      OBVIOUS
    <3>2. ~(Len(slots) + Len(new) > MAX_PID_INFO_NUM)
      BY <1>0, <1>2, <3>1
    <3> QED
      BY ONLY InitPidInfo(new), <3>2 DEF InitPidInfo
  <2>2. ASSUME NEW pid \in fresh PROVE first(pid) \in DOMAIN new /\ new[first(pid)].pid = pid
    <3> DEFINE with == {i \in DOMAIN new : new[i].pid = pid}
    <3>1. with \in SUBSET Nat /\ with # {}
      OBVIOUS
    <3>2. PICK i \in with : \A j \in with : i <= j
      <4> HIDE DEF with
      <4> QED
        BY <3>1, SmallestOf
    <3>3. i \in DOMAIN new /\ new[i].pid = pid /\ \A j \in 1..i - 1 : new[j].pid # pid
      BY <3>2
    <3>4. QED
      BY <3>3
  <2> HIDE DEF first
  <2>3. /\ slots' \in Seq(Slot) /\ Len(slots') = Len(slots) + Len(new)
        /\ \A i \in DOMAIN slots : i \in DOMAIN slots' /\ slots'[i] = slots[i]
        /\ \A i \in DOMAIN new : Len(slots) + i \in DOMAIN slots' /\ slots'[Len(slots) + i] = new[i]
        /\ \A i \in DOMAIN slots' : i \in DOMAIN slots \/ i - Len(slots) \in DOMAIN new
    BY <2>1
  <2>4. ASSUME NEW pid \in DOMAIN pidMap'
        PROVE  pidMap'[pid] \in DOMAIN slots' /\ slots'[pidMap'[pid]].pid = pid
    <3>1. CASE pid \in fresh
      <4>1. pidMap'[pid] = Len(slots) + first(pid)
        BY <2>1, <3>1
      <4>2. PICK i \in DOMAIN new : i = first(pid) /\ new[i].pid = pid
        BY <2>2, <3>1
      <4>3. QED
        BY <2>3, <4>1, <4>2
    <3>2. CASE pid \notin fresh
      <4>1. pid \in DOMAIN pidMap /\ pidMap'[pid] = pidMap[pid]
        BY <2>1, <2>4, <3>2
      <4>2. QED
        BY <2>3, <4>1
    <3>3. QED
      BY <3>1, <3>2
  <2>5. ASSUME NEW i \in DOMAIN slots'
        PROVE  slots'[i] \in {slots[j] : j \in DOMAIN slots} \cup {new[j] : j \in DOMAIN new}
    <3>1. CASE i \in DOMAIN slots
      BY <2>3, <3>1
    <3>2. CASE i - Len(slots) \in DOMAIN new
      BY <2>3, <3>2
    <3>3. QED
      BY <2>3, <2>5, <3>1, <3>2
  <2>6. \A i \in DOMAIN slots' : slots'[i].es = Psi <=> slots'[i].bPsi
    BY <2>5
  <2>7. Len(slots') \in 1..MAX_PID_INFO_NUM
    BY <1>0, <1>2, <2>3
  <2>8. QED
    BY <2>1, <2>3, <2>4, <2>5, <2>6, <2>7
<1>3. CASE Len(slots) + Len(new) > MAX_PID_INFO_NUM
  <2>1. aborted' = TRUE /\ UNCHANGED <<slots, pidMap>>
    BY <1>3 DEF InitPidInfo
  <2>2. QED
    BY <1>1, <2>1
<1>4. QED
  BY <1>0, <1>2, <1>3

(* Until a slot runs out, the programs are those every PAT lists, and what *)
(* is known of a program and of its streams comes from a PMT of its own.   *)
Sent(k) == {m \in Pmts : m.number = programs[k].number}

ListedOK ==
    IF nPatVersion = -1
    THEN nProgramNum = 0 /\ \A s \in DOMAIN slots : slots[s].bPsi => slots[s].pid = 0
    ELSE Pats # {} /\ \A p \in Pats :
            /\ nProgramNum = Len(Programs(p))
            /\ \A i \in 1..nProgramNum : programs[i].number = Programs(p)[i].number

StreamsOK ==
    /\ \A k \in 1..MAX_PMT_NUM_PER_PID : programs[k].streams # <<>> =>
          k \in 1..nProgramNum /\ \E m \in Sent(k) : programs[k].streams = m.streams
    /\ \A s \in DOMAIN slots : ~slots[s].bPsi =>
          LET k == slots[s].es[1]  i == slots[s].es[2] IN
          /\ k \in 1..nProgramNum
          /\ \E m \in Sent(k) : i \in DOMAIN m.streams /\ m.streams[i] = slots[s].pid

TableInv == TableBase /\ (PlacesStay /\ ~aborted => ListedOK /\ StreamsOK)

LEMMA TableInitInv == TableInit => TableInv
<1> SUFFICES ASSUME TableInit PROVE TableInv
  OBVIOUS
<1> USE LimitsAssumption DEF TableInit
<1>1. slots \in Seq(Slot) /\ Len(slots) = 1 /\ DOMAIN slots = {1} /\ slots[1].pid = 0 /\ slots[1].bPsi
      /\ slots[1].es = Psi
  BY DEF Slot, Psi
<1>2. OwnSlots
  BY <1>1 DEF OwnSlots
<1>3. programs \in [1..MAX_PMT_NUM_PER_PID -> Program]
  BY DEF Program
<1>4. MAX_PID_INFO_NUM \in Nat /\ MAX_PID_INFO_NUM >= 1
  BY DEF MAX_PID_INFO_NUM
<1>5. aborted = FALSE /\ nPatVersion = -1 /\ nProgramNum = 0
  OBVIOUS
<1>6. TableBase
  <2>1. Len(slots) \in 1..MAX_PID_INFO_NUM
    BY <1>1, <1>4
  <2>2. nPatVersion \in Nat \cup {-1} /\ nProgramNum \in 0..MAX_PMT_NUM_PER_PID
    BY <1>5
  <2>a. aborted \in BOOLEAN
    BY <1>5
  <2>3. \A i \in DOMAIN slots : slots[i].es = Psi <=> slots[i].bPsi
    BY <1>1
  <2>4. QED
    BY <1>2, <1>3, <2>1, <2>2, <2>a, <2>3 DEF TableBase
<1>7. ListedOK /\ StreamsOK
  BY <1>1, <1>5 DEF ListedOK, StreamsOK
<1>8. QED
  BY <1>6, <1>7 DEF TableInv

LEMMA PatStep ==
    ASSUME TableInv, NEW p \in Pats, PatPacket(p)
    PROVE  TableInv'
<1> DEFINE listed == Programs(p)
           new == [i \in DOMAIN listed |-> [pid |-> listed[i].pid, bPsi |-> TRUE, es |-> Psi]]
<1>1. CASE UNCHANGED tableVars
  BY <1>1 DEF TableInv, TableBase, OwnSlots, ListedOK, StreamsOK, Sent, tableVars
<1>2. CASE /\ programs' = [i \in DOMAIN programs |->
                    IF i \in DOMAIN listed
                    THEN [programs[i] EXCEPT !.pid = listed[i].pid, !.number = listed[i].number]
                    ELSE programs[i]]
           /\ nProgramNum' = Len(listed) /\ nPatVersion' = p.version /\ InitPidInfo(new)
  <2>0. TableBase /\ ~aborted
    BY DEF TableInv, PatPacket
  <2>1. listed \in Seq([number : Nat \ {0}, pid : Nat]) /\ Len(listed) <= MAX_PMT_NUM_PER_PID
        /\ p.version \in Nat
    BY PatsAssumption
  <2>a. /\ Len(listed) \in Nat /\ DOMAIN listed = 1..Len(listed)
        /\ \A i \in DOMAIN listed : listed[i].number \in Nat \ {0} /\ listed[i].pid \in Nat
    <3> HIDE DEF listed
    <3>1. Len(listed) \in Nat /\ DOMAIN listed = 1..Len(listed)
      BY <2>1, LenProperties
    <3>2. ASSUME NEW i \in DOMAIN listed PROVE listed[i] \in [number : Nat \ {0}, pid : Nat]
      BY <2>1, <3>1, ElementOfSeq
    <3>3. QED
      BY <3>1, <3>2
  <2> HIDE DEF listed
  <2>2. new \in Seq(Slot) /\ \A i \in DOMAIN new : new[i].es = Psi /\ new[i].bPsi
    <3>1. \A i \in DOMAIN listed : [pid |-> listed[i].pid, bPsi |-> TRUE, es |-> Psi] \in Slot
      BY <2>a DEF Slot, Psi
    <3>2. new \in [1..Len(listed) -> Slot]
      BY <2>a, <3>1
    <3>3. QED
      BY <2>a, <3>2, SeqDef
  <2> HIDE DEF new
  <2>3. /\ Len(slots') \in 1..MAX_PID_INFO_NUM /\ OwnSlots' /\ aborted' \in BOOLEAN
        /\ \A i \in DOMAIN slots' : slots'[i].es = Psi <=> slots'[i].bPsi
        /\ ~aborted' => \A i \in DOMAIN slots' :
              slots'[i] \in {slots[j] : j \in DOMAIN slots} \cup {new[j] : j \in DOMAIN new}
    BY <1>2, <2>0, <2>2, TakesSlots
  <2>4. /\ programs' \in [1..MAX_PMT_NUM_PER_PID -> Program]
        /\ \A i \in 1..MAX_PMT_NUM_PER_PID : programs'[i].streams = programs[i].streams
        /\ \A i \in DOMAIN listed : programs'[i].number = listed[i].number
    <3> DEFINE entry(i) == IF i \in DOMAIN listed
                           THEN [programs[i] EXCEPT !.pid = listed[i].pid, !.number = listed[i].number]
                           ELSE programs[i]
    <3>1. programs \in [1..MAX_PMT_NUM_PER_PID -> Program]
      BY <2>0 DEF TableBase
    <3>2. \A i \in 1..MAX_PMT_NUM_PER_PID : entry(i) \in Program /\ entry(i).streams = programs[i].streams
      <4> SUFFICES ASSUME NEW i \in 1..MAX_PMT_NUM_PER_PID
                   PROVE  entry(i) \in Program /\ entry(i).streams = programs[i].streams
        OBVIOUS
      <4>1. programs[i] \in Program
        BY <3>1
      <4>2. CASE i \in DOMAIN listed
        <5>1. listed[i].number \in Int /\ listed[i].pid \in Nat
          BY <2>a, <4>2
        <5>2. entry(i) = [programs[i] EXCEPT !.pid = listed[i].pid, !.number = listed[i].number]
          BY <4>2
        <5> HIDE DEF entry
        <5>3. QED
          BY <4>1, <5>1, <5>2 DEF Program
      <4>3. QED
        BY <4>1, <4>2
    <3>a. \A i \in DOMAIN listed : i \in 1..MAX_PMT_NUM_PER_PID
      BY <2>1, <2>a, LimitsAssumption
    <3>3. \A i \in DOMAIN listed : i \in 1..MAX_PMT_NUM_PER_PID /\ entry(i).number = listed[i].number
      BY <3>a, <3>1 DEF Program
    <3>4. programs' = [i \in 1..MAX_PMT_NUM_PER_PID |-> entry(i)]
      BY <1>2, <3>1
    <3> HIDE DEF entry
    <3>5. QED
      BY <3>2, <3>3, <3>4
  <2>5. nProgramNum' \in 0..MAX_PMT_NUM_PER_PID /\ nPatVersion' \in Nat
    <3>1. nProgramNum' = Len(listed) /\ nPatVersion' = p.version
      BY <1>2
    <3>2. QED
      BY <3>1, <2>1, <2>a, LimitsAssumption
  <2>6. TableBase'
    BY <2>3, <2>4, <2>5 DEF TableBase
  <2>7. ASSUME PlacesStay, ~aborted' PROVE ListedOK' /\ StreamsOK'
    <3>1. ListedOK /\ StreamsOK
      BY <2>0, <2>7 DEF TableInv
    <3>2. ListedOK'
      <4>1. nPatVersion' # -1 /\ nProgramNum' = Len(Programs(p))
        <5>1. nProgramNum' = Len(Programs(p))
          BY <1>2 DEF listed
        <5>2. nPatVersion' # -1
          BY <2>5
        <5>3. QED
          BY <5>1, <5>2
      <4>2. \A i \in 1..Len(Programs(p)) : programs'[i].number = Programs(p)[i].number
        BY <2>4, <2>a DEF listed
      <4>3. \A q \in Pats : /\ Len(Programs(q)) = Len(Programs(p))
                            /\ \A i \in 1..Len(Programs(p)) : Programs(q)[i].number = Programs(p)[i].number
        BY <2>7, <2>a DEF PlacesStay, listed
      <4>4. QED
        BY <4>1, <4>2, <4>3 DEF ListedOK
    <3>3. nPatVersion # -1 =>
             nProgramNum' = nProgramNum /\ \A k \in 1..nProgramNum : programs'[k].number = programs[k].number
      <4> SUFFICES ASSUME nPatVersion # -1
                   PROVE  /\ nProgramNum' = nProgramNum
                          /\ \A k \in 1..nProgramNum : programs'[k].number = programs[k].number
        OBVIOUS
      <4>1. nProgramNum = Len(listed) /\ \A i \in 1..nProgramNum : programs[i].number = listed[i].number
        BY <3>1 DEF ListedOK, listed
      <4>2. QED
        BY <1>2, <2>4, <2>a, <4>1
    <3>4. \A k \in 1..nProgramNum : k \in 1..nProgramNum' /\ programs'[k].number = programs[k].number
      BY <2>0, <3>1, <3>3 DEF ListedOK, TableBase
    <3>5. \A k \in 1..nProgramNum : Sent(k)' = Sent(k)
      BY <3>4 DEF Sent
    <3>6. ASSUME NEW s \in DOMAIN slots', ~slots'[s].bPsi
          PROVE  \E j \in DOMAIN slots : slots'[s] = slots[j]
      BY <2>2, <2>3, <2>7, <3>6
    <3>7. StreamsOK'
      BY <2>4, <3>1, <3>4, <3>5, <3>6 DEF StreamsOK
    <3>8. QED
      BY <3>2, <3>7
  <2>8. PlacesStay' = PlacesStay
    BY DEF PlacesStay
  <2>9. QED
    BY <2>6, <2>7, <2>8 DEF TableInv
<1>3. QED
  BY <1>1, <1>2 DEF PatPacket, HandlePATCallback

(* A PMT that comes before every PAT finds no slot; after one, the program *)
(* is at the first place that has its number.                              *)
LEMMA PmtStep ==
    ASSUME TableInv, NEW m \in Pmts, PmtPacket(m)
    PROVE  TableInv'
<1> DEFINE places == IF Listed(m.number) # {} THEN Listed(m.number) ELSE {nProgramNum + 1}
           place == CHOOSE i \in places : \A j \in places : i <= j
<1>1. CASE UNCHANGED tableVars
  BY <1>1 DEF TableInv, TableBase, OwnSlots, ListedOK, StreamsOK, Sent, tableVars
<1>2. ASSUME NEW k, k = place, ~(k > MAX_PMT_NUM_PER_PID),
             programs' = [programs EXCEPT ![k].version = m.version, ![k].streams = m.streams],
             nProgramNum' = IF k > nProgramNum THEN k ELSE nProgramNum,
             InitPidInfo([i \in DOMAIN m.streams |->
                            [pid |-> m.streams[i], bPsi |-> FALSE, es |-> <<k, i>>]]),
             nPatVersion' = nPatVersion
      PROVE  TableInv'
  <2> DEFINE new == [i \in DOMAIN m.streams |->
                       [pid |-> m.streams[i], bPsi |-> FALSE, es |-> <<k, i>>]]
  <2>0. TableBase /\ ~aborted
    BY DEF TableInv, PmtPacket
  <2>1. m.streams \in Seq(Nat) /\ m.version \in Nat /\ m.number \in Nat
    BY PmtsAssumption
  <2>2. /\ Len(m.streams) \in Nat /\ DOMAIN m.streams = 1..Len(m.streams)
        /\ \A i \in DOMAIN m.streams : m.streams[i] \in Nat
    <3>1. Len(m.streams) \in Nat /\ DOMAIN m.streams = 1..Len(m.streams)
      BY <2>1, LenProperties
    <3>2. QED
      BY <2>1, <3>1, ElementOfSeq
  <2>3. nProgramNum \in 0..MAX_PMT_NUM_PER_PID /\ programs \in [1..MAX_PMT_NUM_PER_PID -> Program]
    BY <2>0 DEF TableBase
  <2>4. k \in places /\ k \in 1..MAX_PMT_NUM_PER_PID
    <3>1. places \in SUBSET Nat /\ places # {}
      BY <2>3, LimitsAssumption DEF Listed
    <3>2. place \in places
      <4> HIDE DEF places
      <4>1. PICK i \in places : \A j \in places : i <= j
        BY <3>1, SmallestOf
      <4>2. QED
        BY <4>1
    <3>3. k \in places
      BY <1>2, <3>2
    <3>4. QED
      <4>1. k \in 1..nProgramNum \/ k = nProgramNum + 1
        BY <3>3 DEF Listed
      <4>2. QED
        <5> HIDE DEF places, place
        <5>1. ~(k > MAX_PMT_NUM_PER_PID)
          BY <1>2
        <5>2. k \in 1..MAX_PMT_NUM_PER_PID
          BY <2>3, <4>1, <5>1, LimitsAssumption
        <5>3. QED
          BY <3>3, <5>2
  <2> HIDE DEF places, place
  <2>5. new \in Seq(Slot) /\ \A i \in DOMAIN new : ~new[i].bPsi /\ new[i].es # Psi
    <3>1. \A i \in 1..Len(m.streams) :
             /\ [pid |-> m.streams[i], bPsi |-> FALSE, es |-> <<k, i>>] \in Slot
             /\ <<k, i>> # Psi
      BY <2>2, <2>4, LimitsAssumption DEF Slot, Psi
    <3>2. new \in [1..Len(m.streams) -> Slot]
      BY <2>2, <3>1
    <3>3. QED
      BY <2>2, <3>1, <3>2, SeqDef
  <2>6. \A i \in DOMAIN new : /\ new[i].es = <<k, i>> /\ new[i].pid = m.streams[i]
                              /\ i \in DOMAIN m.streams
    OBVIOUS
  <2>7. InitPidInfo(new)
    BY <1>2
  <2> HIDE DEF new
  <2>8. /\ Len(slots') \in 1..MAX_PID_INFO_NUM /\ OwnSlots' /\ aborted' \in BOOLEAN
        /\ \A i \in DOMAIN slots' : slots'[i].es = Psi <=> slots'[i].bPsi
        /\ ~aborted' => \A i \in DOMAIN slots' :
              slots'[i] \in {slots[j] : j \in DOMAIN slots} \cup {new[j] : j \in DOMAIN new}
    BY <2>0, <2>5, <2>7, TakesSlots
  <2>9. /\ programs' \in [1..MAX_PMT_NUM_PER_PID -> Program]
        /\ \A i \in 1..MAX_PMT_NUM_PER_PID :
              /\ programs'[i].number = programs[i].number
              /\ programs'[i].streams = IF i = k THEN m.streams ELSE programs[i].streams
    <3>1. programs[k] \in Program
      BY <2>3, <2>4
    <3>2. [[programs[k] EXCEPT !.version = m.version] EXCEPT !.streams = m.streams] \in Program
      <4>1. ASSUME NEW e \in Program PROVE [e EXCEPT !.version = m.version] \in Program
        BY <2>1 DEF Program
      <4>2. ASSUME NEW e \in Program PROVE [e EXCEPT !.streams = m.streams] \in Program
        BY <2>1 DEF Program
      <4>3. QED
        BY <3>1, <4>1, <4>2
    <3>3. programs' = [programs EXCEPT ![k] =
                         [[programs[k] EXCEPT !.version = m.version] EXCEPT !.streams = m.streams]]
      BY <1>2, <2>3, <2>4
    <3>4. QED
      BY <2>3, <2>4, <3>1, <3>2, <3>3 DEF Program
  <2>10. nProgramNum' \in 0..MAX_PMT_NUM_PER_PID
    BY <1>2, <2>3, <2>4, LimitsAssumption
  <2>11. TableBase'
    BY <1>2, <2>0, <2>8, <2>9, <2>10 DEF TableBase
  <2>12. ASSUME PlacesStay, ~aborted' PROVE ListedOK' /\ StreamsOK'
    <3>1. ListedOK /\ StreamsOK
      BY <2>0, <2>12 DEF TableInv
    <3>2. nPatVersion # -1 /\ Pats # {}
      BY <2>0, <3>1 DEF TableBase, OwnSlots, PmtPacket, ListedOK
    <3>3. k \in 1..nProgramNum /\ programs[k].number = m.number
      <4>1. PICK p \in Pats : TRUE
        BY <3>2
      <4>2. Len(Programs(p)) \in Nat /\ DOMAIN Programs(p) = 1..Len(Programs(p))
        BY PatsAssumption, LenProperties
      <4>3. PICK i \in DOMAIN Programs(p) : Programs(p)[i].number = m.number
        BY <2>12 DEF PlacesStay
      <4>4. i \in 1..nProgramNum /\ programs[i].number = m.number
        BY <3>1, <3>2, <4>2, <4>3 DEF ListedOK
      <4>5. places = Listed(m.number)
        BY <4>4 DEF places, Listed
      <4>6. QED
        BY <2>4, <4>5 DEF Listed
    <3>4. nProgramNum' = nProgramNum
      BY <1>2, <2>3, <3>3
    <3>5. \A i \in 1..nProgramNum : i \in 1..MAX_PMT_NUM_PER_PID /\ programs'[i].number = programs[i].number
      BY <2>3, <2>9, LimitsAssumption
    <3>6. ListedOK'
      BY <1>2, <3>1, <3>2, <3>4, <3>5 DEF ListedOK
    <3>7. \A i \in 1..nProgramNum : Sent(i)' = Sent(i)
      BY <3>5 DEF Sent
    <3>8. m \in Sent(k)
      BY <3>3 DEF Sent
    <3>9. \A i \in 1..MAX_PMT_NUM_PER_PID : programs'[i].streams # <<>> =>
             i \in 1..nProgramNum' /\ \E n \in Sent(i)' : programs'[i].streams = n.streams
      BY <2>9, <3>1, <3>3, <3>4, <3>7, <3>8 DEF StreamsOK
    <3>10. ASSUME NEW s \in DOMAIN slots', ~slots'[s].bPsi
           PROVE  /\ slots'[s].es[1] \in 1..nProgramNum'
                  /\ \E n \in Pmts :
                        /\ n.number = programs'[slots'[s].es[1]].number
                        /\ slots'[s].es[2] \in DOMAIN n.streams
                        /\ n.streams[slots'[s].es[2]] = slots'[s].pid
      <4>1. ASSUME NEW j \in DOMAIN slots, slots'[s] = slots[j]
            PROVE  /\ slots[j].es[1] \in 1..nProgramNum
                   /\ \E n \in Pmts : /\ n.number = programs'[slots[j].es[1]].number
                                      /\ slots[j].es[2] \in DOMAIN n.streams
                                      /\ n.streams[slots[j].es[2]] = slots[j].pid
        <5>1. slots[j].es[1] \in 1..nProgramNum
          BY <3>1, <3>10, <4>1 DEF StreamsOK
        <5>2. PICK n \in Sent(slots[j].es[1]) : /\ slots[j].es[2] \in DOMAIN n.streams
                                                /\ n.streams[slots[j].es[2]] = slots[j].pid
          BY <3>1, <3>10, <4>1 DEF StreamsOK
        <5>3. QED
          BY <3>5, <5>1, <5>2 DEF Sent
      <4>2. ASSUME NEW j \in DOMAIN new
            PROVE  /\ new[j].es[1] \in 1..nProgramNum
                   /\ m.number = programs'[new[j].es[1]].number
                   /\ new[j].es[2] \in DOMAIN m.streams
                   /\ m.streams[new[j].es[2]] = new[j].pid
        <5>1. new[j].es[1] = k /\ new[j].es[2] = j
          BY <2>6
        <5>2. QED
          BY <2>6, <3>3, <3>5, <5>1
      <4>3. QED
        <5>1. slots'[s] \in {slots[j] : j \in DOMAIN slots} \cup {new[j] : j \in DOMAIN new}
          BY <2>8, <2>12
        <5>2. CASE \E j \in DOMAIN slots : slots'[s] = slots[j]
          <6>1. PICK j \in DOMAIN slots : slots'[s] = slots[j]
            BY <5>2
          <6>2. QED
            BY <3>4, <4>1, <6>1
        <5>3. CASE \E j \in DOMAIN new : slots'[s] = new[j]
          <6>1. PICK j \in DOMAIN new : slots'[s] = new[j]
            BY <5>3
          <6>2. QED
            BY <3>4, <4>2, <6>1
        <5>4. QED
          BY <5>1, <5>2, <5>3
    <3>11. StreamsOK'
      BY <3>9, <3>10 DEF StreamsOK, Sent
    <3>12. QED
      BY <3>6, <3>11
  <2>13. PlacesStay' = PlacesStay
    BY DEF PlacesStay
  <2>14. QED
    BY <2>11, <2>12, <2>13 DEF TableInv
<1>3. QED
  BY <1>1, <1>2 DEF PmtPacket, HandlePMTCallback

LEMMA TableStep == TableInv /\ [TableNext]_tableVars => TableInv'
<1>1. TableInv /\ UNCHANGED tableVars => TableInv'
  BY DEF TableInv, TableBase, OwnSlots, ListedOK, StreamsOK, Sent, tableVars
<1>2. QED
  BY <1>1, PatStep, PmtStep DEF TableNext

(* HandlePATCallback, HandlePMTCallback: whatever the limits and the tables *)
(* sent, a packet is handled by a slot made for its PID, and as long as     *)
(* streams keep their places (PlacesStay) the slot of an elementary stream  *)
(* points to that stream.                                                   *)
THEOREM StreamsFoundBySlot == TableSpec => []SlotFindsOwnStream
<1>1. TableInv => SlotFindsOwnStream
  <2> SUFFICES ASSUME TableInv, PlacesStay, ~aborted, NEW pid \in DOMAIN pidMap
               PROVE  LET s == slots[pidMap[pid]] IN
                      /\ s.pid = pid
                      /\ ~s.bPsi /\ s.es[2] \in DOMAIN StreamOf(s) => StreamOf(s)[s.es[2]] = pid
    BY DEF SlotFindsOwnStream
  <2>1. pidMap[pid] \in DOMAIN slots /\ slots[pidMap[pid]].pid = pid
    BY DEF TableInv, TableBase, OwnSlots
  <2>2. ASSUME NEW s, s = slots[pidMap[pid]], ~s.bPsi, s.es[2] \in DOMAIN StreamOf(s)
        PROVE  StreamOf(s)[s.es[2]] = pid
    <3>0. TableBase /\ StreamsOK
      BY DEF TableInv
    <3>1. PICK m \in Sent(s.es[1]) : s.es[2] \in DOMAIN m.streams /\ m.streams[s.es[2]] = pid
      BY <2>1, <2>2, <3>0 DEF StreamsOK
    <3>2. s.es[1] \in 1..MAX_PMT_NUM_PER_PID
      <4>1. s.es[1] \in 1..nProgramNum
        BY <2>1, <2>2, <3>0 DEF StreamsOK
      <4>2. nProgramNum \in 0..MAX_PMT_NUM_PER_PID
        BY <3>0 DEF TableBase
      <4>3. QED
        BY <4>1, <4>2, LimitsAssumption
    <3>3. StreamOf(s) # <<>>
      BY <2>2
    <3>4. PICK n \in Sent(s.es[1]) : StreamOf(s) = n.streams
      BY <3>0, <3>2, <3>3 DEF StreamsOK, StreamOf
    <3>5. m.number = n.number /\ m \in Pmts /\ n \in Pmts
      BY <3>1, <3>4 DEF Sent
    <3>6. QED
      BY <2>2, <3>1, <3>4, <3>5 DEF PlacesStay
  <2>3. QED
    BY <2>1, <2>2
<1>2. QED
  BY <1>1, TableInitInv, TableStep, PTL DEF TableSpec

(* InitPidInfo: in every stream, whatever its tables and even after the    *)
(* slots ran out, each PID in the map has a slot of its own.               *)
THEOREM EveryPidHasItsSlot == TableSpec => []OwnSlots
<1>1. TableInv => OwnSlots
  BY DEF TableInv, TableBase
<1>2. QED
  BY <1>1, TableInitInv, TableStep, PTL DEF TableSpec

-----------------------------------------------------------------------------
(***************************************************************************)
(* Frames.                                                                 *)
(***************************************************************************)
Gathering == [nTsPacketLost : BOOLEAN, frame : Seq(Units), nFrameSize : 0..MaxUnits,
              nFrameBufLen : Nat, bSeenUnitStartFlag : BOOLEAN, overwritten : BOOLEAN,
              inStep : BOOLEAN]

SourceOK ==
    /\ src \in [cc : 0..CC - 1, frame : 0..FrameIds - 1, sent : 0..MaxUnits,
                total : 0..MaxUnits, good : BOOLEAN]
    /\ src.sent <= src.total

(* Only a unit start sets bSeenUnitStartFlag, and its packet follows.      *)
StartFirst ==
    es.bSeenUnitStartFlag => es.frame # <<>> /\ es.frame[1].index = 1 /\ counter # -1

PesBase == /\ SourceOK /\ es \in Gathering /\ faults \in 0..MaxFaults /\ counter \in -1..CC - 1
           /\ StartFirst

(* A packet with a start is the first one of its frame.                    *)
PacketOK(p) ==
    /\ p.start \in BOOLEAN /\ p.payload \in BOOLEAN /\ p.good \in BOOLEAN
    /\ p.cc \in 0..CC - 1 /\ p.size \in 0..MaxUnits /\ p.units \in Seq(Units)
    /\ p.start => Len(p.units) = 1 /\ p.units[1].index = 1

Lost(p) == es.nTsPacketLost \/ (~InSequence(p) /\ counter # -1)

LEMMA CheckReady ==
    ASSUME NEW e \in Gathering
    PROVE  LET r == CheckReadyCallback(e) IN
           /\ r.es \in Gathering /\ ~r.es.bSeenUnitStartFlag
           /\ r.out = IF ~e.nTsPacketLost /\ e.frame # <<>> /\ e.bSeenUnitStartFlag
                      THEN <<[data |-> e.frame, overwritten |-> e.overwritten, inStep |-> e.inStep]>>
                      ELSE <<>>
<1> DEFINE r == CheckReadyCallback(e)
<1>1. r.es = [e EXCEPT !.nTsPacketLost = FALSE, !.frame = <<>>, !.nFrameSize = 0,
                       !.bSeenUnitStartFlag = FALSE, !.overwritten = FALSE]
  BY DEF CheckReadyCallback
<1>2. <<>> \in Seq(Units) /\ 0 \in 0..MaxUnits
  BY BoundsAssumption
<1>3. r.es \in Gathering /\ ~r.es.bSeenUnitStartFlag
  <2> HIDE DEF r
  <2> QED
    BY <1>1, <1>2 DEF Gathering
<1>4. QED
  BY <1>3 DEF CheckReadyCallback

LEMMA AppendedType ==
    ASSUME NEW e \in Gathering, NEW p, PacketOK(p)
    PROVE  LET a == Appended(e, p) IN
           /\ a \in Gathering /\ a.frame = e.frame \o p.units
           /\ a.nTsPacketLost = e.nTsPacketLost /\ a.nFrameSize = e.nFrameSize
           /\ a.bSeenUnitStartFlag = e.bSeenUnitStartFlag /\ a.inStep = e.inStep
<1> DEFINE a == Appended(e, p)
           length == Len(e.frame) + Len(p.units)
           grows == length > e.nFrameBufLen
           size == IF grows THEN 2 * length ELSE e.nFrameBufLen
           over == e.overwritten \/ (grows /\ e.frame # <<>>)
<1>1. e.frame \in Seq(Units) /\ p.units \in Seq(Units) /\ e.nFrameBufLen \in Nat
  BY DEF Gathering, PacketOK
<1>2. e.frame \o p.units \in Seq(Units) /\ Len(e.frame) \in Nat /\ Len(p.units) \in Nat
  BY <1>1
<1>3. size \in Nat
  <2>1. 2 * length \in Nat
    <3>1. \A i, j \in Nat : i + j \in Nat
      OBVIOUS
    <3>2. Len(e.frame) + Len(p.units) \in Nat
      BY <1>2, <3>1, Zenon
    <3>3. length \in Nat
      BY <3>2
    <3> HIDE DEF length
    <3>4. QED
      BY <3>3
  <2>2. QED
    BY <1>1, <2>1
<1>4. over \in BOOLEAN
  BY DEF Gathering
<1>5. a = [e EXCEPT !.frame = e.frame \o p.units, !.nFrameBufLen = size, !.overwritten = over]
  BY DEF Appended, Gathering
<1> HIDE DEF a, size, over
<1>6. a \in Gathering
  BY <1>2, <1>3, <1>4, <1>5 DEF Gathering
<1>7. /\ a.frame = e.frame \o p.units
      /\ a.nTsPacketLost = e.nTsPacketLost /\ a.nFrameSize = e.nFrameSize
      /\ a.bSeenUnitStartFlag = e.bSeenUnitStartFlag /\ a.inStep = e.inStep
  BY <1>5 DEF Gathering
<1>8. QED
  BY <1>6, <1>7 DEF a

(* A packet without a start goes on with the frame being gathered.         *)
LEMMA GatherOn ==
    ASSUME PesBase, NEW p, PacketOK(p), ~p.start, GatherPes(p)
    PROVE  LET frame == es.frame \o p.units IN
           /\ es' \in Gathering
           /\ \/ /\ es'.bSeenUnitStartFlag = es.bSeenUnitStartFlag /\ es'.inStep = es.inStep
                 /\ es'.nTsPacketLost = Lost(p) /\ es'.nFrameSize = es.nFrameSize
                 /\ es'.frame = frame /\ out' = <<>>
              \/ /\ ~es'.bSeenUnitStartFlag
                 /\ \/ out' = <<>>
                    \/ /\ ~Lost(p) /\ es.bSeenUnitStartFlag
                       /\ es.nFrameSize > 0 /\ Len(frame) = es.nFrameSize
                       /\ Len(out') = 1 /\ out'[1].data = frame /\ out'[1].inStep = es.inStep
<1> DEFINE counted == Counted(es, p)
           added == Appended(counted, p)
           complete == added.nFrameSize > 0 /\ Len(added.frame) = added.nFrameSize
           ready == CheckReadyCallback(added)
<1>1. /\ counted \in Gathering /\ counted.nTsPacketLost = Lost(p)
      /\ counted.frame = es.frame /\ counted.nFrameSize = es.nFrameSize
      /\ counted.bSeenUnitStartFlag = es.bSeenUnitStartFlag /\ counted.inStep = es.inStep
  <2>1. es \in Gathering /\ Lost(p) \in BOOLEAN
    BY DEF PesBase, Gathering, Lost
  <2>2. counted = [es EXCEPT !.nTsPacketLost = Lost(p)]
    BY <2>1 DEF Counted, Lost, Gathering
  <2> HIDE DEF counted
  <2>3. QED
    BY <2>1, <2>2 DEF Gathering
<1>2. /\ added \in Gathering /\ added.frame = es.frame \o p.units
      /\ added.nTsPacketLost = Lost(p) /\ added.nFrameSize = es.nFrameSize
      /\ added.bSeenUnitStartFlag = es.bSeenUnitStartFlag /\ added.inStep = es.inStep
  <2> HIDE DEF counted
  <2>1. QED
    BY <1>1, AppendedType
<1>3. IF complete THEN es' = ready.es /\ out' = <<>> \o ready.out
      ELSE es' = added /\ out' = <<>> \o <<>>
  BY DEF GatherPes
<1> HIDE DEF added, counted
<1>4. CASE complete
  <2>1. /\ ready.es \in Gathering /\ ~ready.es.bSeenUnitStartFlag
        /\ ready.out = IF ~added.nTsPacketLost /\ added.frame # <<>> /\ added.bSeenUnitStartFlag
              THEN <<[data |-> added.frame, overwritten |-> added.overwritten, inStep |-> added.inStep]>>
              ELSE <<>>
    BY <1>2, CheckReady
  <2> HIDE DEF ready
  <2>a. es' = ready.es
    BY <1>3, <1>4
  <2>2. CASE ready.out = <<>>
    <3>1. out' = <<>>
      BY <1>3, <1>4, <2>2
    <3>2. QED
      BY <2>1, <2>a, <3>1
  <2>3. CASE /\ ~added.nTsPacketLost /\ added.bSeenUnitStartFlag
             /\ ready.out = <<[data |-> added.frame, overwritten |-> added.overwritten,
                                inStep |-> added.inStep]>>
    <3> DEFINE d == [data |-> added.frame, overwritten |-> added.overwritten,
                     inStep |-> added.inStep]
    <3>1. out' = <<d>>
      <4> HIDE DEF d
      <4>1. out' = <<>> \o <<d>>
        BY <1>3, <1>4, <2>3 DEF d
      <4>2. QED
        BY <4>1
    <3>2. d.data = es.frame \o p.units /\ d.inStep = es.inStep
      BY <1>2
    <3>3. ~Lost(p) /\ es.bSeenUnitStartFlag
      BY <1>2, <2>3
    <3>4. es.nFrameSize > 0 /\ Len(es.frame \o p.units) = es.nFrameSize
      BY <1>2, <1>4
    <3> HIDE DEF d
    <3>5. QED
      BY <2>1, <2>a, <3>1, <3>2, <3>3, <3>4
  <2>4. QED
    BY <2>1, <2>2, <2>3
<1>5. CASE ~complete
  <2>1. es' = added /\ out' = <<>>
    BY <1>3, <1>5
  <2>2. QED
    BY <1>2, <2>1
<1>6. QED
  BY <1>4, <1>5

(* A packet with a start gives out the frame before it, its own if that is *)
(* the whole of one, both or neither.                                      *)
LEMMA GatherStart ==
    ASSUME PesBase, NEW p, PacketOK(p), p.start, GatherPes(p)
    PROVE  /\ es' \in Gathering
           /\ es'.bSeenUnitStartFlag =>
                 /\ ~es'.nTsPacketLost /\ es'.frame = p.units /\ es'.nFrameSize = p.size
                 /\ es'.inStep = (Counter(p) = p.cc)
           /\ \A i \in DOMAIN out' :
                 \/ /\ ~Lost(p) /\ es.bSeenUnitStartFlag
                    /\ out'[i].data = es.frame /\ out'[i].inStep = es.inStep
                 \/ /\ p.size > 0 /\ Len(p.units) = p.size
                    /\ out'[i].data = p.units /\ out'[i].inStep = (Counter(p) = p.cc)
<1> DEFINE counted == Counted(es, p)
           closed == IF counted.frame # <<>> THEN CheckReadyCallback(counted)
                     ELSE [es |-> counted, out |-> <<>>]
           opened == Opened(closed.es, p)
           added == Appended(opened, p)
           complete == added.nFrameSize > 0 /\ Len(added.frame) = added.nFrameSize
           ready == CheckReadyCallback(added)
           given(s, e) == \A i \in DOMAIN s : /\ ~e.nTsPacketLost /\ e.bSeenUnitStartFlag
                                              /\ s[i].data = e.frame /\ s[i].inStep = e.inStep
<1>0. ASSUME NEW e \in Gathering
      PROVE  /\ CheckReadyCallback(e).es \in Gathering
             /\ ~CheckReadyCallback(e).es.bSeenUnitStartFlag
             /\ Len(CheckReadyCallback(e).out) \in 0..1
             /\ CheckReadyCallback(e).out = <<>> \/ \E d : CheckReadyCallback(e).out = <<d>>
             /\ given(CheckReadyCallback(e).out, e)
  <2> DEFINE r == CheckReadyCallback(e)
  <2>1. /\ r.es \in Gathering /\ ~r.es.bSeenUnitStartFlag
        /\ r.out = IF ~e.nTsPacketLost /\ e.frame # <<>> /\ e.bSeenUnitStartFlag
                   THEN <<[data |-> e.frame, overwritten |-> e.overwritten, inStep |-> e.inStep]>>
                   ELSE <<>>
    BY CheckReady
  <2> HIDE DEF r
  <2>2. CASE r.out = <<>>
    <3>1. Len(r.out) \in 0..1 /\ DOMAIN r.out = {}
      BY <2>2
    <3>2. QED
      BY <2>1, <2>2, <3>1 DEF r
  <2>3. CASE r.out # <<>>
    <3> DEFINE d == [data |-> e.frame, overwritten |-> e.overwritten, inStep |-> e.inStep]
    <3>1. r.out = <<d>> /\ ~e.nTsPacketLost /\ e.bSeenUnitStartFlag
      BY <2>1, <2>3
    <3>2. d.data = e.frame /\ d.inStep = e.inStep
      OBVIOUS
    <3> HIDE DEF d
    <3>3. Len(r.out) = 1 /\ DOMAIN r.out = {1} /\ r.out[1] = d
      BY <3>1
    <3>4. given(r.out, e)
      BY <3>1, <3>2, <3>3
    <3>5. QED
      BY <2>1, <3>1, <3>3, <3>4 DEF r
  <2>4. QED
    BY <2>2, <2>3
<1>1. /\ counted \in Gathering /\ counted.nTsPacketLost = Lost(p)
      /\ counted.frame = es.frame /\ counted.nFrameSize = es.nFrameSize
      /\ counted.bSeenUnitStartFlag = es.bSeenUnitStartFlag /\ counted.inStep = es.inStep
  <2>1. es \in Gathering /\ Lost(p) \in BOOLEAN
    BY DEF PesBase, Gathering, Lost
  <2>2. counted = [es EXCEPT !.nTsPacketLost = Lost(p)]
    BY <2>1 DEF Counted, Lost, Gathering
  <2> HIDE DEF counted
  <2>3. QED
    BY <2>1, <2>2 DEF Gathering
<1> HIDE DEF given, counted
<1>2. /\ closed.es \in Gathering /\ ~closed.es.bSeenUnitStartFlag
      /\ closed.out = <<>> \/ \E d : closed.out = <<d>>
      /\ given(closed.out, counted)
  <2>1. CASE counted.frame # <<>>
    <3>1. closed = CheckReadyCallback(counted)
      BY <2>1
    <3> HIDE DEF closed
    <3>2. QED
      BY <1>0, <1>1, <3>1
  <2>2. CASE counted.frame = <<>>
    <3>1. closed.es = counted /\ closed.out = <<>>
      BY <2>2
    <3>2. ~counted.bSeenUnitStartFlag
      BY <1>1, <2>2 DEF PesBase, StartFirst
    <3> HIDE DEF closed
    <3>3. given(closed.out, counted)
      BY <3>1 DEF given
    <3>4. QED
      BY <1>1, <3>1, <3>2, <3>3
  <2>3. QED
    BY <2>1, <2>2
<1>3. /\ opened \in Gathering /\ opened.frame = <<>> /\ opened.bSeenUnitStartFlag
      /\ ~opened.nTsPacketLost /\ opened.nFrameSize = p.size
      /\ opened.inStep = (Counter(p) = p.cc)
  <2>1. <<>> \in Seq(Units) /\ p.size \in 0..MaxUnits /\ (Counter(p) = p.cc) \in BOOLEAN
    BY DEF PacketOK
  <2> DEFINE step == (Counter(p) = p.cc)
  <2>2. opened = [closed.es EXCEPT !.nTsPacketLost = FALSE, !.frame = <<>>,
                     !.bSeenUnitStartFlag = TRUE, !.nFrameSize = p.size, !.overwritten = FALSE,
                     !.inStep = step]
    BY DEF Opened
  <2> HIDE DEF opened, closed, step
  <2>3. opened \in Gathering
    BY <1>2, <2>1, <2>2 DEF Gathering, step
  <2>4. QED
    BY <1>2, <2>2, <2>3 DEF Gathering, step
<1> HIDE DEF opened
<1>4. /\ added \in Gathering /\ added.frame = p.units /\ added.bSeenUnitStartFlag
      /\ ~added.nTsPacketLost /\ added.nFrameSize = p.size
      /\ added.inStep = (Counter(p) = p.cc)
  <2>1. /\ added \in Gathering /\ added.frame = opened.frame \o p.units
        /\ added.nTsPacketLost = opened.nTsPacketLost /\ added.nFrameSize = opened.nFrameSize
        /\ added.bSeenUnitStartFlag = opened.bSeenUnitStartFlag /\ added.inStep = opened.inStep
    BY <1>3, AppendedType
  <2>2. <<>> \o p.units = p.units
    BY DEF PacketOK
  <2> HIDE DEF added
  <2>3. QED
    BY <1>3, <2>1, <2>2
<1> HIDE DEF added
<1>5. IF p.good
      THEN IF complete THEN es' = ready.es /\ out' = closed.out \o ready.out
           ELSE es' = added /\ out' = closed.out \o <<>>
      ELSE es' = closed.es /\ out' = closed.out
  BY DEF GatherPes, added, opened, counted, PacketOK
<1>6. /\ ready.es \in Gathering /\ ~ready.es.bSeenUnitStartFlag
      /\ ready.out = <<>> \/ \E d : ready.out = <<d>>
      /\ given(ready.out, added)
  BY <1>0, <1>4
<1> HIDE DEF closed, ready
<1>7. /\ DOMAIN (closed.out \o <<>>) = DOMAIN closed.out
      /\ \A i \in DOMAIN closed.out : (closed.out \o <<>>)[i] = closed.out[i]
  BY <1>2
<1>8. \A i \in DOMAIN (closed.out \o ready.out) :
         \/ \E j \in DOMAIN closed.out : (closed.out \o ready.out)[i] = closed.out[j]
         \/ \E j \in DOMAIN ready.out : (closed.out \o ready.out)[i] = ready.out[j]
  <2> DEFINE c == closed.out
             d == ready.out
  <2>1. c = <<>> \/ \E x : c = <<x>>
    BY <1>2
  <2>2. d = <<>> \/ \E x : d = <<x>>
    BY <1>6
  <2> HIDE DEF c, d
  <2>3. \A i \in DOMAIN (c \o d) : (\E j \in DOMAIN c : (c \o d)[i] = c[j])
                                 \/ (\E j \in DOMAIN d : (c \o d)[i] = d[j])
    <3>1. ASSUME c = <<>>, d = <<>> PROVE DOMAIN (c \o d) = {}
      BY <3>1
    <3>2. ASSUME NEW x, c = <<x>>, d = <<>>
          PROVE  /\ DOMAIN (c \o d) = {1} /\ (c \o d)[1] = x
                 /\ 1 \in DOMAIN c /\ c[1] = x
      BY <3>2
    <3>3. ASSUME NEW x, c = <<>>, d = <<x>>
          PROVE  /\ DOMAIN (c \o d) = {1} /\ (c \o d)[1] = x
                 /\ 1 \in DOMAIN d /\ d[1] = x
      BY <3>3
    <3>4. ASSUME NEW x, NEW y, c = <<x>>, d = <<y>>
          PROVE  /\ DOMAIN (c \o d) = {1, 2} /\ (c \o d)[1] = x /\ (c \o d)[2] = y
                 /\ 1 \in DOMAIN c /\ c[1] = x /\ 1 \in DOMAIN d /\ d[1] = y
      BY <3>4
    <3>5. CASE c = <<>> /\ d = <<>>
      BY <3>1, <3>5
    <3>6. CASE c # <<>> /\ d = <<>>
      BY <2>1, <3>2, <3>6
    <3>7. CASE c = <<>> /\ d # <<>>
      BY <2>2, <3>3, <3>7
    <3>8. CASE c # <<>> /\ d # <<>>
      BY <2>1, <2>2, <3>4, <3>8
    <3>9. QED
      BY <3>5, <3>6, <3>7, <3>8
  <2>4. QED
    BY <2>3 DEF c, d
<1>9. \A i \in DOMAIN out' : \/ \E j \in DOMAIN closed.out : out'[i] = closed.out[j]
                             \/ complete /\ \E j \in DOMAIN ready.out : out'[i] = ready.out[j]
  <2> HIDE DEF complete
  <2>1. CASE p.good /\ complete
    <3> DEFINE o == closed.out \o ready.out
    <3>1. out' = o
      BY <1>5, <2>1
    <3>2. \A i \in DOMAIN o : \/ \E j \in DOMAIN closed.out : o[i] = closed.out[j]
                              \/ \E j \in DOMAIN ready.out : o[i] = ready.out[j]
      BY <1>8
    <3> HIDE DEF o
    <3>3. QED
      BY <2>1, <3>1, <3>2
  <2>2. CASE p.good /\ ~complete
    <3> DEFINE o == closed.out \o <<>>
    <3>1. out' = o
      BY <1>5, <2>2
    <3>2. DOMAIN o = DOMAIN closed.out /\ \A i \in DOMAIN closed.out : o[i] = closed.out[i]
      BY <1>7
    <3> HIDE DEF o
    <3>3. QED
      BY <3>1, <3>2
  <2>3. CASE ~p.good
    <3>1. out' = closed.out
      BY <1>5, <2>3
    <3>2. QED
      BY <3>1
  <2>4. QED
    BY <2>1, <2>2, <2>3
<1>10. \A j \in DOMAIN closed.out :
          /\ ~Lost(p) /\ es.bSeenUnitStartFlag
          /\ closed.out[j].data = es.frame /\ closed.out[j].inStep = es.inStep
  BY <1>1, <1>2 DEF given
<1>11. complete => \A j \in DOMAIN ready.out :
          /\ p.size > 0 /\ Len(p.units) = p.size
          /\ ready.out[j].data = p.units /\ ready.out[j].inStep = (Counter(p) = p.cc)
  BY <1>4, <1>6 DEF given
<1>12. /\ es' \in Gathering
       /\ es'.bSeenUnitStartFlag => es' = added
  BY <1>2, <1>4, <1>5, <1>6
<1>13. QED
  BY <1>4, <1>9, <1>10, <1>11, <1>12

(* Counters modulo CC.                                                     *)
LEMMA Wraps ==
    ASSUME NEW x \in Int, -CC < x, x <= CC
    PROVE  x % CC = IF x < 0 THEN x + CC ELSE IF x = CC THEN 0 ELSE x
  BY DEF CC

LEMMA ConcatStarts ==
    ASSUME NEW S, NEW a \in Seq(S), NEW b \in Seq(S)
    PROVE  /\ a \o b \in Seq(S) /\ Len(a \o b) = Len(a) + Len(b)
           /\ a # <<>> => a \o b # <<>> /\ (a \o b)[1] = a[1]
<1> DEFINE c == a \o b
<1>1. c \in Seq(S) /\ Len(c) = Len(a) + Len(b) /\ \A i \in 1..Len(a) : c[i] = a[i]
  OBVIOUS
<1>2. Len(a) \in Nat /\ Len(b) \in Nat
  OBVIOUS
<1> HIDE DEF c
<1>3. ASSUME a # <<>> PROVE c # <<>> /\ c[1] = a[1]
  <2>1. Len(a) # 0
    BY <1>3, EmptySeq
  <2>2. Len(c) # 0 /\ 1 \in 1..Len(a)
    BY <1>1, <1>2, <2>1
  <2>3. c # <<>>
    BY <2>2
  <2>4. QED
    BY <1>1, <2>2, <2>3
<1>4. QED
  BY <1>1, <1>3 DEF c

LEMMA GatherBase ==
    ASSUME PesBase, NEW p, PacketOK(p), GatherPes(p)
    PROVE  /\ es' \in Gathering /\ counter' \in 0..CC - 1 /\ StartFirst'
           /\ \A i \in DOMAIN out' : out'[i].data[1].index = 1
<1>1. counter' \in 0..CC - 1
  <2>1. counter' = Counter(p) /\ p.cc \in 0..CC - 1 /\ counter \in -1..CC - 1
    BY DEF GatherPes, PesBase, PacketOK
  <2>2. (counter + 1) % CC \in 0..CC - 1
    BY <2>1 DEF CC
  <2>3. QED
    BY <2>1, <2>2 DEF Counter
<1>2. CASE p.start
  <2>1. p.units \in Seq(Units) /\ Len(p.units) = 1 /\ p.units[1].index = 1
    BY <1>2 DEF PacketOK
  <2>2. es' \in Gathering /\ (es'.bSeenUnitStartFlag => es'.frame = p.units)
    BY <1>2, GatherStart
  <2>3. StartFirst'
    BY <1>1, <2>1, <2>2 DEF StartFirst
  <2>4. \A i \in DOMAIN out' : \/ es.bSeenUnitStartFlag /\ out'[i].data = es.frame
                               \/ out'[i].data = p.units
    BY <1>2, GatherStart
  <2>5. \A i \in DOMAIN out' : out'[i].data[1].index = 1
    BY <2>1, <2>4 DEF PesBase, StartFirst
  <2>6. QED
    BY <1>1, <2>2, <2>3, <2>5
<1>3. CASE ~p.start
  <2> DEFINE frame == es.frame \o p.units
  <2>1. es' \in Gathering
    BY <1>3, GatherOn
  <2>2. es.bSeenUnitStartFlag => frame # <<>> /\ frame[1].index = 1
    <3>1. es.frame \in Seq(Units) /\ p.units \in Seq(Units)
      BY DEF PesBase, Gathering, PacketOK
    <3>2. es.frame # <<>> => frame # <<>> /\ frame[1] = es.frame[1]
      BY <3>1, ConcatStarts
    <3> HIDE DEF frame
    <3>3. QED
      BY <3>2 DEF PesBase, StartFirst
  <2>3. es'.bSeenUnitStartFlag => es.bSeenUnitStartFlag /\ es'.frame = frame
    BY <1>3, GatherOn
  <2>4. out' = <<>> \/ (es.bSeenUnitStartFlag /\ Len(out') = 1 /\ out'[1].data = frame)
    BY <1>3, GatherOn
  <2> HIDE DEF frame
  <2>5. StartFirst'
    BY <1>1, <2>2, <2>3 DEF StartFirst
  <2>6. \A i \in DOMAIN out' : out'[i].data[1].index = 1
    BY <2>2, <2>4
  <2>7. QED
    BY <1>1, <2>1, <2>5, <2>6
<1>4. QED
  BY <1>2, <1>3 DEF PacketOK

(* The source goes on to the next packet.                                  *)
LEMMA SourceStep ==
    ASSUME SourceOK, NEW s \in Following(src)
    PROVE  /\ s \in [cc : 0..CC - 1, frame : 0..FrameIds - 1, sent : 0..MaxUnits,
                     total : 0..MaxUnits, good : BOOLEAN]
           /\ s.sent \in 1..s.total /\ s.cc = (src.cc + 1) % CC
           /\ IF src.sent = src.total THEN s.sent = 1
              ELSE s.sent = src.sent + 1 /\ s.frame = src.frame /\ s.total = src.total
<1> USE BoundsAssumption
<1>1. (src.cc + 1) % CC \in 0..CC - 1
  BY DEF SourceOK, CC
<1>2. (src.frame + 1) % FrameIds \in 0..FrameIds - 1
  BY DEF SourceOK
<1>3. CASE src.sent = src.total
  BY <1>1, <1>2, <1>3 DEF SourceOK, Following
<1>4. CASE src.sent # src.total
  <2>1. s = [src EXCEPT !.cc = (src.cc + 1) % CC, !.sent = src.sent + 1]
    BY <1>4 DEF SourceOK, Following
  <2>2. src.sent + 1 \in 0..MaxUnits /\ src.sent + 1 \in 1..src.total
    BY <1>4 DEF SourceOK
  <2>3. QED
    BY <1>1, <1>4, <2>1, <2>2 DEF SourceOK
<1>5. QED
  BY <1>3, <1>4

LEMMA PacketSent ==
    ASSUME NEW s \in [cc : 0..CC - 1, frame : 0..FrameIds - 1, sent : 0..MaxUnits,
                      total : 0..MaxUnits, good : BOOLEAN],
           s.sent \in 1..s.total, NEW size \in Sizes(s)
    PROVE  LET p == Packet(s, size)
               u == [frame |-> s.frame, index |-> s.sent, total |-> s.total] IN
           /\ PacketOK(p) /\ p.units = <<u>> /\ u \in Units
           /\ p.cc = s.cc /\ p.payload /\ p.start = (s.sent = 1) /\ p.size = size
<1> DEFINE u == [frame |-> s.frame, index |-> s.sent, total |-> s.total]
           p == Packet(s, size)
<1>1. u \in Units /\ u.index = s.sent
  BY BoundsAssumption DEF Units
<1>2. p = [start |-> s.sent = 1, payload |-> TRUE, good |-> s.good, cc |-> s.cc, size |-> size,
           units |-> <<u>>]
  BY DEF Packet
<1>3. size \in 0..MaxUnits
  BY BoundsAssumption DEF Sizes
<1> HIDE DEF u, p
<1>4. <<u>> \in Seq(Units) /\ Len(<<u>>) = 1 /\ <<u>>[1] = u
  BY <1>1
<1>5. PacketOK(p)
  BY <1>1, <1>2, <1>3, <1>4 DEF PacketOK
<1>6. QED
  BY <1>1, <1>2, <1>5 DEF u, p

LEMMA PesInitBase == PesInit => PesBase
<1> SUFFICES ASSUME PesInit PROVE PesBase
  OBVIOUS
<1> USE BoundsAssumption, FrameLenAssumption DEF PesInit
<1>1. SourceOK
  BY DEF SourceOK, CC
<1>2. <<>> \in Seq(Units) /\ 0 \in 0..MaxUnits /\ NORMAL_FRAME_LEN \in Nat
  OBVIOUS
<1>3. es \in Gathering /\ ~es.bSeenUnitStartFlag
  BY <1>2 DEF Gathering
<1>4. faults \in 0..MaxFaults /\ counter \in -1..CC - 1
  BY DEF CC
<1>5. QED
  BY <1>1, <1>3, <1>4 DEF PesBase, StartFirst

(* One step for each of the packets the source and the link may give.      *)
LEMMA SendBase ==
    ASSUME PesBase, Send
    PROVE  PesBase' /\ \A i \in DOMAIN out' : out'[i].data[1].index = 1
<1>1. PICK s \in Following(src) :
         src' = s /\ (\E size \in Sizes(s) : GatherPes(Packet(s, size))) /\ faults' = faults
  BY DEF Send
<1>2. PICK size \in Sizes(s) : GatherPes(Packet(s, size))
  BY <1>1
<1>3. /\ s \in [cc : 0..CC - 1, frame : 0..FrameIds - 1, sent : 0..MaxUnits,
                total : 0..MaxUnits, good : BOOLEAN]
      /\ s.sent \in 1..s.total
  BY SourceStep DEF PesBase
<1>4. PacketOK(Packet(s, size))
  BY <1>3, PacketSent
<1>5. /\ es' \in Gathering /\ counter' \in 0..CC - 1 /\ StartFirst'
      /\ \A i \in DOMAIN out' : out'[i].data[1].index = 1
  BY <1>2, <1>4, GatherBase
<1>6. SourceOK'
  BY <1>1, <1>3 DEF SourceOK
<1>7. faults' \in 0..MaxFaults /\ counter' \in -1..CC - 1
  BY <1>1, <1>5 DEF PesBase, CC
<1>8. QED
  BY <1>5, <1>6, <1>7 DEF PesBase

LEMMA RepeatBase ==
    ASSUME PesBase, Repeat
    PROVE  PesBase' /\ \A i \in DOMAIN out' : out'[i].data[1].index = 1
<1>1. PICK size \in Sizes(src) : GatherPes(Packet(src, size))
  BY DEF Repeat
<1>2. faults < MaxFaults /\ faults' = faults + 1 /\ src.sent > 0 /\ src' = src
  BY DEF Repeat
<1>3. src.sent \in 1..src.total
  BY <1>2, BoundsAssumption DEF PesBase, SourceOK
<1>4. PacketOK(Packet(src, size))
  BY <1>3, PacketSent DEF PesBase, SourceOK
<1>5. /\ es' \in Gathering /\ counter' \in 0..CC - 1 /\ StartFirst'
      /\ \A i \in DOMAIN out' : out'[i].data[1].index = 1
  BY <1>1, <1>4, GatherBase
<1>6. SourceOK'
  BY <1>2 DEF PesBase, SourceOK
<1>7. faults' \in 0..MaxFaults /\ counter' \in -1..CC - 1
  BY <1>2, <1>5, BoundsAssumption DEF PesBase, CC
<1>8. QED
  BY <1>5, <1>6, <1>7 DEF PesBase

LEMMA AdaptationBase ==
    ASSUME PesBase, AdaptationOnly
    PROVE  PesBase' /\ \A i \in DOMAIN out' : out'[i].data[1].index = 1
<1> DEFINE p == [start |-> FALSE, payload |-> FALSE, good |-> TRUE, cc |-> src.cc,
                 size |-> 0, units |-> <<>>]
<1>1. GatherPes(p) /\ faults < MaxFaults /\ faults' = faults + 1 /\ src' = src
  BY DEF AdaptationOnly
<1>2. PacketOK(p)
  <2>1. <<>> \in Seq(Units) /\ 0 \in 0..MaxUnits /\ src.cc \in 0..CC - 1
    BY BoundsAssumption DEF PesBase, SourceOK
  <2>2. QED
    BY <2>1 DEF PacketOK
<1> HIDE DEF p
<1>3. /\ es' \in Gathering /\ counter' \in 0..CC - 1 /\ StartFirst'
      /\ \A i \in DOMAIN out' : out'[i].data[1].index = 1
  BY <1>1, <1>2, GatherBase
<1>4. SourceOK'
  BY <1>1 DEF PesBase, SourceOK
<1>5. faults' \in 0..MaxFaults /\ counter' \in -1..CC - 1
  BY <1>1, <1>3, BoundsAssumption DEF PesBase, CC
<1>6. QED
  BY <1>3, <1>4, <1>5 DEF PesBase

LEMMA QuietBase ==
    ASSUME PesBase, Drop \/ NewPmt
    PROVE  PesBase' /\ out' = <<>>
<1>1. /\ faults' \in 0..MaxFaults /\ counter' = counter /\ out' = <<>>
  BY BoundsAssumption DEF PesBase, Drop, NewPmt
<1>2. SourceOK'
  <2>1. CASE Drop
    <3>1. /\ src' \in [cc : 0..CC - 1, frame : 0..FrameIds - 1, sent : 0..MaxUnits,
                        total : 0..MaxUnits, good : BOOLEAN]
          /\ src'.sent \in 1..src'.total
      BY <2>1, SourceStep DEF Drop, PesBase
    <3>2. QED
      BY <3>1 DEF SourceOK
  <2>2. CASE NewPmt
    BY <2>2 DEF NewPmt, PesBase, SourceOK
  <2>3. QED
    BY <2>1, <2>2
<1>3. /\ es' \in Gathering /\ es'.bSeenUnitStartFlag = es.bSeenUnitStartFlag
      /\ es'.frame = es.frame
  <2>1. CASE Drop
    BY <2>1 DEF Drop, PesBase
  <2>2. CASE NewPmt
    <3> DEFINE over == es.overwritten \/ es.frame # <<>>
    <3>1. es' = [es EXCEPT !.nFrameBufLen = NORMAL_FRAME_LEN, !.overwritten = over]
      BY <2>2 DEF NewPmt, PesBase, Gathering
    <3>2. over \in BOOLEAN /\ NORMAL_FRAME_LEN \in Nat
      BY FrameLenAssumption DEF PesBase, Gathering
    <3> HIDE DEF over
    <3>3. QED
      BY <3>1, <3>2 DEF PesBase, Gathering
  <2>3. QED
    BY <2>1, <2>2
<1>4. QED
  BY <1>1, <1>2, <1>3 DEF PesBase, StartFirst

LEMMA PesBaseStep ==
    ASSUME PesBase, [PesNext]_pesVars
    PROVE  PesBase' /\ (UNCHANGED pesVars \/ \A i \in DOMAIN out' : out'[i].data[1].index = 1)
<1>1. CASE UNCHANGED pesVars
  BY <1>1 DEF PesBase, SourceOK, StartFirst, pesVars
<1>2. CASE Drop \/ NewPmt
  BY <1>2, QuietBase
<1>3. QED
  BY <1>1, <1>2, SendBase, RepeatBase, AdaptationBase DEF PesNext

(* CheckReadyCallback: however packets are lost and repeated, and whatever *)
(* lengths the headers announce, every frame given out begins with the     *)
(* first packet of a frame.                                                *)
THEOREM FramesBeginAtStart == PesSpec => OneDeliveryPerFrame
<1>1. PesBase /\ [PesNext]_pesVars => PesBase'
  BY PesBaseStep
<1>2. PesBase /\ [PesNext]_pesVars => [\A i \in DOMAIN out' : out'[i].data[1].index = 1]_pesVars
  BY PesBaseStep
<1>3. QED
  BY <1>1, <1>2, PesInitBase, PTL DEF PesSpec, OneDeliveryPerFrame

(* While nothing is counted lost of a frame whose first packet met the     *)
(* decoder in step, what is gathered is the beginning of that frame, and   *)
(* the decoder is behind the source by no more packets than were dropped:  *)
(* by none, in that frame at that packet, by one, just after it, or by     *)
(* more, so that no packet is in sequence any more.                        *)
InOrder(d) == \A j \in DOMAIN d : d[j] = [d[1] EXCEPT !.index = j]

Behind == (src.cc - counter) % CC

Whole(e) == e.bSeenUnitStartFlag /\ e.inStep /\ ~e.nTsPacketLost

At(s, d, n) == s.frame = d[1].frame /\ s.total = d[1].total /\ s.sent = n

GatheredIntact ==
    Whole(es) =>
        /\ InOrder(es.frame) /\ Len(es.frame) <= es.frame[1].total
        /\ es.nFrameSize \in {0, es.frame[1].total}
        /\ Behind <= faults
        /\ Behind = 0 => At(src, es.frame, Len(es.frame))
        /\ Behind = 1 => \/ At(src, es.frame, Len(es.frame) + 1)
                         \/ src.sent = 1 /\ Len(es.frame) = es.frame[1].total

PesInv == PesBase /\ GatheredIntact /\ DeliveredIntact

LEMMA Behinds ==
    ASSUME NEW c \in 0..CC - 1, NEW a \in 0..CC - 1, NEW b, b = (a + 1) % CC
    PROVE  /\ b \in 0..CC - 1
           /\ (a - c) % CC \in 0..CC - 1 /\ ((a - c) % CC = 0 <=> a = c)
           /\ (b - c) % CC = 1 <=> a = c
           /\ (a - c) % CC = 1 => (c + 1) % CC = a
           /\ (a - c) % CC < CC - 1 => (b - c) % CC = ((a - c) % CC) + 1
<1>1. b = IF a = CC - 1 THEN 0 ELSE a + 1
  BY Wraps DEF CC
<1>2. (a - c) % CC = IF a < c THEN a - c + CC ELSE a - c
  BY Wraps DEF CC
<1>3. (b - c) % CC = IF b < c THEN b - c + CC ELSE b - c
  BY <1>1, Wraps DEF CC
<1>4. (c + 1) % CC = IF c = CC - 1 THEN 0 ELSE c + 1
  BY Wraps DEF CC
<1> DEFINE k == (a - c) % CC
           l == (b - c) % CC
           d == (c + 1) % CC
<1> HIDE DEF k, l, d
<1>5. /\ k = IF a < c THEN a - c + CC ELSE a - c
      /\ l = IF b < c THEN b - c + CC ELSE b - c
      /\ d = IF c = CC - 1 THEN 0 ELSE c + 1
  BY <1>2, <1>3, <1>4 DEF k, l, d
<1>6. /\ b \in 0..CC - 1 /\ k \in 0..CC - 1 /\ (k = 0 <=> a = c) /\ (l = 1 <=> a = c)
      /\ (k = 1 => d = a) /\ (k < CC - 1 => l = k + 1)
  BY <1>1, <1>5 DEF CC
<1>7. QED
  BY <1>6 DEF k, l, d

(* The next packet of a frame in order keeps it in order.                  *)
LEMMA OrderKept ==
    ASSUME NEW d \in Seq(Units), d # <<>>, InOrder(d), NEW u \in Units,
           u.frame = d[1].frame, u.total = d[1].total, u.index = Len(d) + 1
    PROVE  LET e == d \o <<u>> IN InOrder(e) /\ Len(e) = Len(d) + 1 /\ e[1] = d[1]
<1> DEFINE e == d \o <<u>>
<1>1. <<u>> \in Seq(Units) /\ Len(<<u>>) = 1
  OBVIOUS
<1>2. Len(e) = Len(d) + 1 /\ e[1] = d[1] /\ e \in Seq(Units)
  BY <1>1, ConcatStarts
<1>3. DOMAIN e = 1..Len(d) + 1 /\ Len(d) \in Nat
  BY <1>2, LenProperties
<1>4. \A j \in 1..Len(d) : e[j] = d[j]
  OBVIOUS
<1>5. e[Len(d) + 1] = u
  OBVIOUS
<1>6. d[1] \in Units
  <2>1. Len(d) # 0
    BY EmptySeq
  <2>2. 1 \in 1..Len(d)
    BY <1>3, <2>1
  <2>3. QED
    BY <2>2, ElementOfSeq
<1>7. u = [d[1] EXCEPT !.index = Len(d) + 1]
  BY <1>6 DEF Units
<1> HIDE DEF e
<1>8. ASSUME NEW j \in DOMAIN e PROVE e[j] = [e[1] EXCEPT !.index = j]
  <2>1. CASE j \in 1..Len(d)
    <3>1. j \in DOMAIN d
      BY <2>1, LenProperties
    <3>2. QED
      BY <1>2, <1>4, <2>1, <3>1 DEF InOrder
  <2>2. CASE j = Len(d) + 1
    BY <1>2, <1>5, <1>7, <2>2
  <2>3. QED
    BY <1>3, <1>8, <2>1, <2>2
<1>9. QED
  BY <1>2, <1>8 DEF InOrder, e

DeliveredWell(o) ==
    ~o.overwritten /\ o.inStep =>
        /\ Len(o.data) = o.data[1].total
        /\ \A j \in DOMAIN o.data : o.data[j] = [o.data[1] EXCEPT !.index = j]

(* A packet of the frame gathered, when it is in sequence, is the one that *)
(* comes next, or the first of the frame after it.                         *)
LEMMA PacketIntact ==
    ASSUME PesBase, GatheredIntact,
           NEW s \in [cc : 0..CC - 1, frame : 0..FrameIds - 1, sent : 0..MaxUnits,
                      total : 0..MaxUnits, good : BOOLEAN],
           s.sent \in 1..s.total, NEW size \in Sizes(s), NEW p, p = Packet(s, size),
           GatherPes(p), src' = s, faults' \in Nat,
           es.bSeenUnitStartFlag /\ es.inStep /\ ~Lost(p) =>
               /\ Counter(p) = s.cc
               /\ IF s.sent = 1 THEN Len(es.frame) = es.frame[1].total
                  ELSE At(s, es.frame, Len(es.frame) + 1)
    PROVE  GatheredIntact' /\ DeliveredIntact'
<1> DEFINE u == [frame |-> s.frame, index |-> s.sent, total |-> s.total]
<1>1. /\ PacketOK(p) /\ p.units = <<u>> /\ u \in Units
      /\ p.cc = s.cc /\ p.payload /\ p.start = (s.sent = 1) /\ p.size = size
  BY PacketSent
<1>2. u.frame = s.frame /\ u.index = s.sent /\ u.total = s.total
  OBVIOUS
<1> HIDE DEF u
<1>3. es.frame \in Seq(Units) /\ (es.bSeenUnitStartFlag => es.frame # <<>>)
  BY DEF PesBase, Gathering, StartFirst
<1>4. counter' = Counter(p) /\ counter' \in 0..CC - 1
  BY <1>1, GatherBase DEF GatherPes
<1>5. Counter(p) = s.cc => Behind' = 0
  BY <1>4 DEF Behind, CC
<1>6. ~Lost(p) => ~es.nTsPacketLost
  BY DEF Lost
<1>7. DeliveredIntact' <=> \A i \in DOMAIN out' : DeliveredWell(out'[i])
  BY DEF DeliveredIntact, DeliveredWell
<1>8. s.frame \in 0..FrameIds - 1 /\ s.total \in 1..MaxUnits /\ s.sent \in 1..s.total
  BY BoundsAssumption
<1>9. CASE s.sent = 1
  <2>1. p.start
    BY <1>1, <1>9
  <2>2. InOrder(<<u>>) /\ Len(<<u>>) = 1 /\ <<u>>[1] = u
    BY <1>1, <1>2, <1>9 DEF InOrder, Units
  <2>3. /\ es'.bSeenUnitStartFlag =>
              /\ ~es'.nTsPacketLost /\ es'.frame = <<u>> /\ es'.nFrameSize = size
              /\ es'.inStep = (Counter(p) = s.cc)
        /\ \A i \in DOMAIN out' :
              \/ /\ ~Lost(p) /\ es.bSeenUnitStartFlag
                 /\ out'[i].data = es.frame /\ out'[i].inStep = es.inStep
              \/ /\ size > 0 /\ Len(<<u>>) = size
                 /\ out'[i].data = <<u>>
    <3> DEFINE step == (Counter(p) = p.cc)
    <3>1. step = (Counter(p) = s.cc)
      BY <1>1
    <3> HIDE DEF step
    <3>2. /\ es'.bSeenUnitStartFlag =>
                /\ ~es'.nTsPacketLost /\ es'.frame = p.units /\ es'.nFrameSize = p.size
                /\ es'.inStep = step
          /\ \A i \in DOMAIN out' :
                \/ /\ ~Lost(p) /\ es.bSeenUnitStartFlag
                   /\ out'[i].data = es.frame /\ out'[i].inStep = es.inStep
                \/ /\ p.size > 0 /\ Len(p.units) = p.size
                   /\ out'[i].data = p.units
      BY <1>1, <2>1, GatherStart DEF step
    <3>3. p.units = <<u>> /\ p.size = size
      BY <1>1
    <3>4. QED
      BY <3>1, <3>2, <3>3
  <2>4. size \in {0, s.total}
    BY <1>9 DEF Sizes
  <2>5. GatheredIntact'
    <3> SUFFICES ASSUME Whole(es)' PROVE
          /\ InOrder(es'.frame) /\ Len(es'.frame) <= es'.frame[1].total
          /\ es'.nFrameSize \in {0, es'.frame[1].total}
          /\ Behind' = 0 /\ At(src', es'.frame, Len(es'.frame))
      BY BoundsAssumption DEF GatheredIntact, PesBase
    <3>1. es'.frame = <<u>> /\ es'.nFrameSize = size /\ Counter(p) = s.cc
      BY <2>3 DEF Whole
    <3>2. QED
      BY <1>2, <1>5, <1>8, <1>9, <2>2, <2>4, <3>1 DEF At
  <2>6. ASSUME NEW i \in DOMAIN out' PROVE DeliveredWell(out'[i])
    <3>1. CASE ~Lost(p) /\ es.bSeenUnitStartFlag /\ out'[i].data = es.frame
               /\ out'[i].inStep = es.inStep
      <4> SUFFICES ASSUME es.inStep
                   PROVE  Len(es.frame) = es.frame[1].total /\ InOrder(es.frame)
        BY <3>1 DEF DeliveredWell, InOrder
      <4>1. Whole(es)
        BY <1>6, <3>1 DEF Whole
      <4>2. QED
        BY <1>9, <3>1, <4>1 DEF GatheredIntact
    <3>2. CASE size > 0 /\ Len(<<u>>) = size /\ out'[i].data = <<u>>
      <4>1. Len(<<u>>) = <<u>>[1].total /\ InOrder(<<u>>)
        BY <1>2, <2>2, <2>4, <3>2
      <4>2. QED
        BY <3>2, <4>1 DEF DeliveredWell, InOrder
    <3>3. QED
      BY <2>3, <3>1, <3>2
  <2>7. QED
    BY <1>7, <2>5, <2>6
<1>10. CASE s.sent # 1
  <2> DEFINE frame == es.frame \o <<u>>
  <2>1. ~p.start
    BY <1>1, <1>10
  <2>2. /\ \/ /\ es'.bSeenUnitStartFlag = es.bSeenUnitStartFlag /\ es'.inStep = es.inStep
              /\ es'.nTsPacketLost = Lost(p) /\ es'.nFrameSize = es.nFrameSize
              /\ es'.frame = frame /\ out' = <<>>
           \/ /\ ~es'.bSeenUnitStartFlag
              /\ \/ out' = <<>>
                 \/ /\ ~Lost(p) /\ es.bSeenUnitStartFlag
                    /\ es.nFrameSize > 0 /\ Len(frame) = es.nFrameSize
                    /\ Len(out') = 1 /\ out'[1].data = frame /\ out'[1].inStep = es.inStep
    BY ZenonT(60), <1>1, <2>1, GatherOn
  <2>3. ASSUME es.bSeenUnitStartFlag, es.inStep, ~Lost(p)
        PROVE  /\ Behind' = 0 /\ InOrder(frame) /\ At(s, frame, Len(frame))
               /\ Len(frame) <= frame[1].total /\ es.nFrameSize \in {0, frame[1].total}
    <3>1. Counter(p) = s.cc /\ At(s, es.frame, Len(es.frame) + 1)
      BY <1>10, <2>3
    <3>2. Whole(es)
      BY <1>6, <2>3 DEF Whole
    <3>3. InOrder(es.frame) /\ es.nFrameSize \in {0, es.frame[1].total}
      BY <3>2 DEF GatheredIntact
    <3>4. u.frame = es.frame[1].frame /\ u.total = es.frame[1].total /\ u.index = Len(es.frame) + 1
      BY <1>2, <3>1 DEF At
    <3>5. es.frame \in Seq(Units) /\ es.frame # <<>>
      BY <1>3, <2>3
    <3>6. InOrder(frame) /\ Len(frame) = Len(es.frame) + 1 /\ frame[1] = es.frame[1]
      BY <1>1, <3>3, <3>4, <3>5, OrderKept
    <3> HIDE DEF frame
    <3>7. QED
      BY <1>5, <1>8, <3>1, <3>3, <3>6 DEF At
  <2> HIDE DEF frame
  <2>4. GatheredIntact'
    <3> SUFFICES ASSUME Whole(es)' PROVE
          /\ InOrder(es'.frame) /\ Len(es'.frame) <= es'.frame[1].total
          /\ es'.nFrameSize \in {0, es'.frame[1].total}
          /\ Behind' = 0 /\ At(src', es'.frame, Len(es'.frame))
      BY BoundsAssumption DEF GatheredIntact, PesBase
    <3>1. /\ es'.bSeenUnitStartFlag = es.bSeenUnitStartFlag /\ es'.inStep = es.inStep
          /\ es'.nTsPacketLost = Lost(p) /\ es'.nFrameSize = es.nFrameSize
          /\ es'.frame = frame
      BY <2>2 DEF Whole
    <3>2. es.bSeenUnitStartFlag /\ es.inStep /\ ~Lost(p)
      BY <3>1 DEF Whole
    <3>3. QED
      BY <2>3, <3>1, <3>2
  <2>5. ASSUME NEW i \in DOMAIN out' PROVE DeliveredWell(out'[i])
    <3>1. /\ ~Lost(p) /\ es.bSeenUnitStartFlag
          /\ es.nFrameSize > 0 /\ Len(frame) = es.nFrameSize
          /\ i = 1 /\ out'[1].data = frame /\ out'[1].inStep = es.inStep
      BY <2>2, <2>5
    <3> SUFFICES ASSUME es.inStep PROVE Len(frame) = frame[1].total /\ InOrder(frame)
      BY <3>1 DEF DeliveredWell, InOrder
    <3>2. QED
      BY <2>3, <3>1
  <2>6. QED
    BY <1>7, <2>4, <2>5
<1>11. QED
  BY <1>9, <1>10

(* What a packet in sequence meets.                                        *)
LEMMA Sequence ==
    ASSUME PesBase, es.bSeenUnitStartFlag, NEW p, p.payload, ~Lost(p)
    PROVE  /\ ~es.nTsPacketLost /\ (p.cc - counter) % CC = 1 /\ Counter(p) = (counter + 1) % CC
           /\ counter \in 0..CC - 1 /\ src.cc \in 0..CC - 1
<1>1. counter # -1 /\ counter \in -1..CC - 1 /\ src.cc \in 0..CC - 1
  BY DEF PesBase, StartFirst, SourceOK
<1>2. ~es.nTsPacketLost /\ InSequence(p)
  BY <1>1 DEF Lost
<1>3. QED
  BY <1>1, <1>2 DEF InSequence, Counter, CC

LEMMA SendIntact ==
    ASSUME PesInv, Send
    PROVE  GatheredIntact' /\ DeliveredIntact'
<1>0. PesBase /\ GatheredIntact
  BY DEF PesInv
<1>1. PICK s \in Following(src) :
         src' = s /\ (\E size \in Sizes(s) : GatherPes(Packet(s, size))) /\ faults' = faults
  BY DEF Send
<1>2. PICK size \in Sizes(s) : GatherPes(Packet(s, size))
  BY <1>1
<1>3. /\ s \in [cc : 0..CC - 1, frame : 0..FrameIds - 1, sent : 0..MaxUnits,
                total : 0..MaxUnits, good : BOOLEAN]
      /\ s.sent \in 1..s.total /\ s.cc = (src.cc + 1) % CC
      /\ IF src.sent = src.total THEN s.sent = 1
         ELSE s.sent = src.sent + 1 /\ s.frame = src.frame /\ s.total = src.total
  BY <1>0, SourceStep DEF PesBase
<1>4. PICK p : p = Packet(s, size)
  OBVIOUS
<1>5. p.payload /\ p.cc = s.cc
  BY <1>4 DEF Packet
<1>6. ASSUME es.bSeenUnitStartFlag, es.inStep, ~Lost(p)
      PROVE  /\ Counter(p) = s.cc
             /\ IF s.sent = 1 THEN Len(es.frame) = es.frame[1].total
                ELSE At(s, es.frame, Len(es.frame) + 1)
  <2>1. /\ ~es.nTsPacketLost /\ (s.cc - counter) % CC = 1 /\ Counter(p) = (counter + 1) % CC
        /\ counter \in 0..CC - 1 /\ src.cc \in 0..CC - 1
    BY <1>0, <1>5, <1>6, Sequence
  <2>2. src.cc = counter /\ Behind = 0
    <3>1. s.cc = (src.cc + 1) % CC
      BY <1>3
    <3>2. ((src.cc - counter) % CC = 0 <=> src.cc = counter)
          /\ ((s.cc - counter) % CC = 1 <=> src.cc = counter)
      <4>1. PICK a, c, b : a = src.cc /\ c = counter /\ b = s.cc
        OBVIOUS
      <4>2. a \in 0..CC - 1 /\ c \in 0..CC - 1 /\ b = (a + 1) % CC
        BY <2>1, <3>1, <4>1
      <4>3. ((a - c) % CC = 0 <=> a = c) /\ ((b - c) % CC = 1 <=> a = c)
        BY ZenonT(60), <4>2, Behinds
      <4>4. QED
        BY <4>1, <4>3
    <3>3. QED
      BY <2>1, <3>2 DEF Behind
  <2>3. Counter(p) = s.cc
    BY <1>3, <2>1, <2>2
  <2>4. At(src, es.frame, Len(es.frame))
    BY <1>0, <1>6, <2>1, <2>2 DEF GatheredIntact, Whole
  <2>5. Len(es.frame) \in Nat \ {0}
    BY <1>0, <1>6, LenProperties, EmptySeq DEF PesBase, StartFirst, Gathering
  <2>6. QED
    BY <1>3, <2>3, <2>4, <2>5 DEF At
<1>7. faults' \in Nat
  BY <1>0, <1>1, BoundsAssumption DEF PesBase
<1>8. QED
  BY <1>0, <1>1, <1>2, <1>3, <1>4, <1>6, <1>7, PacketIntact

LEMMA RepeatIntact ==
    ASSUME PesInv, Repeat
    PROVE  GatheredIntact' /\ DeliveredIntact'
<1>0. PesBase /\ GatheredIntact
  BY DEF PesInv
<1>1. PICK size \in Sizes(src) : GatherPes(Packet(src, size))
  BY DEF Repeat
<1>2. faults' = faults + 1 /\ src.sent > 0 /\ src' = src
  BY DEF Repeat
<1>3. /\ src \in [cc : 0..CC - 1, frame : 0..FrameIds - 1, sent : 0..MaxUnits,
                  total : 0..MaxUnits, good : BOOLEAN]
      /\ src.sent \in 1..src.total
  BY <1>0, <1>2, BoundsAssumption DEF PesBase, SourceOK
<1>4. PICK p : p = Packet(src, size)
  OBVIOUS
<1>5. p.payload /\ p.cc = src.cc
  BY <1>4 DEF Packet
<1>6. ASSUME es.bSeenUnitStartFlag, es.inStep, ~Lost(p)
      PROVE  /\ Counter(p) = src.cc
             /\ IF src.sent = 1 THEN Len(es.frame) = es.frame[1].total
                ELSE At(src, es.frame, Len(es.frame) + 1)
  <2>1. /\ ~es.nTsPacketLost /\ (src.cc - counter) % CC = 1 /\ Counter(p) = (counter + 1) % CC
        /\ counter \in 0..CC - 1 /\ src.cc \in 0..CC - 1
    BY <1>0, <1>5, <1>6, Sequence
  <2>2. Counter(p) = src.cc /\ Behind = 1
    BY <2>1, Behinds DEF Behind
  <2>3. \/ At(src, es.frame, Len(es.frame) + 1)
        \/ src.sent = 1 /\ Len(es.frame) = es.frame[1].total
    BY <1>0, <1>6, <2>1, <2>2 DEF GatheredIntact, Whole
  <2>4. Len(es.frame) \in Nat \ {0}
    BY <1>0, <1>6, LenProperties, EmptySeq DEF PesBase, StartFirst, Gathering
  <2>5. QED
    BY <2>2, <2>3, <2>4 DEF At
<1>7. faults' \in Nat
  BY <1>0, <1>2, BoundsAssumption DEF PesBase
<1>8. QED
  BY <1>0, <1>1, <1>2, <1>3, <1>4, <1>6, <1>7, PacketIntact

(* A packet without payload counts as lost.                                *)
LEMMA AdaptationIntact ==
    ASSUME PesInv, AdaptationOnly
    PROVE  GatheredIntact' /\ DeliveredIntact'
<1> DEFINE p == [start |-> FALSE, payload |-> FALSE, good |-> TRUE, cc |-> src.cc,
                 size |-> 0, units |-> <<>>]
<1>0. PesBase
  BY DEF PesInv
<1>1. GatherPes(p)
  BY DEF AdaptationOnly
<1>2. PacketOK(p) /\ ~p.start /\ ~p.payload
  <2>1. <<>> \in Seq(Units) /\ 0 \in 0..MaxUnits /\ src.cc \in 0..CC - 1
    BY <1>0, BoundsAssumption DEF PesBase, SourceOK
  <2>2. QED
    BY <2>1 DEF PacketOK
<1> HIDE DEF p
<1>3. es.bSeenUnitStartFlag => Lost(p)
  BY <1>0, <1>2 DEF PesBase, StartFirst, Lost, InSequence
<1>4. /\ es'.bSeenUnitStartFlag => es'.nTsPacketLost
      /\ out' = <<>>
  BY <1>0, <1>1, <1>2, <1>3, GatherOn
<1>5. QED
  BY <1>4 DEF GatheredIntact, DeliveredIntact, Whole

(* A packet dropped puts the decoder one further behind: fewer are than    *)
(* would bring it round to its counter.                                    *)
LEMMA DropIntact ==
    ASSUME MaxFaults < CC, PesInv, Drop
    PROVE  GatheredIntact' /\ DeliveredIntact'
<1>0. PesBase /\ GatheredIntact
  BY DEF PesInv
<1>1. /\ faults < MaxFaults /\ faults' = faults + 1 /\ src' \in Following(src)
      /\ out' = <<>> /\ counter' = counter /\ es' = es
  BY DEF Drop
<1>2. /\ src'.cc = (src.cc + 1) % CC
      /\ IF src.sent = src.total THEN src'.sent = 1
         ELSE src'.sent = src.sent + 1 /\ src'.frame = src.frame /\ src'.total = src.total
  BY <1>0, <1>1, SourceStep DEF PesBase
<1>3. ASSUME Whole(es)
      PROVE  /\ InOrder(es.frame) /\ Len(es.frame) <= es.frame[1].total
             /\ es.nFrameSize \in {0, es.frame[1].total}
             /\ Behind' <= faults' /\ Behind' # 0
             /\ Behind' = 1 => \/ At(src', es.frame, Len(es.frame) + 1)
                               \/ src'.sent = 1 /\ Len(es.frame) = es.frame[1].total
  <2>1. /\ InOrder(es.frame) /\ Len(es.frame) <= es.frame[1].total
        /\ es.nFrameSize \in {0, es.frame[1].total}
        /\ Behind <= faults
        /\ Behind = 0 => At(src, es.frame, Len(es.frame))
    BY <1>0, <1>3 DEF GatheredIntact
  <2>2. counter \in 0..CC - 1 /\ src.cc \in 0..CC - 1
    BY <1>0, <1>3 DEF PesBase, StartFirst, SourceOK, Whole, CC
  <2>3. Behind \in 0..CC - 1 /\ (Behind < CC - 1 => Behind' = Behind + 1)
    <3>1. src'.cc = (src.cc + 1) % CC
      BY <1>2
    <3>2. /\ (src.cc - counter) % CC \in 0..CC - 1
          /\ (src.cc - counter) % CC < CC - 1 =>
                (src'.cc - counter) % CC = ((src.cc - counter) % CC) + 1
      <4>1. PICK a, c, b : a = src.cc /\ c = counter /\ b = src'.cc
        OBVIOUS
      <4>2. a \in 0..CC - 1 /\ c \in 0..CC - 1 /\ b = (a + 1) % CC
        BY <2>2, <3>1, <4>1
      <4>3. (a - c) % CC \in 0..CC - 1 /\ ((a - c) % CC < CC - 1 => (b - c) % CC = ((a - c) % CC) + 1)
        BY <4>2, Behinds
      <4>4. QED
        BY <4>1, <4>3
    <3>3. QED
      BY <1>1, <3>2 DEF Behind
  <2>4. faults \in Nat /\ faults < CC - 1
    BY <1>0, <1>1, BoundsAssumption DEF PesBase, CC
  <2>5. Behind' = Behind + 1 /\ Behind' <= faults' /\ Behind' # 0 /\ (Behind' = 1 => Behind = 0)
    BY <1>1, <2>1, <2>3, <2>4 DEF CC
  <2>6. QED
    BY <1>2, <2>1, <2>5 DEF At
<1>4. QED
  BY <1>1, <1>3 DEF GatheredIntact, DeliveredIntact, Whole

LEMMA NewPmtIntact ==
    ASSUME PesInv, NewPmt
    PROVE  GatheredIntact' /\ DeliveredIntact'
<1>0. PesBase /\ GatheredIntact
  BY DEF PesInv
<1>1. /\ faults' = faults + 1 /\ out' = <<>> /\ src' = src /\ counter' = counter
  BY DEF NewPmt
<1>2. /\ es'.bSeenUnitStartFlag = es.bSeenUnitStartFlag /\ es'.inStep = es.inStep
      /\ es'.nTsPacketLost = es.nTsPacketLost /\ es'.nFrameSize = es.nFrameSize
      /\ es'.frame = es.frame
  BY <1>0 DEF NewPmt, PesBase, Gathering
<1>3. faults \in Nat
  BY <1>0, BoundsAssumption DEF PesBase
<1>4. Whole(es)' => Whole(es) /\ Behind' = Behind
  BY <1>1, <1>2 DEF Whole, Behind
<1>5. ASSUME Whole(es) PROVE Behind \in Int
  BY <1>0, <1>5 DEF PesBase, SourceOK, Behind, CC
<1>6. QED
  BY <1>0, <1>1, <1>2, <1>3, <1>4, <1>5 DEF GatheredIntact, DeliveredIntact

(* GatherPes: with fewer faults than the counter has values, every frame   *)
(* given out that was gathered in step and in one buffer is a frame the    *)
(* source sent, whole and in order.  (With as many, a stretch of packets   *)
(* whose loss brings the counter round to its value goes unnoticed.)       *)
THEOREM FramesArriveIntact ==
    ASSUME MaxFaults < CC
    PROVE  PesSpec => []DeliveredIntact
<1>1. PesInit => PesInv
  <2>1. PesInit => GatheredIntact /\ DeliveredIntact
    BY DEF PesInit, GatheredIntact, DeliveredIntact, Whole
  <2>2. QED
    BY <2>1, PesInitBase DEF PesInv
<1>2. PesInv /\ [PesNext]_pesVars => PesInv'
  <2> SUFFICES ASSUME PesInv, [PesNext]_pesVars PROVE GatheredIntact' /\ DeliveredIntact'
    BY PesBaseStep DEF PesInv
  <2>1. CASE UNCHANGED pesVars
    BY <2>1 DEF PesInv, GatheredIntact, DeliveredIntact, Whole, At, Behind, pesVars
  <2>2. QED
    BY <2>1, SendIntact, RepeatIntact, AdaptationIntact, DropIntact, NewPmtIntact DEF PesNext
<1>3. PesInv => DeliveredIntact
  BY DEF PesInv
<1>4. QED
  BY <1>1, <1>2, <1>3, PTL DEF PesSpec

=============================================================================
