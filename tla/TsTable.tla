------------------------------- MODULE TsTable -------------------------------
(***************************************************************************)
(* How trunk/parsempegts follows the program tables of a transport stream: *)
(* the PAT lists programs and the PIDs of their PMTs, a PMT lists the      *)
(* elementary streams of a program, and a table of MAX_PID_INFO_NUM slots  *)
(* with a map from PIDs to slots says what to do with the packets of a     *)
(* PID.  Slots are taken in order and none is ever given back, so the      *)
(* table is the sequence of the used ones; slot 1 is the PAT's.            *)
(***************************************************************************)
EXTENDS Integers, Sequences, SequencesExt

CONSTANTS
    Pats, Pmts,             \* the tables the stream may send
    MAX_PMT_NUM_PER_PID, MAX_ES_NUM_PER_PMT

MAX_PID_INFO_NUM == MAX_PMT_NUM_PER_PID * (MAX_ES_NUM_PER_PMT + 1) + 1

(* The entries of a PAT that are programs: number 0 is the network's.      *)
Programs(p) == SelectSeq(p.programs, LAMBDA e : e.number # 0)

ASSUME PatsAssumption == \A p \in Pats :
    /\ p.version \in Nat /\ p.current \in BOOLEAN
    /\ Programs(p) \in Seq([number : Nat \ {0}, pid : Nat])
    /\ Len(Programs(p)) <= MAX_PMT_NUM_PER_PID
ASSUME PmtsAssumption == \A m \in Pmts :
    /\ m.version \in Nat /\ m.current \in BOOLEAN /\ m.number \in Nat /\ m.pid \in Nat
    /\ m.streams \in Seq(Nat) /\ Len(m.streams) <= MAX_ES_NUM_PER_PMT
ASSUME LimitsAssumption == MAX_PMT_NUM_PER_PID \in Nat \ {0} /\ MAX_ES_NUM_PER_PMT \in Nat \ {0}

VARIABLES
    slots,          \* m_atPidInfo, the used ones
    pidMap,         \* m_pidMap: which slot a PID has
    programs,       \* m_tPatInfo.atProgram
    nProgramNum, nPatVersion,
    aborted         \* assert(false): no slot was left

tableVars == <<slots, pidMap, programs, nProgramNum, nPatVersion, aborted>>

Psi == <<0, 0>>     \* the place of a slot that has no elementary stream

TableTypeOK ==
    /\ Len(slots) \in 1..MAX_PID_INFO_NUM
    /\ \A i \in DOMAIN slots : /\ slots[i].pid \in Nat /\ slots[i].bPsi \in BOOLEAN
                               /\ slots[i].es = Psi <=> slots[i].bPsi
    /\ \A pid \in DOMAIN pidMap : pidMap[pid] \in DOMAIN slots
    /\ DOMAIN programs = 1..MAX_PMT_NUM_PER_PID
    /\ nProgramNum \in 0..MAX_PMT_NUM_PER_PID
    /\ nPatVersion \in Nat \cup {-1} /\ aborted \in BOOLEAN

-----------------------------------------------------------------------------
TableInit ==
    /\ slots = <<[pid |-> 0, bPsi |-> TRUE, es |-> Psi]>>
    /\ pidMap = [pid \in {0} |-> 1]
    /\ programs = [i \in 1..MAX_PMT_NUM_PER_PID |->
                      [pid |-> 0, number |-> -1, version |-> -1, streams |-> <<>>]]
    /\ nProgramNum = 0 /\ nPatVersion = -1 /\ aborted = FALSE

(* InitPidInfo for several PIDs in turn.  Each takes a slot; the map keeps *)
(* the slot it has for a PID it knows (std::map::insert).                  *)
InitPidInfo_off_by_one(new) ==
    IF Len(slots) + Len(new) > MAX_PID_INFO_NUM
    THEN aborted' = TRUE /\ UNCHANGED <<slots, pidMap>>
    ELSE /\ slots' = slots \o new
         /\ pidMap' = [pid \in DOMAIN pidMap \cup {new[i].pid : i \in DOMAIN new} |->
                          IF pid \in DOMAIN pidMap THEN pidMap[pid] ELSE Len(slots)]
         /\ UNCHANGED aborted

InitPidInfo(new) ==
    IF Len(slots) + Len(new) > MAX_PID_INFO_NUM
    THEN aborted' = TRUE /\ UNCHANGED <<slots, pidMap>>
    ELSE LET fresh == {new[i].pid : i \in DOMAIN new} \ DOMAIN pidMap
             first(pid) == CHOOSE i \in DOMAIN new :
                              /\ new[i].pid = pid
                              /\ \A j \in 1..i - 1 : new[j].pid # pid
         IN  /\ slots' = slots \o new
             /\ pidMap' = [pid \in DOMAIN pidMap \cup fresh |->
                              IF pid \in fresh THEN Len(slots) + first(pid) ELSE pidMap[pid]]
             /\ UNCHANGED aborted

(* Ignored once a PAT has been taken, if it is not current or not new.     *)
(* Otherwise its programs replace the list from the start, but what is     *)
(* known of the PMT at that place of the list stays.                       *)
HandlePATCallback(p) ==
    LET listed == Programs(p)
    IN  IF nPatVersion # -1 /\ (~p.current \/ p.version = nPatVersion)
        THEN UNCHANGED tableVars
        ELSE /\ programs' = [i \in DOMAIN programs |->
                    IF i \in DOMAIN listed
                    THEN [programs[i] EXCEPT !.pid = listed[i].pid, !.number = listed[i].number]
                    ELSE programs[i]]
             /\ nProgramNum' = Len(listed)
             /\ nPatVersion' = p.version
             /\ InitPidInfo([i \in DOMAIN listed |->
                               [pid |-> listed[i].pid, bPsi |-> TRUE, es |-> Psi]])

(* The place of a program: where it is listed, else the next free one.     *)
Listed(number) == {i \in 1..nProgramNum : programs[i].number = number}

HandlePMTCallback(m) ==
    LET places == IF Listed(m.number) # {} THEN Listed(m.number) ELSE {nProgramNum + 1}
        k == CHOOSE i \in places : \A j \in places : i <= j
    IN  IF \/ \E i \in Listed(m.number) : /\ programs[i].version # -1
                                          /\ ~m.current \/ programs[i].version = m.version
           \/ k > MAX_PMT_NUM_PER_PID
        THEN UNCHANGED tableVars
        ELSE /\ programs' = [programs EXCEPT ![k].version = m.version, ![k].streams = m.streams]
             /\ nProgramNum' = IF k > nProgramNum THEN k ELSE nProgramNum
             /\ InitPidInfo([i \in DOMAIN m.streams |->
                               [pid |-> m.streams[i], bPsi |-> FALSE, es |-> <<k, i>>]])
             /\ UNCHANGED nPatVersion

(* AnalyseTsPasket dispatches a packet by the slot of its PID.  A slot for *)
(* tables other than the PAT's takes the packet as a PMT, whichever it is. *)
PatPacket(p) == ~aborted /\ HandlePATCallback(p)

PmtPacket(m) ==
    /\ ~aborted /\ m.pid \in DOMAIN pidMap
    /\ slots[pidMap[m.pid]].bPsi /\ slots[pidMap[m.pid]].pid # 0
    /\ HandlePMTCallback(m)

TableNext == (\E p \in Pats : PatPacket(p)) \/ (\E m \in Pmts : PmtPacket(m))

TableSpec == TableInit /\ [][TableNext]_tableVars

-----------------------------------------------------------------------------
(* Tables that change in the way the decoder can follow: every PAT lists   *)
(* the same programs, the programs of all PMTs among them, and a stream    *)
(* that a new version of a PMT still has is where it was.  The map keeps   *)
(* the slot of a PID, and the slot its place, so that streams that change  *)
(* places would be taken for one another.                                  *)
PlacesStay ==
    /\ \A p, q \in Pats : Len(Programs(p)) = Len(Programs(q)) /\
          \A i \in DOMAIN Programs(p) : Programs(p)[i].number = Programs(q)[i].number
    /\ \A p \in Pats, m \in Pmts : \E i \in DOMAIN Programs(p) : Programs(p)[i].number = m.number
    /\ \A m, n \in Pmts : m.number = n.number =>
          \A i \in DOMAIN m.streams \cap DOMAIN n.streams : m.streams[i] = n.streams[i]

(* The packets of a PID go to a slot made for that PID, and the slot of an *)
(* elementary stream points to the stream with that PID, so that a frame   *)
(* is given out with the type of its own stream.                           *)
StreamOf(s) == programs[s.es[1]].streams
SlotFindsOwnStream ==
    PlacesStay /\ ~aborted => \A pid \in DOMAIN pidMap :
        LET s == slots[pidMap[pid]] IN
        /\ s.pid = pid
        /\ ~s.bPsi /\ s.es[2] \in DOMAIN StreamOf(s) => StreamOf(s)[s.es[2]] = pid

=============================================================================
