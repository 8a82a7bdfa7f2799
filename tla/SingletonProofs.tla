--------------------------- MODULE SingletonProofs ---------------------------
(***************************************************************************)
(* What the singletons keep, for any number of threads: at most one        *)
(* sigderive is created, and nobody is left with a deleted one.            *)
(***************************************************************************)
EXTENDS Singleton, TLAPS

(* Inside the block that the named guard of sigderive protects.            *)
Guarded(t) == type[t] = 0 /\ pc[t] \in {"recheck", "new", "delete", "assign", "unlock"}

GuardHeld == \A t \in Threads : Guarded(t) => holder[0] = t

(* Who is between the second test and the assignment has seen no instance. *)
NothingYet == \A t \in Threads :
    type[t] = 0 /\ pc[t] \in {"new", "delete", "assign"} => instance[0] = NULL

(* The objects of sigderive: none before the first creator, then its one.  *)
Objects ==
    /\ \A t \in Threads : type[t] = 0 /\ pc[t] \in {"delete", "assign"} =>
                             created[0] = {t} /\ live[0] = {t}
    /\ instance[0] # NULL => created[0] = {instance[0]} /\ live[0] = {instance[0]}
    /\ instance[0] = NULL /\ (\A t \in Threads : ~(type[t] = 0 /\ pc[t] \in {"delete", "assign"})) =>
          created[0] = {} /\ live[0] = {}

SeenInstance == \A t \in Threads :
    pc[t] \in {"unlock", "return"} => instance[type[t]] # NULL

IInv == TypeOK /\ GuardHeld /\ NothingYet /\ Objects /\ SeenInstance /\ NoDanglingPointer

-----------------------------------------------------------------------------
(* Nothing is created, locked or returned before the first call.           *)
LEMMA InitInv == Init => IInv
  BY NullAssumption
  DEF Init, IInv, TypeOK, GuardHeld, Guarded, NothingYet, Objects, SeenInstance,
      NoDanglingPointer, Types

(* Every step of every thread keeps the types.                             *)
LEMMA TypeStep == TypeOK /\ [Next]_vars => TypeOK'
<1> SUFFICES ASSUME TypeOK, [Next]_vars PROVE TypeOK'
  OBVIOUS
<1> USE DEF TypeOK, Types, Goto
<1>1. ASSUME NEW t \in Threads, NEW c \in 0..2, Instance(t, c) PROVE TypeOK'
  BY <1>1 DEF Instance
<1>2. ASSUME NEW t \in Threads, Check(t) PROVE TypeOK'
  BY <1>2 DEF Check
<1>3. ASSUME NEW t \in Threads, Lock(t) PROVE TypeOK'
  BY <1>3 DEF Lock
<1>4. ASSUME NEW t \in Threads, Recheck(t) PROVE TypeOK'
  BY <1>4 DEF Recheck
<1>5. ASSUME NEW t \in Threads, New(t) PROVE TypeOK'
  BY <1>5 DEF New
<1>6. ASSUME NEW t \in Threads, Delete(t) PROVE TypeOK'
  BY <1>6 DEF Delete
<1>7. ASSUME NEW t \in Threads, Assign(t) PROVE TypeOK'
  BY <1>7 DEF Assign
<1>8. ASSUME NEW t \in Threads, Unlock(t) PROVE TypeOK'
  BY <1>8 DEF Unlock
<1>9. ASSUME NEW t \in Threads, Return(t) PROVE TypeOK'
  BY <1>9 DEF Return
<1>10. CASE UNCHANGED vars
  BY <1>10 DEF vars
<1> QED
  BY <1>1, <1>2, <1>3, <1>4, <1>5, <1>6, <1>7, <1>8, <1>9, <1>10 DEF Next, Inside

(* The invariant is inductive: the lock keeps every other thread out of    *)
(* the block, and the second test keeps a late one from creating again.    *)
LEMMA InvStep == IInv /\ [Next]_vars => IInv'
<1> SUFFICES ASSUME IInv, [Next]_vars PROVE IInv'
  OBVIOUS
<1>0. TypeOK /\ TypeOK'
  BY TypeStep DEF IInv
<1> USE <1>0, NullAssumption DEF IInv, TypeOK, Types, Goto, GuardHeld, Guarded, NothingYet, Objects,
        SeenInstance, NoDanglingPointer
<1>1. ASSUME NEW t \in Threads, NEW c \in 0..2, Instance(t, c) PROVE IInv'
  BY <1>1 DEF Instance
<1>2. ASSUME NEW t \in Threads, Check(t) PROVE IInv'
  BY <1>2 DEF Check
<1>3. ASSUME NEW t \in Threads, Lock(t) PROVE IInv'
  BY <1>3 DEF Lock
<1>4. ASSUME NEW t \in Threads, Recheck(t) PROVE IInv'
  BY <1>4 DEF Recheck
<1>5. ASSUME NEW t \in Threads, New(t) PROVE IInv'
  BY <1>5 DEF New
<1>6. ASSUME NEW t \in Threads, Delete(t) PROVE IInv'
  BY <1>6 DEF Delete
<1>7. ASSUME NEW t \in Threads, Assign(t) PROVE IInv'
  BY <1>7 DEF Assign
<1>8. ASSUME NEW t \in Threads, Unlock(t) PROVE IInv'
  BY <1>8 DEF Unlock
<1>9. ASSUME NEW t \in Threads, Return(t) PROVE IInv'
  BY <1>9 DEF Return
<1>10. CASE UNCHANGED vars
  BY <1>10 DEF vars
<1> QED
  BY <1>1, <1>2, <1>3, <1>4, <1>5, <1>6, <1>7, <1>8, <1>9, <1>10 DEF Next, Inside

-----------------------------------------------------------------------------
LEMMA Invariance == Spec => []IInv
  BY InitInv, InvStep, PTL DEF Spec

(* The variables keep their types.                                         *)
THEOREM TypeCorrect == Spec => []TypeOK
  BY Invariance, PTL DEF IInv

(* singleton.cpp, sigderive: however many threads call Instance(0) at      *)
(* once, the double check and the named guard let one of them create.      *)
THEOREM OneInstance == Spec => []AtMostOneInstance
<1>1. IInv => AtMostOneInstance
  <2> SUFFICES ASSUME IInv, NEW t \in created[0], NEW u \in created[0] PROVE t = u
    BY DEF AtMostOneInstance
  <2>1. CASE \E v \in Threads : created[0] = {v}
    BY <2>1
  <2>2. CASE created[0] = {instance[0]}
    BY <2>2
  <2>3. QED
    BY <2>1, <2>2 DEF IInv, Objects
<1>2. QED
  BY <1>1, Invariance, PTL

(* The pointer a thread was given stays the pointer to a living object.    *)
THEOREM NobodyDangles == Spec => []NoDanglingPointer
  BY Invariance, PTL DEF IInv

=============================================================================
