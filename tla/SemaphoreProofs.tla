--------------------------- MODULE SemaphoreProofs ---------------------------
(***************************************************************************)
(* What the semaphore keeps, for any threads, operations and capacity; and *)
(* what it keeps only under the conditions its users have to respect: one  *)
(* waiter, or a capacity of one.                                           *)
(***************************************************************************)
EXTENDS Semaphore, TLAPS

(* A thread inside has found the semaphore usable, and runs an operation   *)
(* it may call; only the waits sleep, and only the timed one times out.    *)
InsideOK == \A t \in Threads : at[t] # "idle" =>
    /\ maxCount > 0
    /\ op[t] \in Calls[t]
    /\ at[t] # "lock" => op[t] \in Waits
    /\ at[t] = "timedout" => op[t] = "semaphore_timedwait"

IInv == TypeOK /\ InsideOK /\ CountInRange

-----------------------------------------------------------------------------
LEMMA InitInv == Init => IInv
<1> SUFFICES ASSUME Init PROVE IInv
  OBVIOUS
<1>1. aborted \in BOOLEAN /\ late \in BOOLEAN
  BY DEF Init
<1>2. TypeOK
  BY <1>1, CapacityAssumption DEF Init, TypeOK, Places, Codes
<1>3. QED
  BY <1>2 DEF Init, IInv, InsideOK, CountInRange

(* One step per operation of the file.                                     *)
LEMMA InvStep == IInv /\ [Next]_vars => IInv'
<1> SUFFICES ASSUME IInv, [Next]_vars PROVE IInv'
  OBVIOUS
<1> USE CapacityAssumption, CallsAssumption
    DEF IInv, TypeOK, InsideOK, CountInRange, Places, Codes, Ops, Waits
<1>1. ASSUME NEW i \in -1..Capacity, NEW m \in -1..Capacity, semaphore_init(i, m)
      PROVE IInv'
  BY <1>1 DEF semaphore_init, Quiescent
<1>2. CASE semaphore_destroy
  BY <1>2 DEF semaphore_destroy, Quiescent
<1>3. ASSUME NEW t \in Threads, NEW o \in Calls[t], Call(t, o) PROVE IInv'
  BY <1>3 DEF Call
<1>4. ASSUME NEW t \in Threads, Wait(t) PROVE IInv'
  BY <1>4 DEF Wait, Take, Return
<1>5. ASSUME NEW t \in Threads, Resume(t) PROVE IInv'
  <2>1. CASE at[t] \in {"signalled", "spurious"} /\ Take(t)
    <3>1. CASE count <= 0
      <4>1. aborted' = TRUE /\ UNCHANGED <<count, maxCount, at, op, ret, late>>
        BY <1>5, <2>1, <3>1 DEF Resume, Take
      <4>2. aborted' \in BOOLEAN
        BY <4>1
      <4>3. QED
        BY <4>1, <4>2
    <3>2. CASE count > 0
      BY <1>5, <2>1, <3>2 DEF Resume, Take, Return
    <3>3. QED
      BY <3>1, <3>2
  <2>2. CASE at[t] = "timedout" /\ Return(t, "TIMEOUT") /\ UNCHANGED <<count, aborted>>
    BY <1>5, <2>2 DEF Resume, Return
  <2>3. QED
    BY <1>5, <2>1, <2>2 DEF Resume
<1>6. ASSUME NEW t \in Threads, semaphore_try_wait(t) PROVE IInv'
  BY <1>6 DEF semaphore_try_wait, Take, Return
<1>7. ASSUME NEW t \in Threads, semaphore_post(t) PROVE IInv'
  <2>1. PICK wakes \in BOOLEAN : Signal(t, wakes)
    BY <1>7 DEF semaphore_post
  <2>2. CASE \E w \in Blocked : at' = [at EXCEPT ![t] = "idle", ![w] = "signalled"]
    BY <1>7, <2>2 DEF semaphore_post, Blocked
  <2>3. CASE at' = [at EXCEPT ![t] = "idle"]
    BY <1>7, <2>3 DEF semaphore_post
  <2>4. QED
    BY <2>1, <2>2, <2>3 DEF Signal
<1>8. ASSUME NEW t \in Threads, WakeUp(t) PROVE IInv'
  BY <1>8 DEF WakeUp
<1>9. CASE UNCHANGED vars
  BY <1>9 DEF vars
<1>10. QED
  BY <1>1, <1>2, <1>3, <1>4, <1>5, <1>6, <1>7, <1>8, <1>9 DEF Next, Inside

LEMMA Invariance == Spec => []IInv
  BY InitInv, InvStep, PTL DEF Spec

(* The variables keep their types: the count of a destroyed semaphore is   *)
(* -1, and no operation drives it lower.                                   *)
THEOREM TypeCorrect == Spec => []TypeOK
  BY Invariance, PTL DEF IInv

(* semaphore_wait, semaphore_try_wait and semaphore_post keep the count    *)
(* between 0 and maxCount, even where a sleeper resumes without a test.    *)
THEOREM CountStaysInRange == Spec => []CountInRange
  BY Invariance, PTL DEF IInv

-----------------------------------------------------------------------------
Trying == Waits \cup {"semaphore_try_wait"}
Timed == {t \in Threads : Calls[t] \cap {"semaphore_timedwait", "semaphore_try_wait"} # {}}

(* What the callers of the abstract semaphore see of thread t.             *)
Outcome(t) == IF at[t] = "idle" THEN ret[t]
              ELSE IF op[t] \in Trying THEN "waiting" ELSE "posting"

(* The steps of the abstract semaphore, over the outcomes of the code.     *)
LEMMA AbstractSteps ==
    /\ Abstract!vars = <<count, maxCount, [t \in Threads |-> Outcome(t)]>>
    /\ Abstract!vars' = <<count', maxCount', [t \in Threads |-> Outcome(t)']>>
    /\ Abstract!Init <=> /\ count = -1 /\ maxCount = -1
                         /\ [t \in Threads |-> Outcome(t)] = [t \in Threads |-> "none"]
  BY DEF Abstract!vars, Abstract!Init, Outcome, Trying

(* Init maps to the abstract Init.                                         *)
LEMMA InitRefines == Init => Abstract!Init
  BY AbstractSteps DEF Init, Outcome

(* Changing where t is, or what it returned, leaves the others alone.      *)
LEMMA OneOutcome ==
    ASSUME TypeOK, NEW t \in Threads, NEW code \in Codes, Return(t, code), op' = op
    PROVE  [u \in Threads |-> Outcome(u)'] = [[u \in Threads |-> Outcome(u)] EXCEPT ![t] = code]
  BY DEF TypeOK, Return, Outcome

(* Taking a token is an abstract Acquire; a failed assertion is a stutter. *)
LEMMA TakeRefines ==
    ASSUME TypeOK, NEW t \in Threads, at[t] # "idle", op[t] \in Trying,
           Take(t), UNCHANGED <<maxCount, op>>
    PROVE  Abstract!Acquire(t) \/ UNCHANGED Abstract!vars
<1>1. CASE count > 0
  <2>1. count' = count - 1 /\ Return(t, "NO_ERROR")
    BY <1>1 DEF Take, TypeOK
  <2>2. [u \in Threads |-> Outcome(u)'] = [[u \in Threads |-> Outcome(u)] EXCEPT ![t] = "NO_ERROR"]
    BY <2>1, OneOutcome DEF Codes
  <2>3. Outcome(t) = "waiting"
    BY DEF Outcome
  <2>4. QED
    BY <1>1, <2>1, <2>2, <2>3 DEF Abstract!Acquire, Outcome, Trying
<1>2. CASE ~(count > 0)
  BY <1>2, AbstractSteps DEF Take, Outcome
<1>3. QED
  BY <1>1, <1>2

(* A wait that gives up is an abstract GiveUp.                             *)
LEMMA TimeoutRefines ==
    ASSUME TypeOK, NEW t \in Threads, at[t] # "idle", op[t] \in Trying, t \in Timed,
           Return(t, "TIMEOUT"), UNCHANGED <<count, maxCount, op>>
    PROVE  Abstract!GiveUp(t)
<1>1. [u \in Threads |-> Outcome(u)'] = [[u \in Threads |-> Outcome(u)] EXCEPT ![t] = "TIMEOUT"]
  BY OneOutcome DEF Codes
<1>2. Outcome(t) = "waiting"
  BY DEF Outcome
<1>3. QED
  BY <1>1, <1>2 DEF Abstract!GiveUp, Outcome, Trying, Timed

(* Every step of the code is a step of the abstract semaphore or a         *)
(* stutter.                                                                *)
LEMMA StepRefines == IInv /\ [Next]_vars => [Abstract!Next]_(Abstract!vars)
<1> SUFFICES ASSUME IInv, [Next]_vars PROVE Abstract!Next \/ UNCHANGED Abstract!vars
  OBVIOUS
<1> USE DEF IInv
<1>1. ASSUME NEW i \in -1..Capacity, NEW m \in -1..Capacity, semaphore_init(i, m)
      PROVE Abstract!Create
  BY <1>1 DEF semaphore_init, Abstract!Create
<1>2. CASE semaphore_destroy
  <2>1. Abstract!Destroy
    BY <1>2 DEF semaphore_destroy, Abstract!Destroy
  <2>2. QED
    BY <2>1 DEF Abstract!Next
<1>3. ASSUME NEW t \in Threads, NEW o \in Calls[t], Call(t, o)
      PROVE Abstract!Request(t) \/ Abstract!Refuse(t)
  <2>1. o \in Ops /\ ret[t] \in Codes
    BY CallsAssumption DEF TypeOK
  <2>2. Outcome(t) \notin {"waiting", "posting"}
    BY <1>3, <2>1 DEF Call, Outcome, Codes
  <2>3. CASE 0 < maxCount
    <3> DEFINE kind == IF o \in Trying THEN "waiting" ELSE "posting"
    <3>1. [u \in Threads |-> Outcome(u)'] = [[u \in Threads |-> Outcome(u)] EXCEPT ![t] = kind]
      <4>1. /\ at' = [at EXCEPT ![t] = "lock"] /\ op' = [op EXCEPT ![t] = o] /\ ret' = ret
        BY <1>3, <2>3, CapacityAssumption DEF Call, TypeOK
      <4>2. Outcome(t)' = kind
        BY <4>1 DEF TypeOK, Outcome
      <4>3. \A u \in Threads \ {t} : Outcome(u)' = Outcome(u)
        BY <4>1 DEF TypeOK, Outcome
      <4> HIDE DEF kind
      <4>4. QED
        BY <4>2, <4>3
    <3>2. kind \in {"waiting", "posting"}
      OBVIOUS
    <3> HIDE DEF kind
    <3>3. QED
      BY <1>3, <2>2, <2>3, <3>1, <3>2 DEF Call, Abstract!Request, Outcome, Trying
  <2>4. CASE ~(0 < maxCount)
    BY <1>3, <2>2, <2>4 DEF Call, TypeOK, Abstract!Refuse, Outcome, Trying
  <2>5. QED
    BY <2>3, <2>4
<1>4. ASSUME NEW t \in Threads, Wait(t)
      PROVE Abstract!Acquire(t) \/ UNCHANGED Abstract!vars
  <2>1. CASE Take(t)
    BY <1>4, <2>1, TakeRefines DEF Wait, Trying
  <2>2. CASE at' = [at EXCEPT ![t] = "blocked"] /\ UNCHANGED <<count, ret>>
    BY <1>4, <2>2, AbstractSteps DEF Wait, TypeOK, Outcome
  <2>3. QED
    BY <1>4, <2>1, <2>2 DEF Wait
<1>5. ASSUME NEW t \in Threads, Resume(t)
      PROVE Abstract!Acquire(t) \/ Abstract!GiveUp(t) \/ UNCHANGED Abstract!vars
  <2>1. at[t] \notin {"idle", "lock"} /\ op[t] \in Trying
    BY <1>5 DEF Resume, InsideOK, Trying
  <2>2. CASE Take(t)
    BY <1>5, <2>1, <2>2, TakeRefines DEF Resume
  <2>3. CASE at[t] = "timedout" /\ Return(t, "TIMEOUT") /\ UNCHANGED count
    BY <1>5, <2>1, <2>3, TimeoutRefines DEF Resume, InsideOK, Timed
  <2>4. QED
    BY <1>5, <2>2, <2>3 DEF Resume
<1>6. ASSUME NEW t \in Threads, semaphore_try_wait(t)
      PROVE Abstract!Acquire(t) \/ Abstract!GiveUp(t) \/ UNCHANGED Abstract!vars
  <2>1. at[t] # "idle" /\ op[t] \in Trying /\ t \in Timed
    BY <1>6 DEF semaphore_try_wait, InsideOK, Trying, Timed
  <2>2. QED
    BY <1>6, <2>1, TakeRefines, TimeoutRefines DEF semaphore_try_wait
<1>7. ASSUME NEW t \in Threads, semaphore_post(t) PROVE Abstract!Post(t)
  <2>1. Outcome(t) = "posting"
    BY <1>7 DEF semaphore_post, Outcome, Trying, Waits
  <2>2. maxCount > 0 /\ count \in 0..maxCount
    BY <1>7 DEF semaphore_post, TypeOK, InsideOK, CountInRange
  <2>3. [u \in Threads |-> Outcome(u)'] = [[u \in Threads |-> Outcome(u)] EXCEPT ![t] = "NO_ERROR"]
    <3>1. PICK wakes \in BOOLEAN : Signal(t, wakes)
      BY <1>7 DEF semaphore_post
    <3>2. CASE \E w \in Blocked : at' = [at EXCEPT ![t] = "idle", ![w] = "signalled"]
      BY <1>7, <3>2 DEF semaphore_post, Blocked, TypeOK, Outcome
    <3>3. CASE at' = [at EXCEPT ![t] = "idle"]
      BY <1>7, <3>3 DEF semaphore_post, TypeOK, Outcome
    <3>4. QED
      BY <3>1, <3>2, <3>3 DEF Signal
  <2>4. count' = IF count < maxCount THEN count + 1 ELSE count
    BY <1>7, <2>2 DEF semaphore_post, TypeOK
  <2>5. QED
    BY <1>7, <2>1, <2>3, <2>4 DEF semaphore_post, Abstract!Post, Outcome, Trying
<1>8. ASSUME NEW t \in Threads, WakeUp(t) PROVE UNCHANGED Abstract!vars
  BY <1>8, AbstractSteps DEF WakeUp, TypeOK, Outcome
<1>9. CASE UNCHANGED vars
  BY <1>9, AbstractSteps DEF vars, Outcome
<1>10. QED
  BY <1>1, <1>2, <1>3, <1>4, <1>5, <1>6, <1>7, <1>8, <1>9 DEF Next, Inside, Abstract!Next

(* semaphore_linux32.cpp: whatever the threads, a wait that succeeds took  *)
(* a token of its own and a timeout took none.                             *)
THEOREM SafeImplementation == Spec => ImplementsSafely
  BY Invariance, InitRefines, StepRefines, PTL DEF Spec, ImplementsSafely, Abstract!Spec

-----------------------------------------------------------------------------
(* Only w ever takes tokens; the others post.                              *)
OnlyTaker(w) == \A t \in Threads : t # w => Calls[t] \subseteq {"semaphore_post"}

(* A woken w has its token waiting, and nobody wakes without a signal.     *)
Reserved(w) == /\ ~aborted
               /\ at[w] = "signalled" => count > 0
               /\ \A t \in Threads : at[t] # "spurious"

LEMMA ReservedStep ==
    ASSUME NEW w \in Threads, OnlyTaker(w), ~Spurious, IInv, Reserved(w), [Next]_vars
    PROVE  Reserved(w)'
<1> USE DEF IInv, Reserved
<1>0. \A t \in Threads : at[t] # "idle" /\ op[t] # "semaphore_post" => t = w
  BY DEF InsideOK, OnlyTaker
<1>1. ASSUME NEW i \in -1..Capacity, NEW m \in -1..Capacity, semaphore_init(i, m)
      PROVE Reserved(w)'
  BY <1>1 DEF semaphore_init, Quiescent
<1>2. CASE semaphore_destroy
  BY <1>2 DEF semaphore_destroy, Quiescent
<1>3. ASSUME NEW t \in Threads, NEW o \in Calls[t], Call(t, o) PROVE Reserved(w)'
  BY <1>3 DEF Call, TypeOK
<1>4. ASSUME NEW t \in Threads, Wait(t) PROVE Reserved(w)'
  <2>1. t = w /\ count \in 0..maxCount
    BY <1>0, <1>4 DEF Wait, Waits, InsideOK, CountInRange, TypeOK
  <2>2. CASE count = 0
    BY <1>4, <2>1, <2>2 DEF Wait, Take, Return, TypeOK
  <2>3. CASE count > 0
    BY <1>4, <2>1, <2>3 DEF Wait, Take, Return, TypeOK
  <2>4. QED
    BY <2>1, <2>2, <2>3 DEF TypeOK
<1>5. ASSUME NEW t \in Threads, Resume(t) PROVE Reserved(w)'
  <2>1. t = w
    BY <1>0, <1>5 DEF Resume, InsideOK, Waits
  <2>2. CASE at[t] = "signalled"
    BY <1>5, <2>1, <2>2 DEF Resume, Take, Return, TypeOK
  <2>3. CASE at[t] = "timedout"
    BY <1>5, <2>1, <2>3 DEF Resume, Return, TypeOK
  <2>4. QED
    BY <1>5, <2>2, <2>3 DEF Resume
<1>6. ASSUME NEW t \in Threads, semaphore_try_wait(t) PROVE Reserved(w)'
  <2>1. t = w /\ count \in 0..maxCount
    BY <1>0, <1>6 DEF semaphore_try_wait, InsideOK, CountInRange, TypeOK
  <2>2. QED
    BY <1>6, <2>1 DEF semaphore_try_wait, Take, Return, TypeOK
<1>7. ASSUME NEW t \in Threads, semaphore_post(t) PROVE Reserved(w)'
  <2>1. maxCount > 0 /\ count \in 0..maxCount
    BY <1>7 DEF semaphore_post, InsideOK, CountInRange, TypeOK
  <2>2. count' > 0 /\ ~aborted'
    BY <1>7, <2>1 DEF semaphore_post, TypeOK
  <2>3. \A u \in Threads : at[u]' \in {at[u], "idle", "signalled"}
    BY <1>7 DEF semaphore_post, Signal, Blocked, TypeOK
  <2>4. QED
    BY <2>2, <2>3
<1>8. ASSUME NEW t \in Threads, WakeUp(t) PROVE Reserved(w)'
  BY <1>8 DEF WakeUp, TypeOK
<1>9. CASE UNCHANGED vars
  BY <1>9 DEF vars
<1>10. QED
  BY <1>1, <1>2, <1>3, <1>4, <1>5, <1>6, <1>7, <1>8, <1>9 DEF Next, Inside

(* assert(sem->count > 0) in semaphore_wait and semaphore_timedwait holds  *)
(* for any capacity and any number of posters if one thread takes tokens   *)
(* and the condition variable has no spurious wake-ups.  Both conditions   *)
(* are needed: the run SemAssertion breaks it with a second taker.         *)
THEOREM AssertionHoldsForOneTaker ==
    ASSUME NEW w \in Threads, OnlyTaker(w), ~Spurious
    PROVE  Spec => []AssertionHolds
<1>1. Init => Reserved(w)
  BY DEF Init, Reserved
<1>2. IInv /\ Reserved(w) /\ [Next]_vars => Reserved(w)'
  BY ReservedStep
<1>3. Reserved(w) => AssertionHolds
  BY DEF Reserved, AssertionHolds
<1>4. QED
  BY <1>1, <1>2, <1>3, Invariance, PTL DEF Spec

OneTaker == \E w \in Threads : OnlyTaker(w)
Served == OneTaker \/ (maxCount = 1 /\ ~late) => ~Stranded

(* If only one thread takes, nobody else sleeps.                           *)
LEMMA OneSleeper ==
    ASSUME IInv, OneTaker, NEW t \in Threads, at[t] # "idle", op[t] \in Waits,
           at' = [at EXCEPT ![t] = "idle"] \/ at' = [at EXCEPT ![t] = "timedout"]
    PROVE  Blocked' = {}
<1>1. PICK w \in Threads : OnlyTaker(w)
  BY DEF OneTaker
<1>2. \A u \in Threads : at[u] = "blocked" => u = t
  BY <1>1 DEF IInv, OnlyTaker, InsideOK, Waits
<1>3. QED
  BY <1>2 DEF IInv, TypeOK, Blocked

LEMMA ServedStep ==
    ASSUME IInv, Served, [Next]_vars
    PROVE  Served'
<1> USE DEF IInv, Served, Stranded, Blocked, Signalled
<1>1. ASSUME NEW i \in -1..Capacity, NEW m \in -1..Capacity, semaphore_init(i, m)
      PROVE Served'
  BY <1>1 DEF semaphore_init, Quiescent
<1>2. CASE semaphore_destroy
  BY <1>2 DEF semaphore_destroy, Quiescent
<1>3. ASSUME NEW t \in Threads, NEW o \in Calls[t], Call(t, o) PROVE Served'
  BY <1>3 DEF Call, TypeOK
<1>4. ASSUME NEW t \in Threads, Wait(t) PROVE Served'
  BY <1>4 DEF Wait, Take, Return, TypeOK
<1>5. ASSUME NEW t \in Threads, Resume(t) PROVE Served'
  <2>1. CASE at[t] = "timedout" /\ Return(t, "TIMEOUT") /\ UNCHANGED <<count, aborted>>
    BY <1>5, <2>1 DEF Resume, Return, TypeOK
  <2>2. CASE at[t] \in {"signalled", "spurious"} /\ Take(t) /\ count <= 0
    BY <1>5, <2>2 DEF Resume, Take, TypeOK
  <2>3. CASE at[t] \in {"signalled", "spurious"} /\ Take(t) /\ count > 0
    <3>1. /\ at' = [at EXCEPT ![t] = "idle"] /\ count' = count - 1
          /\ UNCHANGED <<maxCount, late>>
      BY <1>5, <2>3 DEF Resume, Take, Return, TypeOK
    <3>2. CASE OneTaker
      BY <2>3, <3>1, <3>2, OneSleeper DEF InsideOK
    <3>3. CASE maxCount = 1
      BY <3>1, <3>3 DEF CountInRange, TypeOK
    <3>4. QED
      BY <3>1, <3>2, <3>3
  <2>4. QED
    BY <1>5, <2>1, <2>2, <2>3 DEF Resume, TypeOK
<1>6. ASSUME NEW t \in Threads, semaphore_try_wait(t) PROVE Served'
  BY <1>6 DEF semaphore_try_wait, Take, Return, TypeOK
<1>7. ASSUME NEW t \in Threads, semaphore_post(t) PROVE Served'
  BY <1>7 DEF semaphore_post, Signal, TypeOK
<1>8. ASSUME NEW t \in Threads, WakeUp(t) PROVE Served'
  <2>1. CASE at[t] = "blocked"
    BY <1>8, <2>1 DEF WakeUp, TypeOK
  <2>2. CASE at[t] = "signalled"
    <3>1. at' = [at EXCEPT ![t] = "timedout"] /\ late' /\ op[t] \in Waits
      BY <1>8, <2>2 DEF WakeUp, TypeOK, Waits
    <3>2. CASE OneTaker
      BY <2>2, <3>1, <3>2, OneSleeper
    <3>3. QED
      BY <3>1, <3>2
  <2>3. QED
    BY <1>8, <2>1, <2>2 DEF WakeUp
<1>9. CASE UNCHANGED vars
  BY <1>9 DEF vars
<1>10. QED
  BY <1>1, <1>2, <1>3, <1>4, <1>5, <1>6, <1>7, <1>8, <1>9 DEF Next, Inside

LEMMA AlwaysServed == Spec => []Served
<1>1. Init => Served
  BY DEF Init, Served, Stranded, Blocked
<1>2. IInv /\ Served /\ [Next]_vars => Served'
  BY ServedStep
<1>3. QED
  BY <1>1, <1>2, Invariance, PTL DEF Spec

(* semaphore_post signals only when the count becomes 1.  That is enough   *)
(* where the count cannot pass 1, until a wait that was signalled reports  *)
(* a timeout.                                                              *)
THEOREM NobodyStranded == Spec => []NoStrandedWaiter
<1>1. Served => NoStrandedWaiter
  BY DEF Served, NoStrandedWaiter
<1>2. QED
  BY <1>1, AlwaysServed, PTL

(* It is also enough where one thread takes tokens, whatever the ceiling   *)
(* and whenever waits time out.                                            *)
THEOREM OneTakerIsServed ==
    ASSUME OneTaker
    PROVE  Spec => []~Stranded
<1>1. Served => ~Stranded
  BY DEF Served
<1>2. QED
  BY <1>1, AlwaysServed, PTL
=============================================================================
