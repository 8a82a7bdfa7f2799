------------------------------ MODULE Semaphore ------------------------------
(***************************************************************************)
(* The counting semaphore of linux/oswrapper/semaphore_linux32.cpp: a      *)
(* counter guarded by a pthread mutex and a condition variable.  The       *)
(* caller tests maxCount without the lock, then enters the critical        *)
(* section.  Everything between pthread_mutex_lock and the next            *)
(* pthread_cond_wait or pthread_mutex_unlock is one step: every access to  *)
(* count is made under that mutex.  A sleeping thread has left the mutex   *)
(* and competes for it again once it has been signalled, has timed out or  *)
(* has woken spuriously.                                                   *)
(***************************************************************************)
EXTENDS Integers, FiniteSets

CONSTANTS
    Threads,    \* the threads that share the semaphore
    Calls,      \* Calls[t]: the operations thread t may call
    Capacity,   \* bound: the largest argument given to semaphore_init
    Spurious    \* may pthread_cond_wait return without a signal?

Waits == {"semaphore_wait", "semaphore_timedwait"}
Ops == Waits \cup {"semaphore_try_wait", "semaphore_post"}

ASSUME CallsAssumption == Calls \in [Threads -> SUBSET Ops]
ASSUME CapacityAssumption == Capacity \in Nat \ {0}
ASSUME SpuriousAssumption == Spurious \in BOOLEAN

VARIABLES
    count, maxCount,    \* the fields of TSemaphore
    at,                 \* where each thread is
    op,                 \* the operation each thread is in, or was last in
    ret,                \* what its last operation returned
    aborted,            \* an assertion has failed: the process is gone
    late                \* has a wait ever timed out after it was signalled?

vars == <<count, maxCount, at, op, ret, aborted, late>>

Places == {"idle", "lock", "blocked", "signalled", "spurious", "timedout"}
Codes == {"none", "NO_ERROR", "NOT_INIT", "TIMEOUT"}

Blocked == {t \in Threads : at[t] = "blocked"}
Signalled == {t \in Threads : at[t] = "signalled"}
Quiescent == \A t \in Threads : at[t] = "idle"

TypeOK ==
    /\ maxCount \in -1..Capacity
    /\ count \in -1..Capacity
    /\ at \in [Threads -> Places]
    /\ op \in [Threads -> Ops \cup {"none"}]
    /\ ret \in [Threads -> Codes]
    /\ aborted \in BOOLEAN /\ late \in BOOLEAN

-----------------------------------------------------------------------------
(* semaphore_set_invalid is the initial state.                             *)
Init == /\ count = -1 /\ maxCount = -1
        /\ at = [t \in Threads |-> "idle"]
        /\ op = [t \in Threads |-> "none"]
        /\ ret = [t \in Threads |-> "none"]
        /\ aborted = FALSE /\ late = FALSE

(* Refused when the arguments are out of order; a maxCount of 0 is taken,  *)
(* and makes a semaphore every operation calls not initialised.  Callers   *)
(* create and destroy it while no thread is inside.                        *)
semaphore_init(initCount, max) ==
    /\ ~aborted /\ Quiescent /\ maxCount <= 0
    /\ initCount >= 0 /\ max >= 0 /\ initCount <= max
    /\ count' = initCount /\ maxCount' = max
    /\ UNCHANGED <<at, op, ret, aborted, late>>

semaphore_destroy ==
    /\ ~aborted /\ Quiescent /\ 0 < maxCount
    /\ count' = -1 /\ maxCount' = -1
    /\ UNCHANGED <<at, op, ret, aborted, late>>

Call(t, o) ==
    /\ ~aborted /\ at[t] = "idle"
    /\ op' = [op EXCEPT ![t] = o]
    /\ \/ 0 < maxCount /\ at' = [at EXCEPT ![t] = "lock"] /\ UNCHANGED ret
       \/ maxCount <= 0 /\ ret' = [ret EXCEPT ![t] = "NOT_INIT"] /\ UNCHANGED at
    /\ UNCHANGED <<count, maxCount, aborted, late>>

Return(t, code) == /\ at' = [at EXCEPT ![t] = "idle"]
                   /\ ret' = [ret EXCEPT ![t] = code]

(* assert(sem->count > 0); sem->count--;                                   *)
Take(t) ==
    \/ count > 0 /\ count' = count - 1 /\ Return(t, "NO_ERROR") /\ UNCHANGED aborted
    \/ count <= 0 /\ aborted' = TRUE /\ UNCHANGED <<count, at, ret>>

(* The part of semaphore_wait and semaphore_timedwait up to the sleep.     *)
Wait(t) ==
    /\ ~aborted /\ at[t] = "lock" /\ op[t] \in Waits
    /\ \/ count = 0 /\ at' = [at EXCEPT ![t] = "blocked"] /\ UNCHANGED <<count, ret, aborted>>
       \/ count # 0 /\ Take(t)
    /\ UNCHANGED <<maxCount, op, late>>

Resume_unchecked(t) ==
    /\ ~aborted
    /\ \/ at[t] \in {"signalled", "spurious"} /\ count' = count - 1 /\ Return(t, "NO_ERROR")
       \/ at[t] = "timedout" /\ Return(t, "TIMEOUT") /\ UNCHANGED count
    /\ UNCHANGED <<maxCount, op, aborted, late>>

Resume_timeout_consumes(t) ==
    /\ ~aborted
    /\ \/ at[t] \in {"signalled", "spurious"} /\ Take(t)
       \/ /\ at[t] = "timedout" /\ Return(t, "TIMEOUT")
          /\ count' = IF count > 0 THEN count - 1 ELSE count
          /\ UNCHANGED aborted
    /\ UNCHANGED <<maxCount, op, late>>

(* The part after it: the count is not tested again.                       *)
Resume(t) ==
    /\ ~aborted
    /\ \/ at[t] \in {"signalled", "spurious"} /\ Take(t)
       \/ at[t] = "timedout" /\ Return(t, "TIMEOUT") /\ UNCHANGED <<count, aborted>>
    /\ UNCHANGED <<maxCount, op, late>>

semaphore_try_wait(t) ==
    /\ ~aborted /\ at[t] = "lock" /\ op[t] = "semaphore_try_wait"
    /\ \/ count = 0 /\ Return(t, "TIMEOUT") /\ UNCHANGED <<count, aborted>>
       \/ count # 0 /\ Take(t)
    /\ UNCHANGED <<maxCount, op, late>>

(* Returns to the caller, and wakes one sleeper if wakes holds.            *)
Signal(t, wakes) ==
    LET returned == [at EXCEPT ![t] = "idle"]
    IN  IF wakes /\ Blocked # {}
        THEN \E w \in Blocked : at' = [returned EXCEPT ![w] = "signalled"]
        ELSE at' = returned

semaphore_post_late_signal(t) ==
    /\ ~aborted /\ at[t] = "lock" /\ op[t] = "semaphore_post"
    /\ count' = IF count + 1 > maxCount THEN maxCount ELSE count + 1
    /\ Signal(t, count = 1)
    /\ ret' = [ret EXCEPT ![t] = "NO_ERROR"]
    /\ UNCHANGED <<maxCount, op, aborted, late>>

(* Wakes one sleeper, and only when the count has become 1.                *)
semaphore_post(t) ==
    /\ ~aborted /\ at[t] = "lock" /\ op[t] = "semaphore_post"
    /\ count' = IF count + 1 > maxCount THEN maxCount ELSE count + 1
    /\ Signal(t, count' = 1)
    /\ ret' = [ret EXCEPT ![t] = "NO_ERROR"]
    /\ UNCHANGED <<maxCount, op, aborted, late>>

(* What the condition variable may do on its own.  POSIX lets a timed wait *)
(* report the timeout also after it has been signalled.                    *)
WakeUp(t) ==
    /\ ~aborted
    /\ \/ /\ at[t] \in {"blocked", "signalled"} /\ op[t] = "semaphore_timedwait"
          /\ at' = [at EXCEPT ![t] = "timedout"]
          /\ late' = (late \/ at[t] = "signalled")
       \/ Spurious /\ at[t] = "blocked" /\ at' = [at EXCEPT ![t] = "spurious"] /\ UNCHANGED late
    /\ UNCHANGED <<count, maxCount, op, ret, aborted>>

Inside(t) == Wait(t) \/ Resume(t) \/ semaphore_try_wait(t) \/ semaphore_post(t)

Next ==
    \/ \E initCount, max \in -1..Capacity : semaphore_init(initCount, max)
    \/ semaphore_destroy
    \/ \E t \in Threads :
          (\E o \in Calls[t] : Call(t, o)) \/ Inside(t) \/ WakeUp(t)

(* The scheduler runs every thread that holds or can get the mutex.  The   *)
(* mutex of pthreads need not be fair, but a critical section is one step  *)
(* here, so a thread that waits for the lock is never disabled.            *)
Fairness == \A t \in Threads : WF_vars(Inside(t))

Spec == Init /\ [][Next]_vars /\ Fairness

-----------------------------------------------------------------------------
(* The count of a usable semaphore stays between 0 and its ceiling, also   *)
(* when a sleeper resumes after somebody else has taken its token: the     *)
(* assertions stop the process before the decrement.                       *)
CountInRange == maxCount >= 0 => count \in 0..maxCount

(* assert(sem->count > 0) never fails.                                     *)
AssertionHolds == ~aborted

Stranded == count > 0 /\ Blocked # {} /\ Signalled = {}

(* No thread sleeps beside a token nobody has been woken for, if maxCount  *)
(* is 1, so that every post signals, and until a wait that was woken has   *)
(* reported a timeout: that one leaves the token and wakes nobody.         *)
NoStrandedWaiter == maxCount = 1 /\ ~late => ~Stranded

(* With a maxCount of 1 and no such timeout, a token does not lie beside   *)
(* sleepers for ever: every post wakes somebody.                           *)
TokenIsTaken ==
    (maxCount = 1 /\ count > 0 /\ Blocked # {}) ~> (count <= 0 \/ Blocked = {} \/ aborted \/ late)

(* What the callers see, step by step: no call does anything that the      *)
(* abstract semaphore does not allow, whatever the sleepers do; a wait     *)
(* that times out after it was signalled has taken no token.               *)
Abstract == INSTANCE AbstractSemaphore WITH
    Timed <- {t \in Threads : Calls[t] \cap {"semaphore_timedwait", "semaphore_try_wait"} # {}},
    value <- count, ceiling <- maxCount,
    outcome <- [t \in Threads |-> IF at[t] = "idle" THEN ret[t]
                               ELSE IF op[t] \in Waits \cup {"semaphore_try_wait"} THEN "waiting"
                               ELSE "posting"]

ImplementsSafely == Abstract!Spec
=============================================================================
