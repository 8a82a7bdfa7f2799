-------------------------------- MODULE Thread --------------------------------
(***************************************************************************)
(* The joinable thread of linux/oswrapper/thread_linux32.cpp, composed of  *)
(* a manual reset event (Event) that tells that the thread function has    *)
(* returned and of a mutex (mutex_linux32.cpp) that guards i_wait_count    *)
(* and the join.  One worker runs under the TThread; the other threads     *)
(* call the thread_* functions on it, the owner creates and closes it.     *)
(* The unlocked tests of is_valid are steps of their own, the sections     *)
(* under access_mut are split where they block.                            *)
(***************************************************************************)
EXTENDS Event

CONSTANTS
    worker, owner,      \* the thread being managed, and who creates and closes it
    NoOne,              \* nobody holds access_mut
    ThreadCalls,        \* ThreadCalls[t]: the thread_* functions t may call
    MayExit             \* may the thread function call thread_exit?

ThreadWaits == {"thread_wait", "thread_timedwait", "thread_close"}
ThreadOps == ThreadWaits \cup {"thread_is_valid", "thread_set_priority"}

ASSUME ThreadsAssumption == IsFiniteSet(Threads)
ASSUME RolesAssumption == {worker, owner} \subseteq Threads /\ NoOne \notin Threads
ASSUME ThreadCallsAssumption == ThreadCalls \in [Threads -> SUBSET ThreadOps]
ASSUME MayExitAssumption == MayExit \in BOOLEAN

VARIABLES
    is_valid, i_wait_count,     \* the fields of TThread
    mutexValid, holder,         \* access_mut: its is_valid, and who has locked it
    tat, top,                   \* where each thread is in a thread_* call, and in which
    life,                       \* what the worker is doing
    joined                      \* the handle of the last worker has been joined

threadVars == <<is_valid, i_wait_count, mutexValid, holder, tat, top, life, joined>>
vars == <<eventVars, threadVars>>

Phases == {"idle", "creating", "publishing", "locking", "polling", "recheck",
           "counting", "calling", "waiting", "joining", "destroying"}

ThreadTypeOK ==
    /\ EventTypeOK
    /\ is_valid \in BOOLEAN /\ mutexValid \in BOOLEAN
    /\ i_wait_count \in 0..Cardinality(Threads)
    /\ holder \in Threads \cup {NoOne}
    /\ tat \in [Threads -> Phases]
    /\ top \in [Threads -> ThreadOps \cup {"none"}]
    /\ life \in {"none", "running", "signalling", "ended"}
    /\ joined \in BOOLEAN

Goto(t, phase) == tat' = [tat EXCEPT ![t] = phase]

(* mutex_lock answers NOT_INIT at once on an invalid mutex, and no caller  *)
(* here looks at the answer.                                               *)
mutex_lock(t) == IF mutexValid THEN holder = NoOne /\ holder' = t ELSE UNCHANGED holder
mutex_unlock == holder' = IF mutexValid THEN NoOne ELSE holder
LockFree == mutexValid => holder = NoOne

(* Where a call goes on after the wait that ends it.                       *)
AfterWait(t) == IF top[t] = "thread_close" THEN "destroying" ELSE "idle"

-----------------------------------------------------------------------------
(* thread_set_invalid is the initial state.                                *)
Init == /\ EventInit /\ manual = TRUE
        /\ is_valid = FALSE /\ i_wait_count = 0
        /\ mutexValid = FALSE /\ holder = NoOne
        /\ tat = [t \in Threads |-> "idle"] /\ top = [t \in Threads |-> "none"]
        /\ life = "none" /\ joined = FALSE

(* thread_create: the event, the mutex and the lock of it.  i_wait_count   *)
(* is not set.  Nobody else uses the TThread at that time.                 *)
thread_create ==
    /\ \A t \in Threads : tat[t] = "idle" /\ at[t] = "idle"
    /\ ~is_valid /\ life \in {"none", "ended"} /\ state < 0
    /\ event_init(TRUE, 0)
    /\ mutexValid' = TRUE /\ holder' = owner
    /\ Goto(owner, "creating") /\ top' = [top EXCEPT ![owner] = "none"]
    /\ UNCHANGED <<is_valid, i_wait_count, life, joined>>

pthread_create_fails ==
    /\ tat[owner] = "creating"
    /\ is_valid' = FALSE /\ mutex_unlock /\ Goto(owner, "idle")
    /\ life' = "none"
    /\ UNCHANGED <<eventVars, i_wait_count, mutexValid, top, joined>>

(* The worker runs before is_valid tells so.                               *)
pthread_create ==
    /\ tat[owner] = "creating"
    /\ life' = "running" /\ joined' = FALSE
    /\ Goto(owner, "publishing")
    /\ UNCHANGED <<eventVars, is_valid, i_wait_count, mutexValid, holder, top>>

Publish ==
    /\ tat[owner] = "publishing"
    /\ is_valid' = TRUE /\ mutex_unlock /\ Goto(owner, "idle")
    /\ UNCHANGED <<eventVars, i_wait_count, mutexValid, top, life, joined>>

(* thread_proc: the function returns, the exit event is signalled.         *)
thread_proc ==
    \/ /\ life = "running" /\ tat[worker] = "idle"
       /\ EventCall(worker, "event_signal")
       /\ life' = "signalling"
       /\ UNCHANGED <<is_valid, i_wait_count, mutexValid, holder, tat, top, joined>>
    \/ /\ life = "signalling" /\ at[worker] = "idle"
       /\ life' = "ended"
       /\ UNCHANGED <<eventVars, is_valid, i_wait_count, mutexValid, holder, tat, top, joined>>

(* thread_exit ends the worker without a signal; before is_valid is set it *)
(* returns instead, and the thread function goes on.                       *)
thread_exit ==
    /\ MayExit /\ life = "running" /\ tat[worker] = "idle"
    /\ is_valid /\ life' = "ended"
    /\ UNCHANGED <<eventVars, is_valid, i_wait_count, mutexValid, holder, tat, top, joined>>

(* A call, up to and with the unlocked test of is_valid.  Only the owner   *)
(* closes, and when nobody else is inside; the worker calls while it runs. *)
ThreadCall(t, o) ==
    /\ tat[t] = "idle" /\ at[t] = "idle"
    /\ \A u \in Threads : tat[u] # "idle" => o # "thread_close" /\ top[u] # "thread_close"
    /\ t = worker => life = "running"
    /\ top' = [top EXCEPT ![t] = o]
    /\ \/ is_valid /\ o \in ThreadWaits /\ Goto(t, "counting")
       \/ is_valid /\ o \notin ThreadWaits /\ Goto(t, "locking")
       \/ ~is_valid /\ o = "thread_close" /\ Goto(t, "destroying")
       \/ ~is_valid /\ o # "thread_close" /\ UNCHANGED tat
    /\ UNCHANGED <<eventVars, is_valid, i_wait_count, mutexValid, holder, life, joined>>

(* thread_set_priority and get_thread_priority use the handle under the    *)
(* lock, without testing is_valid again.                                   *)
thread_set_priority(t) ==
    /\ tat[t] = "locking" /\ top[t] = "thread_set_priority"
    /\ LockFree
    /\ Goto(t, "idle")
    /\ UNCHANGED <<eventVars, is_valid, i_wait_count, mutexValid, holder, top, life, joined>>

(* thread_is_valid: polls the exit event with access_mut held, and waits   *)
(* (which tests is_valid again) if it is signalled.                        *)
thread_is_valid(t) ==
    \/ /\ tat[t] = "locking" /\ top[t] = "thread_is_valid"
       /\ mutex_lock(t) /\ EventCall(t, "event_timed_wait") /\ Goto(t, "polling")
       /\ UNCHANGED <<is_valid, i_wait_count, mutexValid, top, life, joined>>
    \/ /\ tat[t] = "polling" /\ at[t] = "idle"
       /\ mutex_unlock /\ Goto(t, IF ret[t] = "NO_ERROR" THEN "recheck" ELSE "idle")
       /\ UNCHANGED <<eventVars, is_valid, i_wait_count, mutexValid, top, life, joined>>
    \/ /\ tat[t] = "recheck"
       /\ Goto(t, IF is_valid THEN "counting" ELSE "idle")
       /\ UNCHANGED <<eventVars, is_valid, i_wait_count, mutexValid, holder, top, life, joined>>

(* thread_wait and thread_timedwait: count oneself in, wait for the event. *)
CountIn(t) ==
    /\ tat[t] = "counting" /\ LockFree
    /\ i_wait_count' = i_wait_count + 1
    /\ Goto(t, "calling")
    /\ UNCHANGED <<eventVars, is_valid, mutexValid, holder, top, life, joined>>

WaitExit_polls(t) ==
    /\ tat[t] = "calling"
    /\ EventCall(t, "event_timed_wait")
    /\ Goto(t, "waiting")
    /\ UNCHANGED <<is_valid, i_wait_count, mutexValid, holder, top, life, joined>>

WaitExit(t) ==
    /\ tat[t] = "calling"
    /\ EventCall(t, IF top[t] = "thread_timedwait" THEN "event_timed_wait" ELSE "event_wait")
    /\ Goto(t, "waiting")
    /\ UNCHANGED <<is_valid, i_wait_count, mutexValid, holder, top, life, joined>>

CountOut_gives_up(t) ==
    /\ tat[t] = "waiting" /\ at[t] = "idle" /\ LockFree
    /\ i_wait_count' = i_wait_count - 1
    /\ is_valid' = IF i_wait_count' = 0 THEN FALSE ELSE is_valid
    /\ Goto(t, AfterWait(t))
    /\ UNCHANGED <<eventVars, mutexValid, holder, top, life, joined>>

(* Whatever the event wait returned, the last one out goes on to join, and *)
(* keeps the lock meanwhile.                                               *)
CountOut(t) ==
    /\ tat[t] = "waiting" /\ at[t] = "idle" /\ LockFree
    /\ i_wait_count' = i_wait_count - 1
    /\ \/ i_wait_count' = 0 /\ mutex_lock(t) /\ Goto(t, "joining")
       \/ i_wait_count' # 0 /\ Goto(t, AfterWait(t)) /\ UNCHANGED holder
    /\ UNCHANGED <<eventVars, is_valid, mutexValid, top, life, joined>>

Join_without_wait(t) ==
    /\ tat[t] = "joining"
    /\ joined' = TRUE /\ is_valid' = FALSE
    /\ mutex_unlock /\ Goto(t, AfterWait(t))
    /\ UNCHANGED <<eventVars, i_wait_count, mutexValid, top, life>>

Join_keeps_lock(t) ==
    /\ tat[t] = "joining" /\ life = "ended"
    /\ joined' = TRUE /\ is_valid' = FALSE
    /\ Goto(t, AfterWait(t))
    /\ UNCHANGED <<eventVars, holder, i_wait_count, mutexValid, top, life>>

(* pthread_join blocks until the worker has ended.  On a handle joined     *)
(* before the result is undefined; here it is remembered and goes on.      *)
Join(t) ==
    /\ tat[t] = "joining" /\ life = "ended"
    /\ joined' = TRUE /\ is_valid' = FALSE
    /\ mutex_unlock /\ Goto(t, AfterWait(t))
    /\ UNCHANGED <<eventVars, i_wait_count, mutexValid, top, life>>

(* The rest of thread_close.                                               *)
CloseDown(t) ==
    /\ tat[t] = "destroying"
    /\ event_destroy
    /\ mutexValid' = FALSE /\ Goto(t, "idle")
    /\ UNCHANGED <<is_valid, i_wait_count, holder, top, life, joined>>

ThreadInside(t) ==
    \/ thread_set_priority(t) \/ thread_is_valid(t)
    \/ CountIn(t) \/ WaitExit(t) \/ CountOut(t) \/ Join(t) \/ CloseDown(t)
    \/ EventInside(t) /\ UNCHANGED threadVars

Creating == pthread_create_fails \/ pthread_create \/ Publish

Next ==
    \/ thread_create \/ Creating \/ thread_proc \/ thread_exit
    \/ \E t \in Threads :
          \/ \E o \in ThreadCalls[t] : ThreadCall(t, o)
          \/ ThreadInside(t)
          \/ EventWakeUp(t) /\ UNCHANGED threadVars

(* Every thread inside a call, and the worker, keeps being scheduled; the  *)
(* thread function makes finitely many calls and returns.  A timeout       *)
(* expires.                                                                *)
Fairness ==
    /\ WF_vars(Creating) /\ SF_vars(thread_proc)
    /\ \A t \in Threads :
          /\ SF_vars(ThreadInside(t))
          /\ WF_vars(op[t] = "event_timed_wait" /\ EventWakeUp(t) /\ UNCHANGED threadVars)

Spec == Init /\ [][Next]_vars /\ Fairness

-----------------------------------------------------------------------------
(* A TThread that was valid becomes invalid only when its thread is gone:  *)
(* while the worker runs, it is valid or about to be published.            *)
InvalidMeansEnded ==
    ~is_valid /\ life \in {"running", "signalling"} => tat[owner] = "publishing"

(* When thread_close has destroyed the event, the worker has ended and has *)
(* been joined: no handle leaks, and nobody signals a destroyed event.     *)
ClosedMeansJoined == state < 0 => life \in {"none", "ended"} /\ (life = "ended" => joined)

(* Without spurious wake-ups, a thread_wait that found the thread valid    *)
(* returns only after the thread function has returned.                    *)
WaitMeansEnded ==
    [][\A t \in Threads :
          /\ top[t] = "thread_wait" /\ tat[t] \in {"waiting", "joining"} /\ tat'[t] = "idle"
          => life \in {"signalling", "ended"}]_vars

(* Every call on the thread returns, unless the worker has left through    *)
(* thread_exit, which gives nobody the exit event.                         *)
CallsReturn ==
    \A t \in Threads :
        (tat[t] # "idle") ~> (tat[t] = "idle" \/ (life = "ended" /\ state = 0))
=============================================================================
