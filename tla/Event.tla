-------------------------------- MODULE Event --------------------------------
(***************************************************************************)
(* The manual and auto reset events of linux/oswrapper/event_linux32.cpp:  *)
(* a flag guarded by a pthread mutex and a condition variable.  As in      *)
(* Semaphore, a critical section up to the sleep or the unlock is a step;  *)
(* the test 0 <= state that precedes it is made without the lock.          *)
(***************************************************************************)
EXTENDS Integers, FiniteSets

CONSTANTS
    Threads,        \* the threads that share the event
    EventCalls,     \* EventCalls[t]: the operations thread t may call
    Manuals,        \* the values of manual given to event_init
    Spurious        \* may pthread_cond_wait return without a signal?

EventWaits == {"event_wait", "event_timed_wait"}
EventOps == EventWaits \cup {"event_signal", "event_reset", "event_pulse"}

ASSUME EventCallsAssumption == EventCalls \in [Threads -> SUBSET EventOps]
ASSUME ManualsAssumption == Manuals \subseteq BOOLEAN
ASSUME EventSpuriousAssumption == Spurious \in BOOLEAN

VARIABLES
    state, manual,      \* the fields of TEvent
    at,                 \* where each thread is
    op,                 \* the operation each thread is in, or was last in
    ret                 \* what its last operation returned

eventVars == <<state, manual, at, op, ret>>

Blocked == {t \in Threads : at[t] = "blocked"}
Woken == {t \in Threads : at[t] \in {"signalled", "timedout"}}
EventQuiescent == \A t \in Threads : at[t] = "idle"

EventTypeOK ==
    /\ state \in -1..1 /\ manual \in BOOLEAN
    /\ at \in [Threads -> {"idle", "lock", "blocked", "signalled", "spurious", "timedout"}]
    /\ op \in [Threads -> EventOps \cup {"none"}]
    /\ ret \in [Threads -> {"none", "NO_ERROR", "NOT_INIT", "TIMEOUT"}]

-----------------------------------------------------------------------------
(* event_set_invalid is the initial state.                                 *)
EventInit == /\ state = -1 /\ manual \in Manuals
             /\ at = [t \in Threads |-> "idle"]
             /\ op = [t \in Threads |-> "none"]
             /\ ret = [t \in Threads |-> "none"]

event_init(man, st) ==
    /\ state' = (IF st # 0 THEN 1 ELSE 0) /\ manual' = man
    /\ UNCHANGED <<at, op, ret>>

event_destroy ==
    /\ state' = IF state >= 0 THEN -1 ELSE state
    /\ UNCHANGED <<manual, at, op, ret>>

(* The unlocked test of every operation.                                   *)
EventCall(t, o) ==
    /\ at[t] = "idle"
    /\ op' = [op EXCEPT ![t] = o]
    /\ \/ 0 <= state /\ at' = [at EXCEPT ![t] = "lock"] /\ UNCHANGED ret
       \/ 0 > state /\ ret' = [ret EXCEPT ![t] = "NOT_INIT"] /\ UNCHANGED at
    /\ UNCHANGED <<state, manual>>

EventReturn(t, code) == /\ at' = [at EXCEPT ![t] = "idle"]
                        /\ ret' = [ret EXCEPT ![t] = code]

Notify_one(t) ==
    LET returned == [at EXCEPT ![t] = "idle"]
    IN  IF Blocked = {} THEN at' = returned
        ELSE \E w \in Blocked : at' = [returned EXCEPT ![w] = "signalled"]

(* pthread_cond_broadcast for a manual event, pthread_cond_signal else.    *)
Notify(t) ==
    LET returned == [at EXCEPT ![t] = "idle"]
        woken(W) == [u \in Threads |-> IF u \in W THEN "signalled" ELSE returned[u]]
    IN  IF manual THEN at' = woken(Blocked)
        ELSE IF Blocked = {} THEN at' = returned
        ELSE \E w \in Blocked : at' = woken({w})

event_signal_no_notify(t) ==
    /\ at[t] = "lock" /\ op[t] = "event_signal"
    /\ state' = 1
    /\ EventReturn(t, "NO_ERROR")
    /\ UNCHANGED <<manual, op>>

event_signal(t) ==
    /\ at[t] = "lock" /\ op[t] = "event_signal"
    /\ \/ state = 0 /\ state' = 1 /\ Notify(t)
       \/ state # 0 /\ at' = [at EXCEPT ![t] = "idle"] /\ UNCHANGED state
    /\ ret' = [ret EXCEPT ![t] = "NO_ERROR"]
    /\ UNCHANGED <<manual, op>>

event_reset(t) ==
    /\ at[t] = "lock" /\ op[t] = "event_reset"
    /\ state' = IF state = 1 THEN 0 ELSE state
    /\ EventReturn(t, "NO_ERROR")
    /\ UNCHANGED <<manual, op>>

event_pulse(t) ==
    /\ at[t] = "lock" /\ op[t] = "event_pulse"
    /\ Notify(t)
    /\ state' = 0
    /\ ret' = [ret EXCEPT ![t] = "NO_ERROR"]
    /\ UNCHANGED <<manual, op>>

(* event_wait and event_timed_wait up to the sleep.                        *)
EventWait(t) ==
    /\ at[t] = "lock" /\ op[t] \in EventWaits
    /\ \/ state = 0 /\ at' = [at EXCEPT ![t] = "blocked"] /\ UNCHANGED <<state, ret>>
       \/ state # 0 /\ state' = (IF manual THEN state ELSE 0) /\ EventReturn(t, "NO_ERROR")
    /\ UNCHANGED <<manual, op>>

(* The rest, once the mutex is held again: the state is not looked at, and *)
(* an auto event is reset even when the wait has timed out.                *)
EventResume(t) ==
    /\ at[t] \in {"signalled", "spurious", "timedout"}
    /\ EventReturn(t, IF at[t] = "timedout" THEN "TIMEOUT" ELSE "NO_ERROR")
    /\ state' = IF manual THEN state ELSE 0
    /\ UNCHANGED <<manual, op>>

(* What the condition variable may do on its own.  POSIX lets a timed wait *)
(* report the timeout also after it has been signalled.                    *)
EventWakeUp(t) ==
    /\ \/ /\ at[t] \in {"blocked", "signalled"} /\ op[t] = "event_timed_wait"
          /\ at' = [at EXCEPT ![t] = "timedout"]
       \/ Spurious /\ at[t] = "blocked" /\ at' = [at EXCEPT ![t] = "spurious"]
    /\ UNCHANGED <<state, manual, op, ret>>

EventInside(t) == \/ event_signal(t) \/ event_reset(t) \/ event_pulse(t)
                  \/ EventWait(t) \/ EventResume(t)

(* Users create and destroy the event while no thread is in it.            *)
EventNext ==
    \/ EventQuiescent /\ state < 0 /\ \E man \in Manuals, st \in 0..2 : event_init(man, st)
    \/ EventQuiescent /\ event_destroy
    \/ \E t \in Threads : \/ \E o \in EventCalls[t] : EventCall(t, o)
                          \/ EventInside(t) \/ EventWakeUp(t)

EventFairness == \A t \in Threads : WF_eventVars(EventInside(t))

EventSpec == EventInit /\ [][EventNext]_eventVars /\ EventFairness

-----------------------------------------------------------------------------
(* A thread sleeps on a signalled event only if another has been woken and *)
(* is on its way, which will reset the event, be it that its own wait has  *)
(* timed out meanwhile; on a manual event nobody sleeps then.              *)
NoStrandedWaiter ==
    state = 1 /\ Blocked # {} => ~manual /\ Woken # {}

(* u leaves event_pulse, or event_signal on an event that was not set.     *)
Releases(u) ==
    /\ at[u] = "lock" /\ at'[u] = "idle"
    /\ op[u] = "event_pulse" \/ (op[u] = "event_signal" /\ state = 0)

WakesAll == \A u, t \in Threads :
    manual /\ Releases(u) /\ at[t] = "blocked" => at'[t] = "signalled"

(* Every thread asleep when a manual event is signalled or pulsed is woken *)
(* by that step, not just one of them, and then returns from its wait: it  *)
(* does not go back to sleep, even if the event is reset before it runs.   *)
(* Only a timed wait may return a timeout instead.                         *)
PulseReachesSleepers ==
    /\ [][WakesAll]_eventVars
    /\ \A t \in Threads : (at[t] = "signalled") ~>
            /\ at[t] = "idle"
            /\ ret[t] = "NO_ERROR" \/ (ret[t] = "TIMEOUT" /\ op[t] = "event_timed_wait")

=============================================================================
