---------------------------- MODULE ThreadProofs ----------------------------
(***************************************************************************)
(* What the event and the managed thread keep, for any number of threads   *)
(* and whatever they call.                                                 *)
(***************************************************************************)
EXTENDS Thread, FiniteSetTheorems, TLAPS

(***************************************************************************)
(* The event.  The types are all that NoStrandedWaiter needs besides       *)
(* itself: who sleeps has found the state 0 under the lock, and a signal   *)
(* takes a sleeper along when it leaves the state at 1.                    *)
(***************************************************************************)
EventInv == EventTypeOK /\ NoStrandedWaiter

LEMMA EventInitInv == EventInit => EventInv
  BY ManualsAssumption
  DEF EventInit, EventInv, EventTypeOK, NoStrandedWaiter, Blocked

(* Notify moves t out of the section, and sleepers on their way: all of    *)
(* them for a manual event, one for an auto event.                         *)
LEMMA NotifyWakes ==
    ASSUME EventTypeOK, NEW t \in Threads, at[t] = "lock", Notify(t)
    PROVE  /\ at' \in [Threads -> {"idle", "lock", "blocked", "signalled", "spurious", "timedout"}]
           /\ manual => \A u \in Threads : at'[u] # "blocked"
           /\ Blocked # {} => \E u \in Threads : at'[u] = "signalled"
           /\ at'[t] = "idle"
           /\ \A u \in Threads \ {t} :
                 at'[u] = at[u] \/ (at[u] = "blocked" /\ at'[u] = "signalled")
<1> DEFINE returned == [at EXCEPT ![t] = "idle"]
           woken(W) == [u \in Threads |-> IF u \in W THEN "signalled" ELSE returned[u]]
<1>1. \/ manual /\ at' = woken(Blocked)
      \/ ~manual /\ Blocked = {} /\ at' = returned
      \/ ~manual /\ \E w \in Blocked : at' = woken({w})
  BY DEF Notify
<1>2. t \notin Blocked
  BY DEF Blocked
<1>3. QED
  BY <1>1, <1>2 DEF EventTypeOK, Blocked

(* One step per operation.                                                 *)
LEMMA EventStep == EventInv /\ [EventNext]_eventVars => EventInv'
<1> SUFFICES ASSUME EventInv, [EventNext]_eventVars PROVE EventInv'
  OBVIOUS
<1> USE DEF EventInv, EventTypeOK, NoStrandedWaiter, Blocked, Woken, EventOps, EventWaits
<1>1. ASSUME NEW man \in Manuals, NEW st \in 0..2, EventQuiescent, event_init(man, st)
      PROVE EventInv'
  BY <1>1, ManualsAssumption DEF event_init, EventQuiescent
<1>2. CASE EventQuiescent /\ event_destroy
  BY <1>2 DEF event_destroy, EventQuiescent
<1>3. ASSUME NEW t \in Threads, NEW o \in EventCalls[t], EventCall(t, o) PROVE EventInv'
  <2>1. o \in EventOps
    BY EventCallsAssumption
  <2>2. QED
    BY <1>3, <2>1 DEF EventCall
<1>4. ASSUME NEW t \in Threads, event_signal(t) PROVE EventInv'
  BY <1>4, NotifyWakes DEF event_signal
<1>5. ASSUME NEW t \in Threads, event_reset(t) PROVE EventInv'
  BY <1>5 DEF event_reset, EventReturn
<1>6. ASSUME NEW t \in Threads, event_pulse(t) PROVE EventInv'
  BY <1>6, NotifyWakes DEF event_pulse
<1>7. ASSUME NEW t \in Threads, EventWait(t) PROVE EventInv'
  BY <1>7 DEF EventWait, EventReturn
<1>8. ASSUME NEW t \in Threads, EventResume(t) PROVE EventInv'
  BY <1>8 DEF EventResume, EventReturn
<1>9. ASSUME NEW t \in Threads, EventWakeUp(t) PROVE EventInv'
  BY <1>9 DEF EventWakeUp
<1>10. CASE UNCHANGED eventVars
  BY <1>10 DEF eventVars
<1>11. QED
  BY <1>1, <1>2, <1>3, <1>4, <1>5, <1>6, <1>7, <1>8, <1>9, <1>10 DEF EventNext, EventInside

LEMMA EventInvariance == EventSpec => []EventInv
  BY EventInitInv, EventStep, PTL DEF EventSpec

(* The fields of TEvent keep their types: the state is -1, 0 or 1.         *)
THEOREM EventTypeCorrect == EventSpec => []EventTypeOK
  BY EventInvariance, PTL DEF EventInv

(* event_signal, event_wait: nobody sleeps on an event that is signalled   *)
(* unless another thread is already on its way to take the signal.         *)
THEOREM NobodyStranded == EventSpec => []NoStrandedWaiter
  BY EventInvariance, PTL DEF EventInv

(* A step that ends event_pulse or a first event_signal is that operation. *)
LEMMA ReleaseStep ==
    ASSUME EventTypeOK, [EventNext]_eventVars, NEW u \in Threads, Releases(u)
    PROVE  event_signal(u) \/ event_pulse(u)
<1> USE DEF EventTypeOK, Releases, EventWaits
<1>1. ASSUME EventQuiescent PROVE FALSE
  BY <1>1 DEF EventQuiescent
<1>2. ASSUME NEW t \in Threads, NEW o \in EventCalls[t], EventCall(t, o) PROVE FALSE
  BY <1>2 DEF EventCall
<1>3. ASSUME NEW t \in Threads, event_signal(t) PROVE t = u
  BY <1>3 DEF event_signal, Notify, Blocked
<1>4. ASSUME NEW t \in Threads, event_pulse(t) PROVE t = u
  BY <1>4 DEF event_pulse, Notify, Blocked
<1>5. ASSUME NEW t \in Threads, event_reset(t) \/ EventWait(t) \/ EventResume(t) PROVE FALSE
  BY <1>5 DEF event_reset, EventWait, EventResume, EventReturn
<1>6. ASSUME NEW t \in Threads, EventWakeUp(t) PROVE FALSE
  BY <1>6 DEF EventWakeUp
<1>7. CASE UNCHANGED eventVars
  BY <1>7 DEF eventVars
<1>8. QED
  BY <1>1, <1>2, <1>3, <1>4, <1>5, <1>6, <1>7 DEF EventNext, EventInside

(* event_signal and event_pulse: no thread that sleeps on a manual event   *)
(* is left asleep by the broadcast, however many there are.                *)
THEOREM BroadcastWakesAll == EventSpec => [][WakesAll]_eventVars
<1>1. EventTypeOK /\ [EventNext]_eventVars => [WakesAll]_eventVars
  <2> SUFFICES ASSUME EventTypeOK, [EventNext]_eventVars, NEW u \in Threads, NEW t \in Threads,
                      manual, Releases(u), at[t] = "blocked"
               PROVE  at'[t] = "signalled"
    BY DEF WakesAll
  <2>1. event_signal(u) \/ event_pulse(u)
    BY ReleaseStep
  <2>2. Notify(u)
    BY <2>1 DEF event_signal, event_pulse, Releases, EventTypeOK
  <2>3. at'[t] # "blocked"
    BY <2>2, NotifyWakes DEF Releases
  <2>4. t # u
    BY DEF Releases
  <2>5. QED
    BY <2>2, <2>3, <2>4, NotifyWakes DEF Releases
<1>2. QED
  BY <1>1, EventTypeCorrect, PTL DEF EventSpec

-----------------------------------------------------------------------------
(***************************************************************************)
(* The managed thread.                                                     *)
(***************************************************************************)
Counted == {t \in Threads : tat[t] \in {"calling", "waiting"}}
Creates == tat[owner] \in {"creating", "publishing"}

(* i_wait_count is the number of threads between CountIn and CountOut.     *)
CountExact == i_wait_count = Cardinality(Counted)

(* What the phases of a call say of the operation.                         *)
PhasesOK == \A t \in Threads :
    /\ tat[t] = "destroying" => top[t] = "thread_close"
    /\ tat[t] \in {"creating", "publishing"} => t = owner /\ top[t] = "none"
    /\ tat[t] \notin {"idle", "creating", "publishing"} => top[t] # "none"

(* Who creates or closes the thread is alone in it.                        *)
Alone == \A t, u \in Threads :
    /\ tat[t] # "idle" /\ top[t] \in {"thread_close", "none"} /\ t # u
    => tat[u] = "idle"

(* What is_valid and the event say of the worker.                          *)
ValidOK ==
    /\ is_valid => state >= 0 /\ life # "none" /\ ~Creates
    /\ ~is_valid => life = "none" \/ (life = "ended" /\ joined) \/ tat[owner] = "publishing"
    /\ tat[owner] = "creating" => life \in {"none", "ended"} /\ state = 0
    /\ tat[owner] = "publishing" => life # "none" /\ state >= 0
    /\ \A t \in Threads : tat[t] = "destroying" => ~is_valid

(* A destroyed event or mutex has nobody in it.                            *)
DestroyedOK == state < 0 \/ ~mutexValid => ~is_valid /\ \A t \in Threads : tat[t] \in {"idle", "destroying"}

(* access_mut is held by who polls, joins or creates.                      *)
LockOK == \A t \in Threads :
    tat[t] \in {"creating", "publishing", "polling", "joining"} => mutexValid /\ holder = t

(* Who is in the event is a waiter, or the worker that signals its end.    *)
EventUsers == \A t \in Threads : at[t] # "idle" =>
    \/ tat[t] \in {"polling", "waiting"} /\ op[t] \in EventWaits
    \/ /\ t = worker /\ tat[t] = "idle" /\ life = "signalling"
       /\ op[t] = "event_signal" /\ at[t] = "lock"

Over == life \in {"signalling", "ended"}

(* The exit event is signalled only at the end, and wakes only then.       *)
SignalledOK ==
    /\ manual
    /\ state = 1 => Over
    /\ \A t \in Threads : at[t] = "signalled" => Over

(* A plain wait that has left the event has been let go.                   *)
WaitersOK == ~Spurious => \A t \in Threads : top[t] = "thread_wait" =>
    /\ tat[t] = "waiting" => /\ at[t] # "idle" => op[t] = "event_wait"
                             /\ at[t] \in {"idle", "lock", "blocked", "signalled"}
                             /\ at[t] = "idle" => Over
    /\ tat[t] = "joining" => Over

IInv ==
    /\ ThreadTypeOK /\ CountExact /\ PhasesOK /\ Alone /\ ValidOK /\ DestroyedOK
    /\ LockOK /\ EventUsers /\ SignalledOK /\ WaitersOK

LEMMA ThreadInitInv == Init => IInv
<1> SUFFICES ASSUME Init PROVE IInv
  OBVIOUS
<1> USE DEF Init, EventInit
<1>1. Counted = {}
  BY DEF Counted
<1>2. CountExact
  BY <1>1, FS_EmptySet DEF CountExact
<1>3. ThreadTypeOK
  <2>1. Cardinality(Threads) \in Nat
    BY ThreadsAssumption, FS_CardinalityType
  <2>2. EventTypeOK
    BY EventInitInv DEF EventInv
  <2>3. is_valid \in BOOLEAN /\ mutexValid \in BOOLEAN /\ joined \in BOOLEAN
    OBVIOUS
  <2>4. QED
    BY <2>1, <2>2, <2>3 DEF ThreadTypeOK, Phases
<1>4. QED
  BY <1>2, <1>3, RolesAssumption
  DEF IInv, PhasesOK, Alone, ValidOK, Creates, DestroyedOK, LockOK, EventUsers, SignalledOK,
      Over, WaitersOK

(* Counting oneself in and out keeps i_wait_count exact.                   *)
LEMMA CountStep ==
    ASSUME ThreadTypeOK, CountExact
    PROVE  /\ IsFiniteSet(Counted) /\ i_wait_count \in Nat
           /\ \A t \in Threads : Counted \cup {t} \subseteq Threads /\ IsFiniteSet(Counted \cup {t})
           /\ \A t \in Threads \ Counted : Cardinality(Counted \cup {t}) = i_wait_count + 1
           /\ \A t \in Counted : Cardinality(Counted \ {t}) = i_wait_count - 1
           /\ \A S \in SUBSET Threads : Cardinality(S) \in 0..Cardinality(Threads)
           /\ \A t \in Counted : Counted = {t} => i_wait_count = 1
<1>1. /\ IsFiniteSet(Counted)
      /\ \A S \in SUBSET Threads : Cardinality(S) \in 0..Cardinality(Threads)
  BY ThreadsAssumption, FS_Subset, FS_CardinalityType DEF Counted
<1>2. i_wait_count = Cardinality(Counted) /\ i_wait_count \in Nat
  BY <1>1, FS_CardinalityType DEF CountExact
<1>3. \A t \in Threads : Counted \cup {t} \subseteq Threads /\ IsFiniteSet(Counted \cup {t})
  BY <1>1, FS_AddElement DEF Counted
<1>4. \A t \in Threads \ Counted : Cardinality(Counted \cup {t}) = i_wait_count + 1
  BY <1>1, <1>2, FS_AddElement
<1>5. \A t \in Counted : Cardinality(Counted \ {t}) = i_wait_count - 1
  BY <1>1, <1>2, FS_RemoveElement
<1>6. \A t \in Counted : Counted = {t} => i_wait_count = 1
  BY <1>2, FS_Singleton
<1>7. QED
  BY <1>1, <1>2, <1>3, <1>4, <1>5, <1>6

(* A step that leaves the phases of everybody where they were, or moves t  *)
(* between phases that are both counted or both not, changes no count.     *)
LEMMA SameCount ==
    ASSUME ThreadTypeOK, CountExact, i_wait_count' = i_wait_count, NEW t \in Threads,
           NEW phase \in Phases, tat' = [tat EXCEPT ![t] = phase],
           (phase \in {"calling", "waiting"}) <=> (tat[t] \in {"calling", "waiting"})
    PROVE  CountExact'
<1>1. Counted' = Counted
  BY DEF Counted, ThreadTypeOK
<1>2. QED
  BY <1>1 DEF CountExact

(* One step per function of the file, or part of it that does not block.   *)
LEMMA ThreadStep == IInv /\ [Next]_vars => IInv'
<1> SUFFICES ASSUME IInv, [Next]_vars PROVE IInv'
  OBVIOUS
<1> DEFINE Others == /\ PhasesOK /\ Alone /\ ValidOK /\ DestroyedOK /\ LockOK /\ EventUsers
                     /\ SignalledOK /\ WaitersOK
<1>0. ThreadTypeOK /\ CountExact /\ Others
  BY DEF IInv
<1> USE <1>0, RolesAssumption
    DEF ThreadTypeOK, EventTypeOK, Phases, Goto, PhasesOK, Alone, ValidOK, Creates, DestroyedOK, LockOK,
        EventUsers, SignalledOK, Over, WaitersOK, ThreadOps, ThreadWaits, EventOps, EventWaits
<1>1. CASE thread_create
  <2>1. ThreadTypeOK'
    BY <1>1 DEF thread_create, event_init
  <2>2. CountExact'
    BY <1>1, SameCount DEF thread_create, event_init
  <2>3. Others'
    BY <1>1 DEF thread_create, event_init
  <2>4. QED
    BY <2>1, <2>2, <2>3 DEF IInv
<1>2. CASE pthread_create_fails
  <2> USE DEF pthread_create_fails, mutex_unlock
  <2>1. holder' = NoOne /\ tat' = [tat EXCEPT ![owner] = "idle"] /\ is_valid' = FALSE /\ life' = "none"
    BY <1>2
  <2>2. UNCHANGED <<state, manual, at, op, ret, i_wait_count, mutexValid, top, joined>>
    BY <1>2 DEF eventVars
  <2>3. ThreadTypeOK'
    BY <2>1, <2>2
  <2>4. CountExact'
    BY <1>2, <2>1, <2>2, SameCount
  <2>5. Others'
    BY <1>2, <2>1, <2>2
  <2>6. QED
    BY <2>3, <2>4, <2>5 DEF IInv
<1>3. CASE pthread_create
  <2>1. ThreadTypeOK'
    BY <1>3 DEF pthread_create, eventVars
  <2>2. CountExact'
    BY <1>3, SameCount DEF pthread_create, eventVars
  <2>3. Others'
    BY <1>3 DEF pthread_create, eventVars
  <2>4. QED
    BY <2>1, <2>2, <2>3 DEF IInv
<1>4. CASE Publish
  <2>1. ThreadTypeOK'
    BY <1>4 DEF Publish, mutex_unlock, eventVars
  <2>2. CountExact'
    BY <1>4, SameCount DEF Publish, mutex_unlock, eventVars
  <2>3. Others'
    BY <1>4 DEF Publish, mutex_unlock, eventVars
  <2>4. QED
    BY <2>1, <2>2, <2>3 DEF IInv
<1>5. CASE thread_proc
  <2>1. UNCHANGED <<state, manual, is_valid, i_wait_count, mutexValid, holder, tat, top, joined>>
    BY <1>5 DEF thread_proc, EventCall, eventVars
  <2>2. CountExact'
    BY <2>1 DEF CountExact, Counted
  <2>3. CASE /\ life = "running" /\ tat[worker] = "idle" /\ EventCall(worker, "event_signal")
             /\ life' = "signalling"
    <3>1. ThreadTypeOK'
      BY <2>1, <2>3 DEF EventCall
    <3>2. Others'
      BY <2>1, <2>3 DEF EventCall
    <3>3. QED
      BY <2>2, <3>1, <3>2 DEF IInv
  <2>4. CASE life = "signalling" /\ at[worker] = "idle" /\ life' = "ended" /\ UNCHANGED eventVars
    <3>1. ThreadTypeOK'
      BY <2>1, <2>4 DEF eventVars
    <3>2. Others'
      BY <2>1, <2>4 DEF eventVars
    <3>3. QED
      BY <2>2, <3>1, <3>2 DEF IInv
  <2>5. QED
    BY <1>5, <2>3, <2>4 DEF thread_proc
<1>6. CASE thread_exit
  <2>1. ThreadTypeOK'
    BY <1>6 DEF thread_exit, eventVars
  <2>2. CountExact'
    BY <1>6 DEF thread_exit, eventVars, CountExact, Counted
  <2>3. Others'
    BY <1>6 DEF thread_exit, eventVars
  <2>4. QED
    BY <2>1, <2>2, <2>3 DEF IInv
<1>7. ASSUME NEW t \in Threads, NEW o \in ThreadCalls[t], ThreadCall(t, o) PROVE IInv'
  <2>1. o \in ThreadOps /\ o # "none"
    BY ThreadCallsAssumption
  <2>2. \/ tat' = tat
        \/ is_valid /\ o \in ThreadWaits /\ tat' = [tat EXCEPT ![t] = "counting"]
        \/ is_valid /\ o \notin ThreadWaits /\ tat' = [tat EXCEPT ![t] = "locking"]
        \/ ~is_valid /\ o = "thread_close" /\ tat' = [tat EXCEPT ![t] = "destroying"]
    BY <1>7 DEF ThreadCall
  <2>3. UNCHANGED <<state, manual, at, op, ret, is_valid, i_wait_count, mutexValid, holder, life, joined>>
    BY <1>7 DEF ThreadCall, eventVars
  <2>4. /\ tat[t] = "idle" /\ at[t] = "idle" /\ top' = [top EXCEPT ![t] = o]
        /\ \A u \in Threads : tat[u] # "idle" => o # "thread_close" /\ top[u] # "thread_close"
        /\ t = worker => life = "running"
    BY <1>7 DEF ThreadCall
  <2>5. ThreadTypeOK'
    <3>1. tat' \in [Threads -> Phases] /\ top' \in [Threads -> ThreadOps \cup {"none"}]
      BY <2>1, <2>2, <2>4
    <3>2. QED
      BY <2>3, <3>1
  <2>6. CountExact'
    BY <2>2, <2>3, <2>4, SameCount DEF CountExact, Counted
  <2>7. PhasesOK' /\ Alone'
    BY <2>1, <2>2, <2>3, <2>4
  <2>8. ValidOK' /\ DestroyedOK' /\ LockOK'
    BY <2>1, <2>2, <2>3, <2>4
  <2>9. EventUsers' /\ SignalledOK' /\ WaitersOK'
    BY <2>1, <2>2, <2>3, <2>4
  <2>10. QED
    BY <2>5, <2>6, <2>7, <2>8, <2>9 DEF IInv
<1>8. ASSUME NEW t \in Threads, thread_set_priority(t) PROVE IInv'
  <2>1. ThreadTypeOK'
    BY <1>8 DEF thread_set_priority, eventVars
  <2>2. CountExact'
    BY <1>8, SameCount DEF thread_set_priority, eventVars
  <2>3. Others'
    BY <1>8 DEF thread_set_priority, eventVars
  <2>4. QED
    BY <2>1, <2>2, <2>3 DEF IInv
<1>9. ASSUME NEW t \in Threads, thread_is_valid(t) PROVE IInv'
  <2>1. UNCHANGED <<state, manual, is_valid, i_wait_count, mutexValid, top, life, joined>>
    BY <1>9 DEF thread_is_valid, EventCall, eventVars
  <2>2. CASE /\ tat[t] = "locking" /\ top[t] = "thread_is_valid"
             /\ mutex_lock(t) /\ EventCall(t, "event_timed_wait") /\ Goto(t, "polling")
    <3>1. state >= 0
      BY <2>2
    <3>2. mutexValid /\ holder = NoOne /\ holder' = t
      BY <2>2 DEF mutex_lock
    <3>3. ThreadTypeOK'
      BY <2>1, <2>2, <3>1, <3>2 DEF EventCall
    <3>4. CountExact'
      BY <2>1, <2>2, SameCount
    <3>5. Others'
      BY <2>1, <2>2, <3>1, <3>2 DEF EventCall
    <3>6. QED
      BY <3>3, <3>4, <3>5 DEF IInv
  <2>3. CASE /\ tat[t] = "polling" /\ at[t] = "idle" /\ mutex_unlock
             /\ Goto(t, IF ret[t] = "NO_ERROR" THEN "recheck" ELSE "idle") /\ UNCHANGED eventVars
    <3>1. ThreadTypeOK'
      BY <2>1, <2>3 DEF eventVars, mutex_unlock
    <3>2. CountExact'
      BY <2>1, <2>3, SameCount
    <3>3. Others'
      BY <2>1, <2>3 DEF eventVars, mutex_unlock
    <3>4. QED
      BY <3>1, <3>2, <3>3 DEF IInv
  <2>4. CASE /\ tat[t] = "recheck" /\ Goto(t, IF is_valid THEN "counting" ELSE "idle")
             /\ UNCHANGED <<eventVars, holder>>
    <3>1. /\ tat' = [tat EXCEPT ![t] = "counting"] \/ tat' = [tat EXCEPT ![t] = "idle"]
          /\ UNCHANGED <<at, op, ret, holder>>
      BY <2>4 DEF eventVars
    <3>2. ThreadTypeOK'
      BY <2>1, <3>1
    <3>3. CountExact'
      BY <2>1, <2>4, <3>1, SameCount
    <3>4. Others'
      BY <2>1, <2>4, <3>1 DEF eventVars
    <3>5. QED
      BY <3>2, <3>3, <3>4 DEF IInv
  <2>5. QED
    BY <1>9, <2>2, <2>3, <2>4 DEF thread_is_valid
<1>10. ASSUME NEW t \in Threads, CountIn(t) PROVE IInv'
  <2> USE DEF CountIn, eventVars
  <2>1. Counted' = Counted \cup {t} /\ t \notin Counted
    BY <1>10 DEF Counted
  <2>2. i_wait_count' = Cardinality(Counted')
    BY <1>10, <2>1, CountStep
  <2>3. i_wait_count' \in 0..Cardinality(Threads)
    BY <2>1, <2>2, CountStep
  <2>4. ThreadTypeOK'
    BY <1>10, <2>3
  <2>5. Others'
    BY <1>10
  <2>6. QED
    BY <2>2, <2>4, <2>5 DEF IInv, CountExact
<1>11. ASSUME NEW t \in Threads, WaitExit(t) PROVE IInv'
  <2>1. ThreadTypeOK'
    BY <1>11 DEF WaitExit, EventCall
  <2>2. CountExact'
    BY <1>11, SameCount DEF WaitExit, EventCall
  <2>3. Others'
    BY <1>11 DEF WaitExit, EventCall
  <2>4. QED
    BY <2>1, <2>2, <2>3 DEF IInv
<1>12. ASSUME NEW t \in Threads, CountOut(t) PROVE IInv'
  <2>1. /\ tat[t] = "waiting" /\ at[t] = "idle" /\ LockFree
        /\ UNCHANGED <<state, manual, at, op, ret, is_valid, mutexValid, top, life, joined>>
    BY <1>12 DEF CountOut, eventVars
  <2>2. top[t] = "thread_close" => i_wait_count' = 0
    <3>1. top[t] = "thread_close" => Counted = {t}
      BY <2>1 DEF Counted
    <3>2. t \in Counted
      BY <2>1 DEF Counted
    <3>3. top[t] = "thread_close" => i_wait_count = 1
      BY <3>1, <3>2, CountStep
    <3>4. QED
      BY <1>12, <3>3 DEF CountOut
  <2>3. \/ /\ tat' = [tat EXCEPT ![t] = "joining"]
           /\ mutexValid /\ holder = NoOne /\ holder' = t
        \/ tat' = [tat EXCEPT ![t] = "idle"] /\ holder' = holder
    <3>1. mutexValid
      BY <2>1
    <3>2. CASE i_wait_count' = 0
      BY <1>12, <3>1, <3>2 DEF CountOut, mutex_lock
    <3>3. CASE i_wait_count' # 0
      BY <1>12, <2>2, <3>3 DEF CountOut, AfterWait
    <3>4. QED
      BY <3>2, <3>3
  <2>4. Counted' = Counted \ {t} /\ t \in Counted
    BY <2>1, <2>3 DEF Counted
  <2>5. i_wait_count' = Cardinality(Counted')
    BY <1>12, <2>4, CountStep DEF CountOut
  <2>6. i_wait_count' \in 0..Cardinality(Threads)
    <3>1. Counted' \in SUBSET Threads
      BY <2>4 DEF Counted
    <3>2. QED
      BY <2>5, <3>1, CountStep
  <2>7. ThreadTypeOK'
    BY <2>1, <2>3, <2>6
  <2>8. Others'
    BY <2>1, <2>3
  <2>9. QED
    BY <2>5, <2>7, <2>8 DEF IInv, CountExact
<1>13. ASSUME NEW t \in Threads, Join(t) PROVE IInv'
  <2>1. ThreadTypeOK'
    BY <1>13 DEF Join, mutex_unlock, AfterWait, eventVars
  <2>2. CountExact'
    BY <1>13, SameCount DEF Join, mutex_unlock, AfterWait, eventVars
  <2>3. Others'
    BY <1>13 DEF Join, mutex_unlock, AfterWait, eventVars
  <2>4. QED
    BY <2>1, <2>2, <2>3 DEF IInv
<1>14. ASSUME NEW t \in Threads, CloseDown(t) PROVE IInv'
  <2>1. /\ tat[t] = "destroying" /\ tat' = [tat EXCEPT ![t] = "idle"] /\ mutexValid' = FALSE
        /\ state' = (IF state >= 0 THEN -1 ELSE state)
        /\ UNCHANGED <<manual, at, op, ret, is_valid, i_wait_count, holder, top, life, joined>>
    BY <1>14 DEF CloseDown, event_destroy
  <2>2. \A u \in Threads \ {t} : tat[u] = "idle"
    BY <2>1
  <2>3. ThreadTypeOK'
    <3>1. state' \in -1..1
      BY <2>1
    <3>2. EventTypeOK'
      BY <2>1, <3>1
    <3>3. QED
      BY <2>1, <3>2
  <2>4. CountExact'
    BY <2>1, SameCount
  <2>5. Others'
    BY <2>1, <2>2
  <2>6. QED
    BY <2>3, <2>4, <2>5 DEF IInv
<1>15. ASSUME NEW t \in Threads, event_signal(t) /\ UNCHANGED threadVars PROVE IInv'
  <2>1. /\ at[t] = "lock" /\ op[t] = "event_signal"
        /\ ret' = [ret EXCEPT ![t] = "NO_ERROR"] /\ UNCHANGED <<manual, op>>
    BY <1>15 DEF event_signal
  <2>2. UNCHANGED <<is_valid, i_wait_count, mutexValid, holder, tat, top, life, joined>>
    BY <1>15 DEF threadVars
  <2>3. t = worker /\ life = "signalling"
    BY <2>1
  <2>4. state' = 1 \/ state' = state
    BY <1>15 DEF event_signal
  <2>5. /\ at' \in [Threads -> {"idle", "lock", "blocked", "signalled", "spurious", "timedout"}]
        /\ at'[t] = "idle"
        /\ \A u \in Threads \ {t} : at'[u] = at[u] \/ (at[u] = "blocked" /\ at'[u] = "signalled")
    BY <1>15, <2>1, NotifyWakes DEF event_signal
  <2>6. ThreadTypeOK'
    <3>1. state' \in -1..1 /\ manual' \in BOOLEAN
      BY <2>1, <2>4
    <3>2. ret' \in [Threads -> {"none", "NO_ERROR", "NOT_INIT", "TIMEOUT"}]
      BY <2>1
    <3>3. op' \in [Threads -> EventOps \cup {"none"}]
      BY <2>1
    <3>4. EventTypeOK'
      BY <2>5, <3>1, <3>2, <3>3
    <3>5. QED
      BY <2>2, <3>4
  <2>7. CountExact'
    BY <2>2 DEF CountExact, Counted
  <2>8. Others'
    BY <2>1, <2>2, <2>3, <2>4, <2>5
  <2>9. QED
    BY <2>6, <2>7, <2>8 DEF IInv
<1>16. ASSUME NEW t \in Threads, event_reset(t) /\ UNCHANGED threadVars PROVE IInv'
  <2>1. ThreadTypeOK'
    BY <1>16 DEF event_reset, EventReturn, threadVars
  <2>2. CountExact'
    BY <1>16 DEF event_reset, EventReturn, threadVars, CountExact, Counted
  <2>3. Others'
    BY <1>16 DEF event_reset, EventReturn, threadVars
  <2>4. QED
    BY <2>1, <2>2, <2>3 DEF IInv
<1>17. ASSUME NEW t \in Threads, event_pulse(t) /\ UNCHANGED threadVars PROVE IInv'
  <2>1. ThreadTypeOK'
    BY <1>17 DEF event_pulse, threadVars
  <2>2. CountExact'
    BY <1>17 DEF event_pulse, threadVars, CountExact, Counted
  <2>3. Others'
    BY <1>17 DEF event_pulse, threadVars
  <2>4. QED
    BY <2>1, <2>2, <2>3 DEF IInv
<1>18. ASSUME NEW t \in Threads, EventWait(t) /\ UNCHANGED threadVars PROVE IInv'
  <2>1. ThreadTypeOK'
    BY <1>18 DEF EventWait, EventReturn, threadVars
  <2>2. CountExact'
    BY <1>18 DEF EventWait, EventReturn, threadVars, CountExact, Counted
  <2>3. Others'
    BY <1>18 DEF EventWait, EventReturn, threadVars
  <2>4. QED
    BY <2>1, <2>2, <2>3 DEF IInv
<1>19. ASSUME NEW t \in Threads, EventResume(t) /\ UNCHANGED threadVars PROVE IInv'
  <2>1. ThreadTypeOK'
    BY <1>19 DEF EventResume, EventReturn, threadVars
  <2>2. CountExact'
    BY <1>19 DEF EventResume, EventReturn, threadVars, CountExact, Counted
  <2>3. Others'
    BY <1>19 DEF EventResume, EventReturn, threadVars
  <2>4. QED
    BY <2>1, <2>2, <2>3 DEF IInv
<1>20. ASSUME NEW t \in Threads, EventWakeUp(t) /\ UNCHANGED threadVars PROVE IInv'
  <2>1. ThreadTypeOK'
    BY <1>20 DEF EventWakeUp, threadVars
  <2>2. CountExact'
    BY <1>20 DEF EventWakeUp, threadVars, CountExact, Counted
  <2>3. Others'
    BY <1>20 DEF EventWakeUp, threadVars
  <2>4. QED
    BY <2>1, <2>2, <2>3 DEF IInv
<1>21. CASE UNCHANGED vars
  <2>1. ThreadTypeOK'
    BY <1>21 DEF vars, eventVars, threadVars
  <2>2. CountExact'
    BY <1>21 DEF vars, eventVars, threadVars, CountExact, Counted
  <2>3. Others'
    BY <1>21 DEF vars, eventVars, threadVars
  <2>4. QED
    BY <2>1, <2>2, <2>3 DEF IInv
<1>22. QED
  BY <1>1, <1>2, <1>3, <1>4, <1>5, <1>6, <1>7, <1>8, <1>9, <1>10, <1>11, <1>12, <1>13, <1>14, <1>15, <1>16, <1>17, <1>18, <1>19, <1>20, <1>21
  DEF Next, Creating, ThreadInside, EventInside

LEMMA ThreadInvariance == Spec => []IInv
  BY ThreadInitInv, ThreadStep, PTL DEF Spec

(* The fields of TThread keep their types: i_wait_count never passes the   *)
(* number of threads nor goes below zero.                                  *)
THEOREM ThreadTypeCorrect == Spec => []ThreadTypeOK
  BY ThreadInvariance, PTL DEF IInv

(* thread_proc, thread_wait: a TThread that is not valid has no running    *)
(* worker, unless thread_create is just about to publish it.               *)
THEOREM InvalidHasNoWorker == Spec => []InvalidMeansEnded
<1>1. IInv => InvalidMeansEnded
  BY DEF IInv, ValidOK, InvalidMeansEnded
<1>2. QED
  BY <1>1, ThreadInvariance, PTL

(* thread_close: the event is destroyed only after the worker has ended    *)
(* and has been joined, whoever else waited for it before.                 *)
THEOREM ClosedIsJoined == Spec => []ClosedMeansJoined
<1>1. IInv => ClosedMeansJoined
  BY RolesAssumption DEF IInv, ValidOK, DestroyedOK, ClosedMeansJoined
<1>2. QED
  BY <1>1, ThreadInvariance, PTL

(* access_mut: at most one thread polls the exit event or joins the worker *)
(* at a time, and none does while the thread is being created.             *)
OneUnderAccessMut == \A t, u \in Threads :
    {tat[t], tat[u]} \subseteq {"creating", "publishing", "polling", "joining"} => t = u

THEOREM JoinsAreSerialised == Spec => []OneUnderAccessMut
<1>1. IInv => OneUnderAccessMut
  BY DEF IInv, LockOK, OneUnderAccessMut
<1>2. QED
  BY <1>1, ThreadInvariance, PTL

(* Only CountOut takes a waiting thread on, once it has left the event.    *)
LEMMA WaitingStays ==
    ASSUME IInv, [Next]_vars, NEW t \in Threads, tat[t] = "waiting", tat'[t] # "waiting"
    PROVE  at[t] = "idle"
<1> USE DEF IInv, ThreadTypeOK, Goto
<1>1. CASE thread_create \/ Creating
  BY <1>1 DEF thread_create, Creating, pthread_create_fails, pthread_create, Publish
<1>2. CASE thread_proc \/ thread_exit
  BY <1>2 DEF thread_proc, thread_exit
<1>3. ASSUME NEW u \in Threads, NEW o \in ThreadCalls[u], ThreadCall(u, o) PROVE at[t] = "idle"
  BY <1>3 DEF ThreadCall
<1>4. ASSUME NEW u \in Threads, thread_set_priority(u) \/ thread_is_valid(u) PROVE at[t] = "idle"
  BY <1>4 DEF thread_set_priority, thread_is_valid
<1>5. ASSUME NEW u \in Threads, CountIn(u) \/ WaitExit(u) PROVE at[t] = "idle"
  BY <1>5 DEF CountIn, WaitExit
<1>6. ASSUME NEW u \in Threads, CountOut(u) PROVE at[t] = "idle"
  BY <1>6 DEF CountOut
<1>7. ASSUME NEW u \in Threads, Join(u) \/ CloseDown(u) PROVE at[t] = "idle"
  BY <1>7 DEF Join, CloseDown
<1>8. tat' # tat
  OBVIOUS
<1>9. QED
  BY <1>1, <1>2, <1>3, <1>4, <1>5, <1>6, <1>7, <1>8 DEF Next, ThreadInside, threadVars, vars

(* thread_wait returns, where the condition variable does not wake it      *)
(* without reason, only after the thread function has returned or left     *)
(* through thread_exit, for any number of waiters and whatever else is     *)
(* called meanwhile.                                                       *)
THEOREM WaitIsForTheEnd ==
    ASSUME ~Spurious
    PROVE  Spec => WaitMeansEnded
<1> DEFINE Step == \A t \in Threads :
               /\ top[t] = "thread_wait" /\ tat[t] \in {"waiting", "joining"} /\ tat'[t] = "idle"
               => life \in {"signalling", "ended"}
<1>1. IInv /\ [Next]_vars => [Step]_vars
  <2> SUFFICES ASSUME IInv, [Next]_vars, NEW t \in Threads, top[t] = "thread_wait",
                      tat[t] \in {"waiting", "joining"}, tat'[t] = "idle"
               PROVE  life \in {"signalling", "ended"}
    OBVIOUS
  <2>1. tat[t] = "waiting" => at[t] = "idle"
    BY WaitingStays
  <2>2. QED
    BY <2>1 DEF IInv, WaitersOK, Over
<1>2. QED
  BY <1>1, ThreadInvariance, PTL DEF Spec, WaitMeansEnded

=============================================================================
