------------------------------ MODULE Singleton ------------------------------
(***************************************************************************)
(* The lazily created singletons of trunk/singleton: double-checked        *)
(* locking around std::auto_ptr::reset.  sigderive (type 0) names its lock *)
(* guard, so that it lives to the end of the block; the guard of           *)
(* sigderive2 (type 1) has no name and is gone at the end of its own       *)
(* statement.  Stores become visible in program order here.  A thread      *)
(* creates at most one object of a class: objects are named after their    *)
(* creators.                                                               *)
(***************************************************************************)
EXTENDS Integers, FiniteSets

CONSTANTS Threads, NULL

ASSUME NullAssumption == NULL \notin Threads

Types == {0, 1}

VARIABLES
    instance,       \* instance[c]: what the auto_ptr of class c holds
    holder,         \* holder[c]: who has locked the _lock of class c
    pc, type,       \* where each thread is, and the type it asked for
    created, live,  \* objects of class c ever created, and not yet deleted
    result          \* what the last Instance(type) gave each thread

vars == <<instance, holder, pc, type, created, live, result>>

TypeOK ==
    /\ instance \in [Types -> Threads \cup {NULL}]
    /\ holder \in [Types -> Threads \cup {NULL}]
    /\ pc \in [Threads -> {"idle", "check", "lock", "recheck", "new", "delete",
                           "assign", "unlock", "return"}]
    /\ type \in [Threads -> Types]
    /\ created \in [Types -> SUBSET Threads]
    /\ live \in [Types -> SUBSET Threads]
    /\ result \in [Threads -> Threads \cup {NULL}]

Init ==
    /\ instance = [c \in Types |-> NULL] /\ holder = [c \in Types |-> NULL]
    /\ pc = [t \in Threads |-> "idle"] /\ type = [t \in Threads |-> 0]
    /\ created = [c \in Types |-> {}] /\ live = [c \in Types |-> {}]
    /\ result = [t \in Threads |-> NULL]

Goto(t, label) == pc' = [pc EXCEPT ![t] = label]

(* singleton::Instance: NULL for any other type.                           *)
Instance(t, c) ==
    /\ pc[t] = "idle"
    /\ \/ c \in Types /\ Goto(t, "check") /\ type' = [type EXCEPT ![t] = c] /\ UNCHANGED result
       \/ c \notin Types /\ result' = [result EXCEPT ![t] = NULL] /\ UNCHANGED <<pc, type>>
    /\ UNCHANGED <<instance, holder, created, live>>

(* The first test, without the lock.                                       *)
Check(t) ==
    /\ pc[t] = "check"
    /\ Goto(t, IF instance[type[t]] = NULL THEN "lock" ELSE "return")
    /\ UNCHANGED <<instance, holder, type, created, live, result>>

Lock_unnamed_guard(t) ==
    /\ pc[t] = "lock" /\ holder[type[t]] = NULL
    /\ Goto(t, "recheck")
    /\ UNCHANGED <<instance, holder, type, created, live, result>>

(* The unnamed guard of sigderive2 unlocks before the second test.         *)
Lock(t) ==
    /\ pc[t] = "lock" /\ holder[type[t]] = NULL
    /\ Goto(t, "recheck")
    /\ \/ type[t] = 0 /\ holder' = [holder EXCEPT ![0] = t]
       \/ type[t] = 1 /\ UNCHANGED holder
    /\ UNCHANGED <<instance, type, created, live, result>>

Recheck(t) ==
    /\ pc[t] = "recheck"
    /\ Goto(t, IF instance[type[t]] = NULL THEN "new" ELSE "unlock")
    /\ UNCHANGED <<instance, holder, type, created, live, result>>

New(t) ==
    /\ pc[t] = "new"
    /\ created' = [created EXCEPT ![type[t]] = @ \cup {t}]
    /\ live' = [live EXCEPT ![type[t]] = @ \cup {t}]
    /\ Goto(t, "delete")
    /\ UNCHANGED <<instance, holder, type, result>>

(* auto_ptr::reset deletes what it holds, then takes the new object.       *)
Delete(t) ==
    /\ pc[t] = "delete"
    /\ live' = [live EXCEPT ![type[t]] = @ \ {instance[type[t]]}]
    /\ Goto(t, "assign")
    /\ UNCHANGED <<instance, holder, type, created, result>>

Assign(t) ==
    /\ pc[t] = "assign"
    /\ instance' = [instance EXCEPT ![type[t]] = t]
    /\ Goto(t, "unlock")
    /\ UNCHANGED <<holder, type, created, live, result>>

Unlock_leaks(t) ==
    /\ pc[t] = "unlock"
    /\ Goto(t, "return")
    /\ UNCHANGED <<instance, holder, type, created, live, result>>

(* The destructor of the guard.                                            *)
Unlock(t) ==
    /\ pc[t] = "unlock"
    /\ holder' = [holder EXCEPT ![type[t]] = IF @ = t THEN NULL ELSE @]
    /\ Goto(t, "return")
    /\ UNCHANGED <<instance, type, created, live, result>>

Return(t) ==
    /\ pc[t] = "return"
    /\ result' = [result EXCEPT ![t] = instance[type[t]]]
    /\ Goto(t, "idle")
    /\ UNCHANGED <<instance, holder, type, created, live>>

Inside(t) == \/ Check(t) \/ Lock(t) \/ Recheck(t) \/ New(t) \/ Delete(t)
             \/ Assign(t) \/ Unlock(t) \/ Return(t)

Next == \E t \in Threads : Inside(t) \/ \E c \in 0..2 : Instance(t, c)

(* The lock is contended only until the instance exists.                   *)
Fairness == \A t \in Threads : WF_vars(Inside(t))

Spec == Init /\ [][Next]_vars /\ Fairness

-----------------------------------------------------------------------------
(* sigderive is created at most once, however the threads interleave.      *)
AtMostOneInstance == \A t, u \in created[0] : t = u

(* No thread that has asked for sigderive holds a deleted object.          *)
NoDanglingPointer ==
    \A t \in Threads :
        pc[t] = "idle" /\ type[t] = 0 /\ result[t] # NULL => result[t] \in live[0]

(* Every call of Instance returns, of either class.                        *)
InstanceReturns == \A t \in Threads : (pc[t] # "idle") ~> (pc[t] = "idle")
=============================================================================
