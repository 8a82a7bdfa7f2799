-------------------------- MODULE AbstractSemaphore --------------------------
(***************************************************************************)
(* What a caller may expect of the semaphore of linux/oswrapper: a counter *)
(* of tokens with a ceiling.  A wait ends with NO_ERROR only by taking a   *)
(* token, a timeout takes nothing, and a post adds one token unless the    *)
(* ceiling is reached.  How threads sleep and are woken is not mentioned.  *)
(***************************************************************************)
EXTENDS Integers

CONSTANTS Threads, Timed

VARIABLES value, ceiling, outcome

vars == <<value, ceiling, outcome>>

Init == value = -1 /\ ceiling = -1 /\ outcome = [t \in Threads |-> "none"]

Create == /\ ceiling <= 0
          /\ ceiling' \in Nat /\ value' \in 0..ceiling'
          /\ UNCHANGED outcome

Destroy == ceiling > 0 /\ ceiling' = -1 /\ value' = -1 /\ UNCHANGED outcome

Refuse(t) == /\ ceiling <= 0 /\ outcome[t] \notin {"waiting", "posting"}
             /\ outcome' = [outcome EXCEPT ![t] = "NOT_INIT"]
             /\ UNCHANGED <<value, ceiling>>

Request(t) == /\ ceiling > 0 /\ outcome[t] \notin {"waiting", "posting"}
              /\ \E o \in {"waiting", "posting"} : outcome' = [outcome EXCEPT ![t] = o]
              /\ UNCHANGED <<value, ceiling>>

Acquire(t) == /\ outcome[t] = "waiting" /\ value > 0
              /\ value' = value - 1
              /\ outcome' = [outcome EXCEPT ![t] = "NO_ERROR"]
              /\ UNCHANGED ceiling

GiveUp(t) == /\ t \in Timed /\ outcome[t] = "waiting"
             /\ outcome' = [outcome EXCEPT ![t] = "TIMEOUT"]
             /\ UNCHANGED <<value, ceiling>>

Post(t) == /\ outcome[t] = "posting"
           /\ value' = IF value < ceiling THEN value + 1 ELSE value
           /\ outcome' = [outcome EXCEPT ![t] = "NO_ERROR"]
           /\ UNCHANGED ceiling

Next == \/ Create \/ Destroy
        \/ \E t \in Threads : \/ Refuse(t) \/ Request(t) \/ Acquire(t)
                              \/ GiveUp(t) \/ Post(t)

Spec == Init /\ [][Next]_vars
=============================================================================
