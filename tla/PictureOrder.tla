---------------------------- MODULE PictureOrder ----------------------------
(***************************************************************************)
(* What a viewer may expect of the decoder: pictures come in any order,    *)
(* and each is shown once, in ascending order of its picture order count.  *)
(* A new sequence starts counting again, after all pictures of the old one *)
(* have been shown; only a stream that says so lets them be dropped.       *)
(***************************************************************************)
EXTENDS Integers

CONSTANT Pocs       \* the picture order counts

VARIABLES pending, shown, mayDiscard

vars == <<pending, shown, mayDiscard>>

Init == pending = {} /\ shown = -1 /\ mayDiscard = FALSE

(* A picture is decoded that may still be shown in order.                  *)
Arrive(p) == p > shown /\ p \notin pending /\ pending' = pending \cup {p} /\ UNCHANGED shown

Show(p) == /\ p \in pending /\ \A q \in pending : p <= q
           /\ shown' = p /\ pending' = pending \ {p}

(* A new sequence begins, with its first picture or with none yet.         *)
Restart(S) == /\ pending = {} \/ mayDiscard
              /\ shown' = -1 /\ pending' = S

Next ==
    /\ mayDiscard' \in BOOLEAN
    /\ \/ \E p \in Pocs : Arrive(p) \/ Restart({p})
       \/ \E p \in pending : Show(p)
       \/ Restart({})
       \/ UNCHANGED <<pending, shown>>

Spec == Init /\ [][Next]_vars
=============================================================================
