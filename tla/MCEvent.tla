-------------------------------- MODULE MCEvent --------------------------------
(* Small instances of the event.                                             *)
EXTENDS Event

CONSTANTS t1, t2, t3

\* Two threads wait, the third does everything else.
TwoWaiters == [t \in Threads |-> IF t = t3 THEN EventOps \ EventWaits ELSE EventWaits]
=============================================================================
