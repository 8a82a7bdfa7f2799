-------------------------------- MODULE MCThread --------------------------------
(* Small instances of the managed thread.                                    *)
EXTENDS Thread

CONSTANT b

AnyEvent == [t \in Threads |-> EventOps]

\* The owner calls everything, another thread waits and polls.
TwoControllers == [t \in Threads |-> CASE t = owner -> ThreadOps
                                       [] t = b -> {"thread_wait", "thread_timedwait", "thread_is_valid"}
                                       [] OTHER -> {}]
=============================================================================
