------------------------------ MODULE MCSemaphore ------------------------------
(* Small instances of the semaphore.                                         *)
EXTENDS Semaphore

CONSTANTS w1, w2, p1, p2

\* Two threads wait, with and without a timeout, one of them also tries.
TwoTakers == [t \in Threads |-> CASE t = w1 -> Waits \cup {"semaphore_try_wait"}
                                  [] t = w2 -> Waits
                                  [] OTHER  -> {"semaphore_post"}]

\* A thread that waits, one that only tries, one that posts.
Thief == [t \in Threads |-> CASE t = w1 -> {"semaphore_wait"}
                              [] t = w2 -> {"semaphore_try_wait"}
                              [] OTHER  -> {"semaphore_post"}]
=============================================================================
