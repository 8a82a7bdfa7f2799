\* Two threads wait for and poll one worker, which may leave through
\* thread_exit, after which the waiters stay for ever.
CONSTANTS
    worker = worker
    owner = owner
    b = b
    NoOne = NoOne
    Threads = {worker, owner, b}
    EventCalls <- AnyEvent
    ThreadCalls <- TwoControllers
    Manuals = {TRUE}
    Spurious = FALSE
    MayExit = TRUE
SPECIFICATION Spec
INVARIANTS InvalidMeansEnded ClosedMeansJoined
PROPERTIES WaitMeansEnded CallsReturn
CHECK_DEADLOCK FALSE
