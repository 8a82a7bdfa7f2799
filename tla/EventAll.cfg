\* Manual and auto events, two waiters, spurious wake-ups.
CONSTANTS
    t1 = t1
    t2 = t2
    t3 = t3
    Threads = {t1, t2, t3}
    EventCalls <- TwoWaiters
    Manuals = {TRUE, FALSE}
    Spurious = TRUE
SPECIFICATION EventSpec
INVARIANTS NoStrandedWaiter
PROPERTIES PulseReachesSleepers
