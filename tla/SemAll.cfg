\* Two takers, two posters, maxCount 1 and 2, spurious wake-ups.
\* A failed assertion ends the process: that is not a deadlock.
CONSTANTS
    w1 = w1
    w2 = w2
    p1 = p1
    p2 = p2
    Threads = {w1, w2, p1, p2}
    Calls <- TwoTakers
    Capacity = 2
    Spurious = TRUE
SPECIFICATION Spec
INVARIANTS CountInRange NoStrandedWaiter
PROPERTIES TokenIsTaken ImplementsSafely
CHECK_DEADLOCK FALSE
