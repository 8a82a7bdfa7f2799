\* A thread that only tries takes the token of a sleeper already signalled.
CONSTANTS
    w1 = w1
    w2 = w2
    p1 = p1
    p2 = p2
    Threads = {w1, w2, p1}
    Calls <- Thief
    Capacity = 2
    Spurious = FALSE
SPECIFICATION Spec
INVARIANTS AssertionHolds
