\* Two threads, both classes.
CONSTANTS
    Threads = {t1, t2}
    NULL = NULL
SPECIFICATION Spec
INVARIANTS AtMostOneInstance NoDanglingPointer
PROPERTIES InstanceReturns
