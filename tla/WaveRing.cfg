\* After os_sound_close nothing is left to do: no deadlock check.
CONSTANTS
    MAX_IN_BUFFERS = 3
    USED_OUT_BUFFERS = 2
    MaxFrames = 5
    MaxFailures = 1
SPECIFICATION Spec
INVARIANTS HeardAsCaptured NothingLost
CHECK_DEADLOCK FALSE
