\* Sliding window with gaps of up to two frames, or memory management commands
\* with two long term indices; reordering by one place.
CONSTANTS
    size = 3
    num_ref_frames = 2
    MaxFrameNum = 4
    Reorder = 1
    Intra = FALSE
    GapAfterNonRef = FALSE
    SpsAfterDiscard = FALSE
    MaxPoc = 3
    MaxLongTerm = 1
    MaxCommands = 2
    Streams <- Both
SPECIFICATION Spec
INVARIANTS RefsBounded NoError WindowOrder LongTermIndices
PROPERTIES StoreReturns MarksNamedFrame ImplementsOrder
