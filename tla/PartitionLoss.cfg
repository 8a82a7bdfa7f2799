\* One parameter set of each kind, sent before the first picture.
CONSTANTS
    Ids = {0}
    SpsContents <- MCSpsContents
    PpsVersions = {1}
    FrameNums = 16
    MaxPictures = 3
    SlicesPerPicture = 2
    MaxSets = 0
    MaxLosses = 1
    LosePartitions = TRUE
    NULL = NULL
SPECIFICATION Spec
INVARIANT PartitionsBelongTogether
CHECK_DEADLOCK FALSE
