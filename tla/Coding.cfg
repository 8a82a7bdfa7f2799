\* Every part ends with its bounds.
CONSTANTS
    Bytes = {0, 1, 3}
    LastBytes = {1, 3, 128}
    HEADER = 65
    MaxLen = 4
    MaxUnits = 2
    Stuffing = {0, 6}
    MaxZeros = 1
    Default <- MCDefault
    Settings <- MCSettings
    SliceValues <- MCSliceValues
    MaxChanges = 3
    MaxSlices = 2
    Ids = {0, 1}
    SpsContents <- MCSpsContents
    PpsVersions = {1}
    FrameNums = 16
    MaxPictures = 3
    SlicesPerPicture = 2
    MaxSets = 1
    MaxLosses = 1
    LosePartitions = FALSE
    NULL = NULL
    Stores <- MCStores
    MaxStores = 3
    CurNum = 1
    CurPoc = 5
    MaxNum = 8
    Actives = {1, 2, 4}
    MaxMoves = 2
    PicWidthInMbs = 3
    PicHeight = 4
    MaxSliceNr = 1
    LFDisableIdcs = {0, 1, 2}
    CodingSetups <- MCSetups
    Types = {0, 1, 2}
    MaxFrameNum = 4
    MaxPicOrderCntLsb = 8
    Unsigned = 1024
    offset_for_ref_frame <- TwoSteps
    offset_for_non_ref_pic <- MinusOne
    Mmco5Types = {1, 2}
    NonRefAtWrap = FALSE
    MaxAbs = 12
    MaxMsb = 2
    Qp = 28
    CtxIni <- MCCtxIni
    StaleBits <- MCStaleBits
    Lengths = {1, 9}
    MaxRepeats = 3
    MbsPerRow = 2
    MbsInPicture = 4
    DeltaQps <- MCDeltaQps
    MbContents <- MCMbContents
    OtherContents <- MCOtherContents
    SyntaxSettings <- MCSyntaxSettings
SPECIFICATION Spec
INVARIANTS PayloadsSurvive HeadersAgree SlicesFindTheirPicture SetsAreThoseSent ListsComplete MovedToFront NeighboursAdjoin EdgesFiltered SlicesDecodeAsCoded GroupsEvolve PocCorrect DecisionsSurvive MacroblocksReadAsWritten
CHECK_DEADLOCK FALSE
