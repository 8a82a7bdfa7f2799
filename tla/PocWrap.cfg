\* Type 2: a non-reference picture where frame_num wraps.
CONSTANTS
    Types = {2}
    MaxFrameNum = 4
    MaxPicOrderCntLsb = 8
    Unsigned = 1024
    offset_for_ref_frame <- TwoSteps
    offset_for_non_ref_pic <- MinusOne
    Mmco5Types = {}
    NonRefAtWrap = TRUE
    MaxAbs = 9
    MaxMsb = 2
SPECIFICATION PocSpec
INVARIANTS PocCorrect
