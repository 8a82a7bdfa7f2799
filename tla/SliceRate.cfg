\* Five macroblocks, skipped or of three sizes, in slices of at most four bytes.
CONSTANT CodingSetups <- BySize
SPECIFICATION RateSpec
INVARIANT SlicesDecodeAsCoded
CHECK_DEADLOCK FALSE
