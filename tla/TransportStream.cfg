\* The stream may end, and the program stop when its slots run out: no deadlock
\* check.
CONSTANTS
    PacketLen = 4
    Lead = 3
    FalseSyncs <- MCFalseSyncs
    Chunks <- MCChunks
    StreamLen = 100
    Pats <- MCPats
    Pmts <- MCPmts
    MAX_PMT_NUM_PER_PID = 3
    MAX_ES_NUM_PER_PMT = 4
    MaxUnits = 2
    FrameIds = 2
    MaxFaults = 2
    NORMAL_FRAME_LEN = 1
SPECIFICATION Spec
INVARIANTS EveryPacketOnce SlotFindsOwnStream DeliveredIntact
PROPERTIES Resynchronises OneDeliveryPerFrame
CHECK_DEADLOCK FALSE
