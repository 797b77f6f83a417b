SPECIFICATION Spec
CONSTANTS
    MsgPkts <- Small
    Batch <- Batches
    Slot <- Slots
    After <- OnSent
    PktSize = 2
    HdrSize = 1
    CwndValues <- Window
    SackWidth = 1
    SackThreshold = 4
    MaxRts = 1
    MaxLosses = 1
    MaxTrims = 0
    MaxSpurious = 2
INVARIANT BacklogIsServiced
CHECK_DEADLOCK FALSE
