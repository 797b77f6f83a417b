SPECIFICATION FairSpec
CONSTANTS
    MsgPkts <- Sizes
    Batch <- Batches
    Slot <- Slots
    After <- OnReceived
    PktSize = 2
    HdrSize = 1
    CwndValues <- Window
    SackWidth = 1
    SackThreshold = 4
    MaxRts = 1
    MaxLosses = 1
    MaxTrims = 1
    MaxSpurious = 0
INVARIANTS
    BooksAgree
    CausalOrder
    AssertionsHold
PROPERTIES
    AllMessagesFinish
CHECK_DEADLOCK FALSE
