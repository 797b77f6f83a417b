SPECIFICATION FairSpec
CONSTANTS
    NPkts = 3
    PktSize = 2
    HdrSize = 1
    CwndValues <- Window
    SackWidth = 1
    SackThreshold = 4
    MaxRts = 1
    MaxLosses = 1
    MaxTrims = 1
    MaxSpurious = 1
INVARIANTS
    TypeOK
    NothingForgotten
    TimerTracksOldest
    InFlightExact
    NeverStuck
    CountedOnce
PROPERTIES
    EventuallyDone
    IsReliableFlow
