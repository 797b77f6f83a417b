SPECIFICATION FairSpec
CONSTANTS
    long = long
    short = short
    after = after
    open = open
    Flows = {long, short, after}
    Size <- Sizes
    StartAt <- Starts
    EndTrigger <- Ends
    TriggerOf <- Barrier
    TriggerStart = TriggerStart
    NoTrigger = NoTrigger
    Modes <- AllModes
    MinRto = 8
    BaseRtt = 2
    TargetQDelay = 1
    ProbeFirst = 6
    ProbeRetry = 10
    RtxThreshold = 1
    Window = 4
    AckEvery = 2
    LogPeriod = 7
    LateBy = 3
    MaxFaults = 4
INVARIANTS
    AssertionsHold
    TimersAreLive
PROPERTIES
    NoEarlyTimeout
    SimulationEnds
CHECK_DEADLOCK FALSE
