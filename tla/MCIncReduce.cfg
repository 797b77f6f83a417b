SPECIFICATION ReduceSpec
CONSTANTS
    hostA = hostA
    hostB = hostB
    hostC = hostC
    torA = torA
    torB = torB
    spineA = spineA
    spineB = spineB
    Hosts = {hostA, hostB, hostC}
    Switches = {torA, torB, spineA, spineB}
    Ups <- TwoTier
    Below <- Participants
    NBlocks = 2
    MaxMishaps = 2
INVARIANTS EveryoneCounted SourceSettles NothingHeldBack
CHECK_DEADLOCK FALSE
