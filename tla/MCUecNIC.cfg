SPECIFICATION FairSpec
CONSTANTS
    srcA = srcA
    srcB = srcB
    east = east
    west = west
    Srcs = {srcA, srcB}
    Ports = {east, west}
    RatioData = 1
    RatioControl = 2
    NPkts = 2
    MaxRoom = 2
    MaxControl = 2
    MaxLosses = 2
INVARIANTS NobodyWaitsForAFreePort WaitersAreRegistered NicInStep
PROPERTIES NoStarvation
CHECK_DEADLOCK FALSE
