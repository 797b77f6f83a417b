SPECIFICATION Spec
CONSTANTS
    srcA = srcA
    srcB = srcB
    east = east
    west = west
    Srcs = {srcA}
    Ports = {east, west}
    RatioData = 1
    RatioControl = 2
    NPkts = 2
    MaxRoom = 2
    MaxControl = 0
    MaxLosses = 1
INVARIANT RtxQueueNotEmpty
CHECK_DEADLOCK FALSE
