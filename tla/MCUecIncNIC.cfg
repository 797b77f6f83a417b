SPECIFICATION IncSpec
CONSTANTS
    reduce = reduce
    normal = normal
    port = port
    Srcs = {reduce, normal}
    IncSrcs = {reduce}
    Ports = {port}
    RatioData = 1
    RatioControl = 2
    NPkts = 2
    MaxRoom = 2
    MaxControl = 1
    MaxLosses = 0
INVARIANT FlowsCoexist
CHECK_DEADLOCK FALSE
