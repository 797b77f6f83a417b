SPECIFICATION FairSpec
CONSTANTS
    flowA = flowA
    flowB = flowB
    Flows = {flowA, flowB}
    NPkts <- Lengths
    PktSize = 2
    HdrSize = 1
    Quantum = 2
    CreditPerPull = 2
    MaxWnd = 4
    MaxSources = 2
    MaxFaults = 1
INVARIANTS ListsMatchFlags DemandIsServed CreditCovered
PROPERTIES NoCreditBeyondDemand EveryFlowFinishes
CHECK_DEADLOCK FALSE
