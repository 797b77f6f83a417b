SPECIFICATION SelectSpec
CONSTANTS
    NPaths = 4
    Algorithms <- AllAlgorithms
    MaxPenalty = 2
    NackPenalty = 2
    RingSize = 3
    Explore = 2
    MaxFlying = 2
    MaxListed = 2
INVARIANTS SpraysEvenly SkipCountExact RepsIsFifo
PROPERTY AvoidsPenalised
