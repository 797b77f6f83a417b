SPECIFICATION Spec
CONSTANTS
    u1 = u1
    u2 = u2
    o1 = o1
    o2 = o2
    Ups <- MCUps
    Outs <- MCOuts
    Scenes <- MCScenes
    Sizes = {1, 2}
    Latency = 1
    SwitchDelay = 0
    High = 2
    Low = 1
    MaxBacklog = 1
INVARIANT PauseAgreement
INVARIANT InputExact
INVARIANT HeadroomSuffices
PROPERTY EveryPauseEnds
