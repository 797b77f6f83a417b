SPECIFICATION Spec
CONSTANTS
    p1 = p1
    p2 = p2
    none = none
    NoItem = none
    Routes <- MCPaths
    Budgets <- MCBudgets
    NPkts = 5
    DataSize = 2
    LastSize = 1
    CrossSize = 5
    Span = 2
    PipeSize = 1
    MinSize = 1
    MaxSize = 4
    MaxQ = 3
    TrimSize = 1
    RatioHigh = 2
    RatioLow = 1
    DisableTrim = FALSE
INVARIANT BytesCounted
INVARIANT QueuesSound
INVARIANT PipesInOrder
INVARIANT BitmapIsSet
SYMMETRY MCSymmetry
CHECK_DEADLOCK FALSE
