SPECIFICATION Spec
CONSTANTS
    f1 = f1
    f2 = f2
    Feeds = {f1, f2}
    Prices = {1, 2}
    Ticks = {10, 11, 20}
    Sizes = {1, 2}
    ScalePrice <- MCScalePrice
    ScaleSize <- MCScaleSize
    AskCeiling = 3
    Interval = 1
    MaxHistory = 2
    MaxChanges = 3
    MaxOpens = 3
SYMMETRY MCSymmetry
CHECK_DEADLOCK FALSE
INVARIANTS
    Converges
    InStep
    HistoryPaced
