SPECIFICATION DebugSpec
CONSTANTS
    MaxBreak = 4
    BrkMayFail = FALSE
    Thread = {t1, t2}
    NoThread = NoThread
    Request = {1}
    Strategy = "FirstFit"
    BinCount = 1
    BinLimit = 1
    MaxTracked = 2
    CounterRange = 8
SYMMETRY ThreadSymmetry
INVARIANT ReportsOnlyLeaks
