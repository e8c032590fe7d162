SPECIFICATION DebugSpec
CONSTANTS
    MaxBreak = 6
    BrkMayFail = TRUE
    Thread = {t1, t2}
    NoThread = NoThread
    Request = {1, 2}
    Strategy = "FirstFit"
    BinCount = 1
    BinLimit = 1
    MaxTracked = 2
    CounterRange = 8
SYMMETRY ThreadSymmetry
INVARIANTS TableExact CountersExact LeaksReported
