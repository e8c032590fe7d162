SPECIFICATION AgainSpec
CONSTANTS
    MaxBreak = 8
    BrkMayFail = FALSE
    Thread = {t1}
    NoThread = NoThread
    Request = {1, 2}
    Strategy = "FirstFit"
    BinCount = 1
    BinLimit = 1
INVARIANT SecondFreeDetected
