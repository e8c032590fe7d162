SPECIFICATION FairSpec
CONSTANTS
    MaxBreak = 6
    BrkMayFail = FALSE
    Thread = {t1, t2}
    NoThread = NoThread
    Request = {1, 2, 3}
    Strategy = "FirstFit"
    BinCount = 2
    BinLimit = 2
INVARIANTS TypeOK OneHolder BinExact FlagTellsHolder TopReleased ApiReclaims
PROPERTIES LiveUntouched ApiKeepsContract ReleaseOnce FreeReturns
