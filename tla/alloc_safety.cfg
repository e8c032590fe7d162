SPECIFICATION FairAllocatorSpec
CONSTANTS
    MaxBreak = 8
    BrkMayFail = TRUE
    Thread = {t1, t2}
    NoThread = NoThread
    Request = {1, 2}
    Strategy = "BestFit"
INVARIANTS HeapTiled OneOwner FlagTellsOwner Coalesced
PROPERTIES HandedOutUntouched LockReleased AllocatorKeepsContract
