SPECIFICATION Spec
CONSTANTS
    MaxBreak = 4
    BrkMayFail = FALSE
    Thread = {t1}
    NoThread = NoThread
    Request = {1}
INVARIANT AcceptsOwnBlocks
