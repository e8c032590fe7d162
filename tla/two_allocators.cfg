SPECIFICATION Spec
CONSTANTS
    MaxBreak = 7
    BrkMayFail = TRUE
    Thread = {t1}
    NoThread = NoThread
    Request = {1, 2}
INVARIANTS JointlyTiled KeepsUnderBreak
PROPERTIES OthersUntouched
