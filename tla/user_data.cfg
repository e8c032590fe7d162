SPECIFICATION DataSpec
CONSTANTS
    MaxBreak = 6
    BrkMayFail = TRUE
    Thread = {t1, t2}
    NoThread = NoThread
    Request = {1, 2}
    Strategy = "FirstFit"
    BinCount = 1
    BinLimit = 1
    Header = Header
    Link = Link
    Unknown = Unknown
SYMMETRY ThreadSymmetry
INVARIANTS DataIntact LibraryIntact
