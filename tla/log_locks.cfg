SPECIFICATION FairSpec
CHECK_DEADLOCK FALSE
CONSTANTS
    Thread = {t1, t2, t3}
    NoThread = NoThread
INVARIANTS TypeOK HeldInside NoWaitCycle StuckAfterFailure
PROPERTIES CallsReturn
