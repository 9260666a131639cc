\* Nothing keeps two processes from setting the mutex up at the same time.
SPECIFICATION LockSpec
CONSTANTS
    p1 = p1
    p2 = p2
    p3 = p3
    Proc <- TwoProcs
    PthreadCanFail = FALSE
INVARIANT MutualExclusion
