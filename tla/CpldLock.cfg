SPECIFICATION FairBootSpec
CONSTANTS
    p1 = p1
    p2 = p2
    p3 = p3
    Proc <- ThreeProcs
    PthreadCanFail = TRUE
INVARIANTS LockTypeOK MutualExclusion MutexUsable
PROPERTIES OrphanIsForever LockMovesOn
