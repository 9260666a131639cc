SPECIFICATION Spec
CONSTANTS
    p1 = p1
    p2 = p2
    Proc <- TwoProcs
    MaxRestarts = 3
    CanFail = TRUE
SYMMETRY Symmetric
INVARIANTS NbRestartTypeOK NoneTwice CountIsExact
PROPERTY EmptyUntilBoot
