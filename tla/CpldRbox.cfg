SPECIFICATION Spec
CONSTANTS
    p1 = p1
    p2 = p2
    Proc <- TwoProcs
    PthreadCanFail = FALSE
    Request <- MCRequest
    PowerOn <- MCPowerOn
SYMMETRY ProcSymmetry
INVARIANTS DeviceTypeOK TransfersAreSound ReleasedOnReturn
PROPERTIES OnlyRequestedBits BootSpec CallsAreAtomic
