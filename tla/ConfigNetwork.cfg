\* Two callers, two interfaces, everything may fail.
SPECIFICATION Spec
CONSTANTS
    p1 = p1
    p2 = p2
    v1 = v1
    v2 = v2
    eth0 = eth0
    eth1 = eth1
    can0 = can0
    Value <- Values
    Proc <- TwoProcs
    Interface <- TwoInterfaces
    Unknown = can0
    CanFail = TRUE
SYMMETRY Symmetric
INVARIANTS NetworkTypeOK
PROPERTIES OnlyCallsChangeAddress
