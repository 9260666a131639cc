SPECIFICATION Spec
CONSTANTS
    p1 = p1
    p2 = p2
    p3 = p3
    date = date
    bad = bad
    Proc <- ThreeProcs
    Timestamp <- AnyNumber
    Accepted <- Dates
    CanFail = TRUE
SYMMETRY Symmetric
INVARIANTS TimeTypeOK ZeroMeansSet NtpKept
PROPERTY OffStaysOff
