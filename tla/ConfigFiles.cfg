\* Two callers, two calls that write, everything may fail.
SPECIFICATION Spec
CONSTANTS
    p1 = p1
    p2 = p2
    new = new
    other = other
    Text <- Texts
    Proc <- TwoProcs
    Request <- Requests
    CanFail = TRUE
    MaxCalls = 2
    MaxLost = 1
SYMMETRY Symmetric
INVARIANTS FilesTypeOK NoDanglingCa PairsMatch OkMeansWritten
