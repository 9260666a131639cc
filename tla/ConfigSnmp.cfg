\* Two callers, everything may fail.
SPECIFICATION FairSpec
CONSTANTS
    p1 = p1
    p2 = p2
    new = new
    other = other
    Gives <- MCGives
    Proc <- TwoProcs
    Fault = {"stop", "write", "close", "start", "die"}
INVARIANTS SnmpTypeOK ZeroMeansServed
PROPERTIES StoppedIsTransient
