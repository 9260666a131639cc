\* One caller, stops may fail.
SPECIFICATION Spec
CONSTANTS
    p1 = p1
    p2 = p2
    new = new
    other = other
    Gives <- MCGives
    Proc <- OneProc
    Fault = {"stop"}
INVARIANTS OkMeansServed
