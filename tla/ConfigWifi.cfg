\* Two processes read and write, everything may fail.
SPECIFICATION Spec
CONSTANTS
    p1 = p1
    p2 = p2
    f1 = f1
    f2 = f2
    f3 = f3
    Image = Image
    None = None
    Factory = Image
    Proc <- TwoProcs
    Inode <- ThreeFiles
    Original <- TwoLines
    CanFail = TRUE
SYMMETRY Symmetric
INVARIANTS WifiTypeOK OneWriterPerFile NoMixedRead WholeWhenQuiet
PROPERTIES LostForGood OkMeansWritten
