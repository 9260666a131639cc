\* Every transfer, reservation and write may fail.
SPECIFICATION ProgramsSpec
CONSTANTS
    p1 = p1
    p2 = p2
    Proc <- TwoProcs
    Board <- Boards
    Table <- AllTables
    Request <- Requests
    Moving <- NoInput
    Together <- Pairs
INVARIANT SuccessIsTrue
PROPERTY EndsAsItBegan
\* The programs end.
CHECK_DEADLOCK FALSE
