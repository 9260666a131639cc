\* Both boards; all requests and transfers may fail, the process may die.
SPECIFICATION Spec
CONSTANTS
    p1 = p1
    Proc <- OneProc
    Board <- GpioBoards
    Table <- GpioTable
    Request <- Requests
    Moving <- MovingInputs
INVARIANTS GpioTypeOK AllOrNothing TransfersAreRight
PROPERTY OutputsKept
