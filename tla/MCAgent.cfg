SPECIFICATION Spec
CONSTANTS
    Callers = {c1, c2}
    Users = {c1, c2}
    Tools = {"t1", "t2", "t3", "t4"}
    Name <- MCName
    Trim <- MCTrim
    Type <- MCType
    NoTool = NoTool
    maxTools = 1
    maxIterations = 2
    MaxCalls = 2
CHECK_DEADLOCK FALSE
INVARIANTS LimitExceededByCallers SessionFresh Answered OfferedOrRemoved
PROPERTIES RunReturns
