SPECIFICATION CallingSpec
CONSTANTS
    Names = {"add", "counter", "other"}
    ToolType <- MCToolType
    MaxIndex = 2
    MaxChunks = 3
    MaxDeltas = 3
    maxTurns = 2
    sz = 1
    MaxN = 3
    None = None
    Error = Error
CHECK_DEADLOCK FALSE
INVARIANTS ResultsComplete CallsAssembled OneOutcome
PROPERTIES EverythingEnds
