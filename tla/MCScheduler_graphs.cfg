SPECIFICATION FairSpec
CONSTANTS
    Start = "start"
    End = "end"
    Nodes <- MCNodes
    Graphs <- AllGraphs
    DoneCap = 100
    MaxRuns = 2
CHECK_DEADLOCK FALSE
INVARIANTS TypeOK Precedence SkipSound SuccessSound ErrorSound NoLostNode
PROPERTIES TerminalStable RunReturns
