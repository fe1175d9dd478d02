SPECIFICATION FairSpec
CONSTANTS
    Start = "start"
    End = "end"
    Nodes <- MCNodes
    Graphs <- BranchOnly
    DoneCap = 100
    MaxRuns = 2
CHECK_DEADLOCK FALSE
PROPERTIES EveryRunReturns
