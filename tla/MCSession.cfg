SPECIFICATION Spec
CONSTANTS
    Callers = {c1, c2}
    Messages = {"s", "l"}
    Tokens <- MCTokens
    MaxTokens = 2
    UserID <- MCUserID
    Blank = "blank"
    MaxIds = 2
    MaxLog = 3
    MaxSaves = 3
    None = None
    Partial = Partial
    Mixed = Mixed
SYMMETRY Symmetry
INVARIANTS HistoryIsWindow StoredCoherently UnloadableOnlyBy
