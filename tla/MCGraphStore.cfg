SPECIFICATION Spec
CONSTANTS
    Clients = {k1, k2}
    Users = {u1, u2}
    Ids = {e1, e2, e3}
    Types = {t}
    MaxNodes = 3
    MaxRels = 3
    MaxDepth = 2
    MaxReaders = 1
    None = None
SYMMETRY Symmetry
INVARIANTS DuplicatesByClients ReadsRight StatsCoherent
