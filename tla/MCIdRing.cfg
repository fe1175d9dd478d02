SPECIFICATION Spec
CONSTANTS
    Ids <- MCIds
    None = ""
    CapHint = 1
    MinCap = 3
INVARIANTS RingSound
PROPERTIES Implements
