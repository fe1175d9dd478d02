SPECIFICATION Spec
CONSTANTS
    a = a
    b = b
    c = c
    d = d
    Ids <- MCIds
    Capacity = 2
    Ttl = 1
    MaxTime = 2
    Expiries <- MCExpiries
    MaxBatch = 2
    MaxFaults = 2
SYMMETRY Symmetry
INVARIANTS Agreement CapacityKept Window FreshResults
