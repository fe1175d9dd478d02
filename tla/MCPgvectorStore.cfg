SPECIFICATION Spec
CONSTANTS
    Clients = {k1, k2}
    Users = {u1}
    Contents = {a, b, c}
    memoryLimit = 1
INVARIANTS LimitExceededByClients
PROPERTIES Implements
