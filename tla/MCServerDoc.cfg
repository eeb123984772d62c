\* three connections of two stores
CONSTANTS
    Conn = {c1, c2, c3}
    NoDoc = NoDoc
    NoRef = 0
    Store = {s1, s2}
    ClientId = {p}
    Ref <- MCRef
    ParentsOf <- MCParents
    Batch <- MCBatch
    MaxClock = 2
    MaxMessages = 2
    MaxFaults = 1
SPECIFICATION Spec
SYMMETRY Symmetry
INVARIANTS
    TypeOK
    DocOpenWhileUsed
    NoGap
    ServedInOrder
    NoGhosts
CHECK_DEADLOCK FALSE
