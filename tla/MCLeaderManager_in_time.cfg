\* three tabs, one of which stops; every timer fires in time
CONSTANTS
    Client = {1, 2, 3}
    NoLeader = NoLeader
    MaxStops = 1
    MaxLate = 0
SPECIFICATION Spec
INVARIANTS
    TypeOK
    NeverStuck
    
PROPERTY EventuallyAgreed
