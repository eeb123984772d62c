\* two tabs of one or of two browsers
CONSTANTS
    Tab = {"t1", "t2"}
    Store = {"s1", "s2"}
    Scenarios <- MCScenarios
    Socket = {1, 2}
    NoSocket = NoSocket
    NoRef = NoRef
    EditRef <- MCEditRef
    ParentsOf <- MCParentsOf
SPECIFICATION Spec
INVARIANTS
    TypeOK
    
    SyncedOnServer
    HeadsComplete
    ClosedIsOffline
    
CHECK_DEADLOCK FALSE
