\* two browsers: the order in which a repository is read
CONSTANTS
    Tab = {"t1", "t2"}
    Store = {"s1", "s2"}
    Scenarios <- OfflineScenario
    Socket = {1, 2}
    NoSocket = NoSocket
    NoRef = NoRef
    EditRef <- MCEditRef
    ParentsOf <- MCParentsOf
SPECIFICATION Spec
INVARIANT
    RepoLoadable
CHECK_DEADLOCK FALSE
