\* one browser: a second leader is elected, and demoted
CONSTANTS
    Tab = {"t1", "t2"}
    Store = {"s1", "s2"}
    Scenarios <- LeadersScenario
    Socket = {1, 2}
    NoSocket = NoSocket
    NoRef = NoRef
    EditRef <- MCEditRef
    ParentsOf <- MCParentsOf
SPECIFICATION Spec
INVARIANT
    FollowersOffline
CHECK_DEADLOCK FALSE
