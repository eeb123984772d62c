\* two users who may make the same edit at the same place; a tab may die and open again
CONSTANTS
    Client = {"a", "b"}
    SameEdits = TRUE
    MaxEdits = 4
    MaxCrashes = 1
    Temp = TRUE
    MaxDepth = 8
    NoClient = NoClient
    NoRef = NoRef
    MaxSteps = 60
    Ref <- MCRef
    BaseOf <- MCBaseOf
    MergeOf <- MCMergeOf
    DeltaOf <- MCDeltaOf
    EditRef <- MCEditRef
    MigratedRef <- MCMigratedRef
    PlanMerges <- MCPlanMerges
    Seeds <- NoSeeds
SPECIFICATION Spec
INVARIANTS
    TypeOK
    HeadsExact
    NoBranchLost
    DocResolvable
    
    OneHead
    ShowsEverything
    
    RepoParentsFirst
    
PROPERTIES
    NeverForgets
CHECK_DEADLOCK FALSE
