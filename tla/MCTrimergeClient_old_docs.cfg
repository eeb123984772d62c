\* the repository holds unmerged branches of the old version, or commits in the wrong order
CONSTANTS
    Client = {"a", "b"}
    SameEdits = FALSE
    MaxEdits = 3
    MaxCrashes = 0
    Temp = TRUE
    MaxDepth = 8
    NoClient = NoClient
    NoRef = NoRef
    MaxSteps = 60
    Ref <- MCRef
    BaseOf <- MCBaseOf
    MergeOf <- MCMergeOf
    DeltaOf <- MCDeltaOf
    EditRef <- MCEditRef
    MigratedRef <- MCMigratedRef
    PlanMerges <- MCPlanMerges
    Seeds <- OldSeeds
SPECIFICATION Spec
INVARIANTS
    HeadsExact
    
    NoBranchLost
PROPERTIES
    NeverForgets
CHECK_DEADLOCK FALSE
