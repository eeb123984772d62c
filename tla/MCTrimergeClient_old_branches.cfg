\* the repository holds two unmerged branches of the old version
CONSTANTS
    Client = {"a", "b"}
    SameEdits = FALSE
    MaxEdits = 1
    MaxCrashes = 0
    Temp = TRUE
    MaxDepth = 8
    NoClient = NoClient
    NoRef = NoRef
    MaxSteps = 60
    Ref <- MCRef
    BaseOf <- MCBaseOf
    MergeOf <- MCMergeOf
    DeltaOf <- MCDeltaOf
    EditRef <- MCEditRef
    MigratedRef <- MCMigratedRef
    PlanMerges <- MCPlanMerges
    Seeds <- BranchesSeed
SPECIFICATION Spec
INVARIANTS
    OneHead
CHECK_DEADLOCK FALSE
