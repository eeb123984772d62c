\* three users, one of whom edits on a merge that another extends
CONSTANTS
    Client = {"a", "b", "c"}
    SameEdits = FALSE
    MaxEdits = 4
    MaxCrashes = 0
    Temp = TRUE
    MaxDepth = 8
    NoClient = NoClient
    NoRef = NoRef
    MaxSteps = 60
    Ref <- MCRef
    BaseOf <- MCBaseOf
    MergeOf <- MCMergeOf
    DeltaOf <- MCDeltaOf
    EditRef <- MCEditRef
    MigratedRef <- MCMigratedRef
    PlanMerges <- MCPlanMerges
    Seeds <- NoSeeds
SPECIFICATION Spec
INVARIANTS
    LatestDocIsHead
CHECK_DEADLOCK FALSE
