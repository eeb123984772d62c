\* every graph of up to 6 commits
CONSTANTS
    MaxCommits = 6
    NoRef <- MCNoRef
    SortRefs <- MCSortRefs
    MergedRef <- MCMergedRef
    Ref <- MCRef
    Graphs <- MCGraphs
    MadeOf <- MCMadeOf
SPECIFICATION Spec
INVARIANTS
    TypeOK
    BaseIsCommonAncestor
    NoBaseMeansUnrelated
    EveryHeadMergedOnce
    NoThrow
PROPERTY Returns
CHECK_DEADLOCK FALSE
