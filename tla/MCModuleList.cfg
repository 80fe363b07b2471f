\* forks with names of their own
CONSTANTS
    forkA = forkA  forkB = forkB  k2 = k2
    Urls = {forkA, forkB, k2}
    Rank <- RankValue
    Package <- PackageValue
    CommandName <- CommandNameValue
    Latest = 2
    Methods <- MethodsValue
    Contents <- ContentsValue
    Broken <- OneBroken
    Shipped = k2
SPECIFICATION ModuleListSpec
INVARIANTS
    WholeCopyKept
    SuccessIsComplete
    FailureUndone
    CheckDecides
CHECK_DEADLOCK FALSE
