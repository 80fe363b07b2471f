\* a header request and a call in the other direction, under fairness
CONSTANTS
    api = api  agg = agg  rel = rel  ext = ext
    Modules <- MCModules
    NoModule = NoModule
    Core = Core
    Capacity = 1
    Job <- ServiceJobs
    Jobs = {"header", "notice", "missing", "bid", "address"}
SPECIFICATION FairCoreSpec
INVARIANTS
    RightModules
    OnePlacePerCall
PROPERTIES
    RefinesRpc
    CallsReturn
CHECK_DEADLOCK FALSE
