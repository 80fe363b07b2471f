\* one module makes a Call of core_ping
CONSTANTS
    api = api  agg = agg  rel = rel  ext = ext
    Modules <- MCModules
    NoModule = NoModule
    Core = Core
    Capacity = 1
    Job <- PingJobs
    Jobs = {"ping", "address"}
SPECIFICATION FairCoreSpec
PROPERTY CallsReturn
CHECK_DEADLOCK FALSE
