\* two sources come, one goes, while a request reads the lists
CONSTANTS
    s1 = s1  s2 = s2  again = again  other = other  q = q
    Sources = {s1, s2}
    Connects = {s1, s2, again}
    Name <- MCName
    KnownModules = {s1, s2, other}
    Leaving = {s1}
    Excludable = {other}
    Requests = {q}
SPECIFICATION FairListsSpec
INVARIANTS
    ToldOnce
    OutcomeTruth
PROPERTY RequestsReturn
CHECK_DEADLOCK FALSE
