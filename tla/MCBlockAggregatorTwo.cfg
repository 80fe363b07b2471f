\* a source that answers with two headers
CONSTANTS
    s1 = s1  s2 = s2  again = again  q1 = q1  q2 = q2
    Sources = {s1}
    Connects = {s1}
    Name <- MCName
    KnownModules = {s1}
    Leaving = {}
    Excludable = {}
    Changing = FALSE
    HeaderRequests = {q1}
    Request <- MCRequest
    Answers <- UpToTwo
    Unreadable = Unreadable
    SignedBlocks = {}
    Headers <- MCHeaders
    Horizon = 2
    Modulus = 16
SPECIFICATION FairAggregatorSpec
PROPERTY GetHeaderReturns
CHECK_DEADLOCK FALSE
