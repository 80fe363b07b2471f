\* two requests for slots two epochs (Horizon = 2 slots) apart, while sources come
\* and go
CONSTANTS
    s1 = s1  s2 = s2  again = again  q1 = q1  q2 = q2
    Sources = {s1, s2}
    Connects = {s1, s2, again}
    Name <- MCName
    KnownModules = {s1, s2}
    Leaving = {s1}
    Excludable = {s2}
    Changing = TRUE
    HeaderRequests = {q1, q2}
    Request <- MCRequest
    Answers <- TwoBids
    Unreadable = Unreadable
    SignedBlocks = {2}
    Headers <- MCHeaders
    Horizon = 2
    Modulus = 16
SPECIFICATION AggregatorSpec
INVARIANTS
    SourcesDistinct
    ResultIsBest
    FailsOnlyWithout
    ReturnedIsKept
    PayloadFromBidder
CHECK_DEADLOCK FALSE
