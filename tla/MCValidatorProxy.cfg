\* two addresses, every answer
CONSTANTS
    a1 = a1  a2 = a2
    Addresses = {a1, a2}
    Replies = {"error", "empty", "wrong", "foreign", "overlong", "good"}
SPECIFICATION FairProxySpec
INVARIANTS
    ReturnedAreGood
    PollOutcome
PROPERTY RequestsEnd
CHECK_DEADLOCK FALSE
