\* two requests, two epochs apart (Horizon = 2 slots), and a getPayload
CONSTANTS
    q1 = q1  q2 = q2  r1 = r1  r2 = r2
    NoOffer = NoOffer
    Relays = {r1, r2}
    Headers = {q1, q2}
    Request <- LateSlots
    Offers <- MCOffers
    MinBid = 2
    SignatureCheck = FALSE
    MaxRetries = 2
    Horizon = 2
    Modulus = 16
SPECIFICATION RelaySpec
INVARIANTS
    BestBid
    BidsKept
    PayloadFromDeliverer
    PayloadNotLost
CHECK_DEADLOCK FALSE
