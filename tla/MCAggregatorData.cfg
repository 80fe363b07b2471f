\* slots around and above the Horizon, one of them below it
CONSTANTS
    Slots = {1, 2, 4, 5}
    Headers <- MCHeaders
    Horizon = 2
    Modulus = 16
SPECIFICATION StoreSpec
INVARIANTS
    StoreTypeOK
    BestThreeKept
PROPERTY SelectionOnlyImproves
