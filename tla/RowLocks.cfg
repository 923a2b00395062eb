SPECIFICATION FairSpec
CONSTANTS
    NoItems = NoItems
    NULL = NULL
    Slots = {s1, s2}
    MaxOrderId = 1
    PoolLimit = 2
    Names = {Ann}
    Addresses = {Elm}
    Baskets = {basket}
    MaxClock = 1
    Operations = {"create", "update", "status", "delete"}
    Faults = FALSE
PROPERTY RequestsAnswered
