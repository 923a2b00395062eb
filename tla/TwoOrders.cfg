SPECIFICATION Spec
CONSTANTS
    NoItems = NoItems
    NULL = NULL
    Slots = {s1, s2, s3}
    MaxOrderId = 2
    PoolLimit = 2
    Names = {Ann}
    Addresses = {Elm}
    Baskets = {basket, hamper}
    MaxClock = 2
    Operations = {"create", "delete", "list"}
    Faults = TRUE
SYMMETRY SlotSymmetry
INVARIANT StoredOrdersHaveItems
INVARIANT ItemlessRepliesAreOfDeletedOrders
PROPERTY OrdersLiveAndDieWhole
