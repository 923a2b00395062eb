SPECIFICATION StagesSpec
CONSTANTS
    NoItems = NoItems
    NULL = NULL
    Slots = {s1, s2}
    MaxOrderId = 1
    PoolLimit = 2
    Names = {Ann}
    Addresses = {Elm}
    Baskets = {basket}
    MaxClock = 1
    Operations = {"create", "update", "status", "delete", "get", "list"}
    Faults = TRUE
SYMMETRY SlotSymmetry
INVARIANT TypeOK
INVARIANT ServiceInvariant
INVARIANT Replies
INVARIANT StagesInvariant
INVARIANT StoredOrdersHaveItems
INVARIANT NothingHeldAtRest
INVARIANT ItemlessRepliesAreOfDeletedOrders
INVARIANT DeletedOrdersAreGone
 
INVARIANT NoStageSkipped
PROPERTY OrdersLiveAndDieWhole
