SPECIFICATION OverlapSpec
CONSTANTS
    NoItems = NoItems
    NULL = NULL
    Slots = {s1, s2}
    MaxOrderId = 1
    PoolLimit = 2
    Names = {Ann}
    Addresses = {Elm, Oak}
    Baskets = {basket}
    MaxClock = 1
    Operations = {"create", "update", "status", "delete"}
    Faults = TRUE
SYMMETRY SlotSymmetry
INVARIANT OverlapInvariant
PROPERTY OnlyTheOvertakenLeaveTheLifecycle
PROPERTY OnlyTheOvertakenChangeOtherFields
PROPERTY RequestsLookAtomicUnlessOvertaken
