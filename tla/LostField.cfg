SPECIFICATION Spec
CONSTANTS
    NoItems = NoItems
    NULL = NULL
    Slots = {s1, s2}
    MaxOrderId = 1
    PoolLimit = 2
    Names = {Ann}
    Addresses = {Elm, Oak}
    Baskets = {basket}
    MaxClock = 1
    Operations = {"create", "update", "status"}
    Faults = FALSE
PROPERTY OnlyProvidedFieldsChange
