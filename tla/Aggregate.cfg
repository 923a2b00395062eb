SPECIFICATION Spec
CONSTANTS
    None = None
    Names <- SomeNames
    Addresses <- SomeAddresses
    BodyItems <- SomeBodyItems
    MaxBodyItems = 2
    NewItems <- SomeNewItems
    MaxItems = 2
    MaxClock = 2
    MaxInteger = 3
INVARIANT TypeOK
INVARIANT AggregateInvariant
INVARIANT AcceptedBodiesAreStored
INVARIANT StoredOrdersAreSound
INVARIANT SavesShowWhatIsStored
INVARIANT EventsTellTheHistory
INVARIANT UpdatedAtIsOfTheLastChange
