SPECIFICATION FairSpec
CONSTANTS
    None = None
    HalfIds = 6
    Base = 3
    Begin = 1
    End = 10
    SlotBytes = 3
    Page = 4
    MaxRead = 4
    Depth = 3
    MaxForeign = 2
INVARIANTS TypeOK DeliveredInOrder NoFalseTimeout FinishJoins JobsWithinPage
PROPERTIES ImplementsStream CallsReturn
