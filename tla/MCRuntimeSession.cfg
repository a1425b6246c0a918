SPECIFICATION FairSession
CONSTANTS
    HalfIds = 4
    QueueDepth = 2
    HwDepth = 2
    StartIds = {0}
    MaxCommands = 7
    MaxPieces = 1
INVARIANTS PassMeansQuiescent ReportsWhole
PROPERTIES ImplementsHostJob HostNotified
