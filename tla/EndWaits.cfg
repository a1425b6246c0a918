SPECIFICATION SessionSpec
CONSTANTS
    HalfIds = 4
    QueueDepth = 2
    HwDepth = 2
    StartIds = {0}
    MaxCommands = 6
    MaxPieces = 1
INVARIANTS EndWaitsForPending
