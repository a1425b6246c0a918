SPECIFICATION FairSpec
CONSTANTS
    HalfIds = 3
    QueueDepth = 2
    HwDepth = 2
    StartIds = {0, 3}
    MaxCommands = 5
    MaxPieces = 2
INVARIANTS TypeOK PendingJoinable
PROPERTIES WaitJoins BarrierQuiesces CallsReturn
