SPECIFICATION Spec
CONSTANTS
    Cells = 64
    Lanes = 2
    LinebufKMax = 3
    LinebufMaxInputW = 4
    MaxPrepareCmds = 4
    StripeRows = 2
    PsumRows = 2
    TileM = 3
    AccumTileM = 2
    SumsInTime = TRUE
    MaxCommands = 3
    Commands <- MCCommands
    Closing <- MCClosing
INVARIANTS
    CommandsCompute
    PollsEnd
PROPERTIES
    StartFindsIdle
CHECK_DEADLOCK FALSE
