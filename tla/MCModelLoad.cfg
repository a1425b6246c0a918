SPECIFICATION CSpec
CONSTANTS
    Packages <- MCPackages
    Invocations <- MCInvocations
    Commands <- MCCommands
    WordBits = 16
    MaxBindings = 5
    StagingBytes = 256
    TcdmLimit = 49152
    TcdmBase = 4096
CHECK_DEADLOCK FALSE
INVARIANTS
    TypeOK
    OpenAgrees
    OpenedWellFormed
    CanonicalSlots
    TouchesWithinRegions
    SourcesSurvive
    TrustedCallsAgree
