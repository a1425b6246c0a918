SPECIFICATION Spec
CONSTANTS
    Streams <- MCStreams
    Counts <- MCCounts
    Capacity = 5
    MaxBody = 2
    MaxPatches = 4
    Words = 4
INVARIANTS
    TypeOK
    WindowIsSection
    ExecutesProgram
    FailureLocated
