SPECIFICATION FairSpec
CONSTANTS
    Psum = Psum
    Quantized = Quantized
    Garbled = Garbled
    None = None
    Dim = 2
    InputDepth = 2
    OfmDepth = 2
    PsumRows = 3
    RequantStages = 3
    MaxM = 4
    GrantAtStart = FALSE
    Jobs <- MCTwoTiles
PROPERTY JobEnds
