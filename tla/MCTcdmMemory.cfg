SPECIFICATION FairSpec
CONSTANTS
    None = None
    Masters = {0, 1, 2, 3}
    Hwpe = {1, 3}
    Dma = {2}
    Core = {0}
    Narrow = {0, 1}
    NumBanks = 2
    NumWords = 2
    Lanes = {0, 1}
    Values = {0, 1}
    Traffic <- MCTraffic
INVARIANTS TypeOK
PROPERTIES ImplementsAtomicMemory HwpeServed LowerServed
