CONSTANTS
    MaxRegions = 3
    BytesPerBlock = 3
    MinBlocks = 3
    BlockBytes = 1
    MaxBlocks = 4
    Word = 32
    Banks <- TwoBanks
    Sizes = {1, 2, 3}
SPECIFICATION FairSpec
INVARIANTS TypeOK UsedIsGranted HeadCovers Inv Linked BytesConserved
PROPERTIES CallReturns KeepsPromise
CHECK_DEADLOCK FALSE
