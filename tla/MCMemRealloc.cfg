CONSTANTS
    MaxRegions = 1
    BytesPerBlock = 8
    MinBlocks = 4
    BlockBytes = 1
    MaxBlocks = 4
    Word = 32
    Banks <- OneBank
    Sizes = {1, 2, 3}
    Resizes <- AllResizes
SPECIFICATION ReallocFairSpec
INVARIANTS ReallocTypeOK ReservedIsUsed ReservedApart HeadCoveredWhileSound ReallocInv
PROPERTIES ReallocReturns
CHECK_DEADLOCK FALSE
