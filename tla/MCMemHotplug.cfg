CONSTANTS
    MaxRegions = 2
    BytesPerBlock = 8
    MinBlocks = 3
    BlockBytes = 1
    MaxBlocks = 3
    Word = 32
    Banks <- LowerBank
    Sizes = {1, 2, 3}
SPECIFICATION Spec
CHECK_DEADLOCK FALSE
INVARIANT UsedIsGranted
