CONSTANTS
    MaxRegions = 2
    BytesPerBlock = 8
    MinBlocks = 5
    BlockBytes = 1
    MaxBlocks = 5
    Word = 32
    Banks <- OneBank
    Sizes = {1, 2, 3}
SPECIFICATION Spec
CHECK_DEADLOCK FALSE
INVARIANT TableIsNotHandedOut
