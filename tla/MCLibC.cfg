SPECIFICATION Spec
CONSTANTS
    Size = 5
    Word = 256
    IntMax = 2147483647
    BufferSize = 3
    Chars <- MCChars
    Bases <- MCBases
    Numbers <- MCNumbers
    Limits <- MCLimits
INVARIANTS Answers Writes
PROPERTY Returns
