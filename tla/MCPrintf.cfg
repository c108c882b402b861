CONSTANTS
    Calls <- MCCalls
    Space = 15
    Values <- MCValues
    Letters = {"v", "w"}
    Strings <- MCStrings
    NtoaSize = 15
    VsprintfLimit = 4
    SizeMax = 255
    CharBits = 3
    ShortBits = 4
    IntBits = 5
    LongBits = 5
    LongLongBits = 6
    PointerWidth = 2
SPECIFICATION Spec
INVARIANTS TypeOK CutToTheBuffer StopsAtTheEnd Denotes FieldWidth

