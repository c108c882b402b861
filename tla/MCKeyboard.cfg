CONSTANTS
    enter = enter
    a = a
    caps_lock = caps_lock
    shift = shift
    keypad_dot = keypad_dot
    del = del
    keypad_enter = keypad_enter
    Plain = {enter, a}
    CapsLock = caps_lock
    Shifts = {shift}
    Functions = {keypad_dot}
    Extended = {del, keypad_enter}
    EditKeys = {del}
    PlainCode <- PlainCodes
    MaxStrokes = 4
    MaxQueue = 3
SPECIFICATION FairSpec
INVARIANTS TypeOK KeysInOrder CaseOfCapsLock NeverTwice
PROPERTIES GetchReturns
