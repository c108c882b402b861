CONSTANTS
    Tries = 5
    PacketSize = 12
    FrameBound = 6
SPECIFICATION Spec
INVARIANTS TypeOK UartReady ChecksSayTheSame ReadsItself
PROPERTY MenuReached
