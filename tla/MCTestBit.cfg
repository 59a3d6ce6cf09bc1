\* Functions using TBZ with its bit number printed in hex.
CONSTANTS
    None = None
    Base = 4096
    NSlots = 3
    InstrChoices <- TestBitChoices
INIT MCInit
NEXT Next
CHECK_DEADLOCK FALSE
INVARIANT SingleEntrySingleExit
