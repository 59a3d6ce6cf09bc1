\* Functions of up to 3 slots: no two edges join the same pair of blocks.
CONSTANTS
    None = None
    Base = 4096
    NSlots = 3
    InstrChoices <- BaseChoices
INIT MCInit
NEXT Next
INVARIANT NoParallelEdges
CHECK_DEADLOCK FALSE
