\* Functions with gaps: an instruction after a gap that no branch targets.
CONSTANTS
    None = None
    Base = 4096
    NSlots = 3
    InstrChoices <- BaseChoices
INIT MCInit
NEXT Next
CHECK_DEADLOCK FALSE
INVARIANT InstructionsPartitioned
