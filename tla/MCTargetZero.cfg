\* A function loaded at address 0 (an object file) that branches back to its entry.
CONSTANTS
    None = None
    Base = 0
    NSlots = 3
    InstrChoices <- BaseChoices
INIT MCInit
NEXT Next
CHECK_DEADLOCK FALSE
INVARIANT EdgesFollowControlFlow
