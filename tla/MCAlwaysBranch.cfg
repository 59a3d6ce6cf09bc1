\* Functions using B.AL, the always-taken conditional form.
CONSTANTS
    None = None
    Base = 4096
    NSlots = 3
    InstrChoices <- AlwaysBranchChoices
INIT MCInit
NEXT Next
CHECK_DEADLOCK FALSE
INVARIANT EdgesFollowControlFlow
