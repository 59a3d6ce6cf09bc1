\* Functions of up to 3 slots, build() called a second time on the same
\* builder: the blocks of the graph the first call returned.
CONSTANTS
    None = None
    Base = 4096
    NSlots = 3
    InstrChoices <- BaseChoices
INIT MCInit
NEXT ReuseNext
INVARIANT BlocksAreOrderedDisjointRuns
CHECK_DEADLOCK FALSE
