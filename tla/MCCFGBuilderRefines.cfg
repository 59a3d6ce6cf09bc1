\* The build of every function of up to four instruction slots at 0x1000,
\* gaps included, over one representative of every classifier arm.
CONSTANTS
    None = None
    Base = 4096
    NSlots = 4
    InstrChoices <- BaseChoices
INIT MCInit
NEXT Next
\* build() returns: the final state has no successor.
CHECK_DEADLOCK FALSE
PROPERTIES
    ImplementsCFGSpec
