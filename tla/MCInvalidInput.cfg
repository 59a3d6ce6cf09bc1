\* Lists with a repeated or descending address.
CONSTANTS
    None = None
    Base = 4096
    NSlots = 3
    InstrChoices <- BaseChoices
INIT MCInitInvalid
NEXT Next
INVARIANT BuildRejectsInvalidInput
CHECK_DEADLOCK FALSE
