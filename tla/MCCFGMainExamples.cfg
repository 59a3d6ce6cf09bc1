\* main on the four example functions of src/CFGGenerator.py.
CONSTANTS
    None = None
SPECIFICATION MainSpec
INVARIANT DotRoundTrip
CHECK_DEADLOCK FALSE
