\* CFGBuilder and save_dot on a function whose operand text holds a double
\* quote: DotRoundTrip, the label read back from the written document.
CONSTANTS
    None = None
INIT MCStringRefInit
NEXT MainNext
INVARIANT DotRoundTrip
CHECK_DEADLOCK FALSE
