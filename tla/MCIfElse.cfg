\* main on the four example functions: IfElseScenario.
CONSTANTS
    None = None
INIT MainInit
NEXT MainNext
INVARIANT IfElseScenario
CHECK_DEADLOCK FALSE
