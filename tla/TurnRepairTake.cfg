SPECIFICATION Spec
CONSTANTS
    MaxPrompts = 1
    MaxSamples = 2
    Pipelined = FALSE
    Scenarios = {{"cancel", "repair"}}
    HardClearAge = 1
INVARIANT TakeReturnsOwnTurn
CHECK_DEADLOCK FALSE
