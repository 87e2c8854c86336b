SPECIFICATION Spec
CONSTANTS
    MaxPrompts = 2
    MaxSamples = 2
    Pipelined = FALSE
    Scenarios = {{"cancel", "head", "compact", "interject"}, {"error", "compact", "memory"}}
    HardClearAge = 1
INVARIANT TypeOK
INVARIANT TakeReturnsOwnTurn
PROPERTY CaptureSpec
CHECK_DEADLOCK FALSE
