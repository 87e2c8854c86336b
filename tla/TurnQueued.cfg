SPECIFICATION FairSpec
CONSTANTS
    MaxPrompts = 2
    MaxSamples = 2
    Pipelined = TRUE
    Scenarios = {{"cancel", "send_now"}, {"cancel", "repair"}, {"error"}}
    HardClearAge = 1
INVARIANT FrontIsRunning
INVARIANT SendNowKeepsMessage
INVARIANT NoFalseAnswer
INVARIANT RequestValid
PROPERTY EveryPromptCollected
CHECK_DEADLOCK FALSE
