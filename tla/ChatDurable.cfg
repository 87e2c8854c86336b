SPECIFICATION Spec
CONSTANTS
    Budgets <- Durable
    HardClearAge = 1
INVARIANT ReloadIsFaithful
INVARIANT DurableSurvives
INVARIANT SwitchOnce
INVARIANT ClearedIsBehind
PROPERTY StripRecoverable
CHECK_DEADLOCK FALSE
