SPECIFICATION Spec
CONSTANTS
    Budgets <- CompactedEarly
    HardClearAge = 1
INVARIANT PruneRespectsAge
CHECK_DEADLOCK FALSE
