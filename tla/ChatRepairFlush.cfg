SPECIFICATION Spec
CONSTANTS
    Budgets <- RepairFails
    HardClearAge = 1
INVARIANT RepairReachesDisk
CHECK_DEADLOCK FALSE
