SPECIFICATION Spec
CONSTANTS
    MaxLines = 5
    Calls <- DistinctCalls
INVARIANT RepairedIsValid
INVARIANT RepairIsConservative
INVARIANT DanglingIsPredicted
CHECK_DEADLOCK FALSE
