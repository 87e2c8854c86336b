SPECIFICATION FairSpec
CONSTANTS
    a = a
    b = b
    c = c
    p = p
    q = q
    Files = {a, c}
    Offers <- Both
    Kind <- Kinds
    Path <- Paths
    Addressed = {q}
    Size <- Sizes
    MaxBytes = 3
    Capacity = 1
    MaxConcurrent = 1
    MaxAttempts = 1
    Threshold = 1
    InlineTotal = 2
    RecoveryAwaited = TRUE
    MaxLives = 1
INVARIANT BytesExact
CHECK_DEADLOCK FALSE
PROPERTY DrainFinishes
PROPERTY AcceptedSettles
PROPERTY InlineFinishes
