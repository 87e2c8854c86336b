SPECIFICATION Spec
CONSTANTS
    a = a
    b = b
    c = c
    p = p
    q = q
    Files = {a, b, c}
    Offers <- Contended
    Kind <- Kinds
    Path <- Paths
    Addressed = {q}
    Size <- Sizes
    MaxBytes = 3
    Capacity = 1
    MaxConcurrent = 1
    MaxAttempts = 2
    Threshold = 1
    InlineTotal = 2
    RecoveryAwaited = FALSE
    MaxLives = 2
INVARIANT TypeOK
INVARIANT CountsExact
INVARIANT PermitsExact
INVARIANT DedupExact
INVARIANT DurableAccepted
INVARIANT UploadedIntact
CHECK_DEADLOCK FALSE
