SPECIFICATION FairSpec
CONSTANTS
    Subs = {1, 2}
    Ids = {1, 2}
    Naming <- Names
    Cfg <- Budgets
    WithImages = {1}
    RateLimit = 2
    None = None
CHECK_DEADLOCK FALSE
INVARIANT TypeOK
INVARIANT OneTerminal
INVARIANT BudgetsKept
INVARIANT Cancellable
PROPERTY NoResendAfterOutput
PROPERTY NoAttemptAfterCancel
PROPERTY CancelEnds
PROPERTY RetriesEnd
