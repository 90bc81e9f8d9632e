CONSTANTS
    Blocks <- FlatBlocks
    Children <- FlatChildren
    Nonces = {0}
    Indirect = {}
    MaxBackoffs = 1
    RootPtrs <- RootA
    UserActions <- MixedActions
    CacheMayFill = FALSE
    MaxUserFetches = 1
    MaxFaults = 0
    MaxCancels = 0
    NumWaiters = 0
    MayShutdown = TRUE
    CallsAfterExit = FALSE
SPECIFICATION Spec
INVARIANT ShutdownCancelsAll
\* The worker idles once every queue is drained and the budgets are spent.
CHECK_DEADLOCK FALSE
