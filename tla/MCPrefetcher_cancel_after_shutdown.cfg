CONSTANTS
    Blocks <- FlatBlocks
    Children <- FlatChildren
    Nonces = {0}
    Indirect = {}
    MaxBackoffs = 1
    RootPtrs <- RootA
    UserActions <- MixedActions
    CacheMayFill = FALSE
    MaxUserFetches = 0
    MaxFaults = 0
    MaxCancels = 1
    NumWaiters = 0
    MayShutdown = TRUE
    CallsAfterExit = TRUE
SPECIFICATION Spec
INVARIANT NoPanicEver
\* The worker idles once every queue is drained and the budgets are spent.
CHECK_DEADLOCK FALSE
