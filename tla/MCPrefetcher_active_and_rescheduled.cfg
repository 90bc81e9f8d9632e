CONSTANTS
    Blocks <- FlatBlocks
    Children <- FlatChildren
    Nonces = {0}
    Indirect = {}
    MaxBackoffs = 1
    RootPtrs <- RootA
    UserActions <- SyncActions
    CacheMayFill = TRUE
    MaxUserFetches = 1
    MaxFaults = 0
    MaxCancels = 0
    NumWaiters = 0
    MayShutdown = FALSE
    CallsAfterExit = FALSE
SPECIFICATION Spec
INVARIANT ActiveRescheduledDisjoint
\* The worker idles once every queue is drained and the budgets are spent.
CHECK_DEADLOCK FALSE
