CONSTANTS
    Blocks <- DeepBlocks
    Children <- DeepChildren
    Nonces = {0}
    Indirect = {}
    MaxBackoffs = 1
    RootPtrs <- RootA
    UserActions <- WithPrefetch
    CacheMayFill = FALSE
    MaxUserFetches = 2
    MaxFaults = 1
    MaxCancels = 0
    NumWaiters = 0
    MayShutdown = FALSE
    CallsAfterExit = FALSE
SPECIFICATION Spec
INVARIANT FinishedSubtreeCached
\* The worker idles once every queue is drained and the budgets are spent.
CHECK_DEADLOCK FALSE
