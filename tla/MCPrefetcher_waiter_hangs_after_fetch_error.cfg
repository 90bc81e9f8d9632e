CONSTANTS
    Blocks <- DeepBlocks
    Children <- DeepChildren
    Nonces = {0}
    Indirect = {}
    MaxBackoffs = 1
    RootPtrs <- RootA
    UserActions <- MixedActions
    CacheMayFill = FALSE
    MaxUserFetches = 1
    MaxFaults = 1
    MaxCancels = 0
    NumWaiters = 1
    MayShutdown = FALSE
    CallsAfterExit = FALSE
SPECIFICATION FairSpec
PROPERTY WaitersEventuallyReleased
\* The worker idles once every queue is drained and the budgets are spent.
CHECK_DEADLOCK FALSE
