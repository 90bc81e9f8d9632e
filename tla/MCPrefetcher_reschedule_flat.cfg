CONSTANTS
    Blocks <- FlatBlocks
    Children <- FlatChildren
    Nonces = {0}
    Indirect = {}
    MaxBackoffs = 1
    RootPtrs <- RootA
    UserActions <- SyncActions
    CacheMayFill = TRUE
    MaxUserFetches = 2
    MaxFaults = 0
    MaxCancels = 0
    NumWaiters = 1
    MayShutdown = FALSE
    CallsAfterExit = FALSE
SPECIFICATION FairSpec
INVARIANT TypeOK NoPanicEver CountMatchesSubtree
PROPERTY PrefetchesDrain WaitersEventuallyReleased
\* The worker idles once every queue is drained and the budgets are spent.
CHECK_DEADLOCK FALSE
