CONSTANTS
    Blocks <- DeepBlocks
    Children <- DeepChildren
    Nonces = {0}
    Indirect = {}
    MaxBackoffs = 1
    RootPtrs <- RootA
    UserActions <- MixedActions
    CacheMayFill = FALSE
    MaxUserFetches = 3
    MaxFaults = 0
    MaxCancels = 0
    NumWaiters = 1
    MayShutdown = TRUE
    CallsAfterExit = FALSE
SPECIFICATION FairSpec
INVARIANT NoPanicEver FinishedSubtreeCached CountMatchesSubtree
PROPERTY ShutdownTerminates TriggeredEventuallyFinished
\* The worker idles once every queue is drained and the budgets are spent.
CHECK_DEADLOCK FALSE
