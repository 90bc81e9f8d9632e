CONSTANTS
    Blocks <- ShareBlocks
    Children <- ShareChildren
    Nonces = {0,1}
    Indirect = {}
    MaxBackoffs = 1
    RootPtrs <- RootsA
    UserActions <- MixedActions
    CacheMayFill = FALSE
    MaxUserFetches = 2
    MaxFaults = 1
    MaxCancels = 1
    NumWaiters = 0
    MayShutdown = FALSE
    CallsAfterExit = FALSE
SPECIFICATION Spec
INVARIANT NoPanicEver FinishedSubtreeCached CountMatchesSubtree
\* The worker idles once every queue is drained and the budgets are spent.
CHECK_DEADLOCK FALSE
