SPECIFICATION Spec
CONSTANTS
    Jobs = {1, 2}
    Workers = {w1, w2}
    Keys = {}
    NULL = NULL
    Priority <- MCPriority
    MaximumAttempts <- MCMaximumAttempts
    LeaseDuration = 1
    BackoffBase = 1
    BackoffMax = 1
    RecoveryBatch = 1
    Delays = {0}
    MaxLag = 1
    MaxTime = 2
SYMMETRY WorkerSymmetry
CHECK_DEADLOCK FALSE
INVARIANTS LeaseIntegrity PendingIsClaimable EventChain FinishedByItsClaim
PROPERTIES LeaseHonoured RefinesLifecycle
