SPECIFICATION ProcessesSpec
CONSTANTS
    Jobs = {1}
    Workers = {w1}
    Keys = {k1}
    NULL = NULL
    Priority <- MCPriority
    MaximumAttempts <- MCMaximumAttempts
    LeaseDuration = 2
    BackoffBase = 1
    BackoffMax = 1
    RecoveryBatch = 1
    Delays = {0}
    MaxLag = 1
    MaxTime = 3
    Plan <- MCPlan
    Schedulers = {x1, x2}
    Sports <- TwoSports
    EnabledProviders <- OneEnabled
    InitialDelay <- MCDelays
    Interval <- Intervals
    Cooldown = 2
    MaxNow = 2
    MaxFailures = 1
    Unset = Unset
CHECK_DEADLOCK FALSE
INVARIANTS ChildrenStopped CyclesMatchCadence
PROPERTIES RefinesQueue ExitsWhenTold SupervisionEnds SchedulerStartsSports
