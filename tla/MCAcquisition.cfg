SPECIFICATION AcquisitionSpec
CONSTANTS
    Executions = {e1, e2}
    Cycles = {c1}
    Bundles <- FullAndPartial
    EnabledProviders <- BothEnabled
    SelectionMode = "both"
    MaximumAttempts = 2
    BlockedCooldown = 1
    AcquisitionInterval = 1
    MaxNow = 1
    NULL = NULL
    Keys = {k1, k2}
    Contents = {d1}
    Quotas = {1, 2}
    Reserve = 1
    JobIds = {1, 2, 3}
    MaxAttempts = 3
    MaxGeneration = 3
    MaxFaults = 1
    Unset = Unset
CHECK_DEADLOCK FALSE
INVARIANTS TablesAgree OneJobChain
PROPERTIES CyclesSettle KeysRespected KeepsAcquiring
