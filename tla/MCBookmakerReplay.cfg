SPECIFICATION AcquisitionSpec
CONSTANTS
    Executions = {e1}
    Cycles = {c1}
    Bundles <- FullAndPartial
    EnabledProviders <- BothEnabled
    SelectionMode = "both"
    MaximumAttempts = 2
    BlockedCooldown = 1
    AcquisitionInterval = 1
    MaxNow = 0
    NULL = NULL
    Keys = {k1}
    Contents = {d1}
    Quotas = {2}
    Reserve = 1
    JobIds = {1, 2, 3}
    MaxAttempts = 1
    MaxGeneration = 1
    MaxFaults = 0
    Overlap = FALSE
    Unset = Unset
CHECK_DEADLOCK FALSE
INVARIANTS SelectedIsComplete
