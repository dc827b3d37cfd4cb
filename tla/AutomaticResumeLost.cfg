SPECIFICATION AutomaticSpec
CONSTANTS
    Keys = {k1}
    Contents = {c1}
    Quotas = {2}
    Reserve = 1
    JobIds = {1, 2, 3}
    MaxAttempts = 3
    MaxGeneration = 3
    MaxFaults = 0
    Unset = Unset
CHECK_DEADLOCK FALSE
INVARIANTS StaysScheduled
