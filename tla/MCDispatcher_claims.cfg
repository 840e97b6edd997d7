SPECIFICATION Spec
CONSTANTS
    Dispatchers = {d1, d2}
    NumRows = 1
    SmsRows = {1}
    Unreachable = {}
    MaxAttempts = 2
    BatchSize = 1
    MaxFaults = 0
INVARIANTS
    RepeatsOnlyAfterFaults
CHECK_DEADLOCK FALSE
