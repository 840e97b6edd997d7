SPECIFICATION FairSpec
CONSTANTS
    Dispatchers = {d1, d2}
    NumRows = 2
    SmsRows = {1, 2}
    Unreachable = {1}
    MaxAttempts = 2
    BatchSize = 1
    MaxFaults = 1
PROPERTIES
    EveryRowResolved
CHECK_DEADLOCK FALSE
