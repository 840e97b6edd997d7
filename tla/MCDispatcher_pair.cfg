SPECIFICATION Spec
CONSTANTS
    Dispatchers = {d1, d2}
    NumRows = 3
    SmsRows = {1, 2}
    Unreachable = {1}
    MaxAttempts = 3
    BatchSize = 2
    MaxFaults = 1
SYMMETRY DispatcherSymmetry
INVARIANTS
    TypeOK
    AttemptsBounded
    SentWasDelivered
    RepeatsOnlyFaultsOrShared
    AbandonedIsLogged
CHECK_DEADLOCK FALSE
