SPECIFICATION FairSpec
CONSTANTS
    MsPerDay = 2
    o1 = o1
    o2 = o2
    r1 = r1
    r2 = r2
    Orders = {o1, o2}
    Refs = {r1, r2}
    NoRef = NoRef
    Terms <- PairTerms
    Notices <- PairNotices
    Times = {0}
    Workers = {w1, w2}
    NoJob = NoJob
    MaxFaults = 1
INVARIANTS
    RefRecordedOnce
    ReappliedOnlyInFlight
PROPERTIES
    EveryWebhookAnswered
    PaymentEventuallyRecorded
