SPECIFICATION Spec
CONSTANTS
    MsPerDay = 2
    o1 = o1
    o2 = o2
    r1 = r1
    r2 = r2
    Orders = {o1}
    Refs = {r1, r2}
    NoRef = NoRef
    Terms <- RaceTerms
    Notices <- RaceNotices
    Times = {0, 3}
    Workers = {w1, w2, w3}
    NoJob = NoJob
    MaxFaults = 1
SYMMETRY WorkerSymmetry
INVARIANTS
    TypeOK
    OrderPaymentInSync
    ClockRunsForAdvances
    TimelineIsChain
    OutboxMatchesTimeline
    LateDeliveryWritesNothing
PROPERTIES
    ClockNeverRestarts
    LedgerSpec
