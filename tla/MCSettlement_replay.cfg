SPECIFICATION Spec
CONSTANTS
    MsPerDay = 2
    o1 = o1
    o2 = o2
    r1 = r1
    r2 = r2
    Orders = {o1}
    Refs = {r1, r2}
    NoRef = NoRef
    Terms <- ReplayTerms
    Notices <- ReplayNotices
    Times = {0}
    Workers = {w1, w2}
    NoJob = NoJob
    MaxFaults = 0
SYMMETRY WorkerSymmetry
PROPERTIES
    ReplayIsNoOp
