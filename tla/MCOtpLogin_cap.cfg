SPECIFICATION Spec
CONSTANTS
    p1 = p1
    NoPhone = NoPhone
    TypedPhones <- Typed
    Workers = {w1, w2}
    RequestLimit = 1
    VerifyLimit = 4
    Window = 3
    OtpTtl = 2
    MaxVerifyAttempts = 2
    MaxIssues = 1
    MaxFaults = 0
SYMMETRY WorkerSymmetry
INVARIANTS
    AttemptsCapped
