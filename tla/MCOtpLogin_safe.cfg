SPECIFICATION Spec
CONSTANTS
    p1 = p1
    NoPhone = NoPhone
    TypedPhones <- Typed
    Workers = {w1, w2}
    RequestLimit = 2
    VerifyLimit = 2
    Window = 2
    OtpTtl = 1
    MaxVerifyAttempts = 3
    MaxIssues = 2
    MaxFaults = 1
SYMMETRY WorkerSymmetry
INVARIANTS
    TypeOK
    AttemptsCappedUnlessRaced
    GuessesPerCode
    SingleUseUnlessRaced
    OldCodeDeadUnlessCrossed
PROPERTIES
    CodeStandsUnlessCrossed
    LockoutBounded
