SPECIFICATION Spec
CONSTANTS
    r1 = r1
    r2 = r2
    r3 = r3
    here = here
    there = there
    NoRun = NoRun
    NoName = NoName
    NoStatus = NoStatus
    BadTime = 9
    Tags = {}
    Workers = {w1, w2}
    Nobody = Nobody
    Commands <- ReadCommands
    Commits <- SmallCommits
    Root <- First
    CiRuns = {}
    Origin = here
    PhaseFiles = {}
    Nows = {6}
    MaxCommits = 2
    MaxCommands = 3
INVARIANTS
    VerifyNeverTorn
SYMMETRY WorkerSymmetry
CHECK_DEADLOCK FALSE
