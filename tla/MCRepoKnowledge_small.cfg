SPECIFICATION Spec
CONSTANTS
    r1 = r1
    r2 = r2
    r3 = r3
    here = here
    there = there
    NoRun = NoRun
    NoName = NoName
    NoStatus = NoStatus
    BadTime = 9
    Tags = {}
    Workers = {w1, w2}
    Nobody = Nobody
    Commands <- SmallCommands
    Commits <- SmallCommits
    Root <- First
    CiRuns <- SmallRuns
    Origin = here
    PhaseFiles <- SmallFiles
    Nows = {6, 7}
    MaxCommits = 3
    MaxCommands = 3
INVARIANTS
    TypeOK
    PhasesKeptUnlessOverlapped
PROPERTIES
    ImplementsStore
    NoSourceHidden
SYMMETRY WorkerSymmetry
CHECK_DEADLOCK FALSE
