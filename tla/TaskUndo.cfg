SPECIFICATION UndoSpec
CONSTANTS
    f1 = f1
    f2 = f2
    r1 = r1
    r2 = r2
    u1 = u1
    c1 = c1
    File <- MCFile
    Run <- MCRun
    Request <- MCRequest
    Commit <- MCCommit
    User = User
    MaxRunning = 2
    Base = Base
    MaxFaults = 1
    None = None
SYMMETRY MCSymmetry
INVARIANTS TreeIsUnwound
PROPERTIES UndoIsOfTheNewest UndoSparesOthers
CHECK_DEADLOCK FALSE
CONSTRAINT OneDisturbance
