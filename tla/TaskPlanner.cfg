SPECIFICATION FairSpec
CONSTANTS
    r1 = r1
    r2 = r2
    Run <- MCRun
    MaxJobs = 1
    MaxEdits = 2
    NoTree = NoTree
INVARIANTS SlotsMatchRuns AbortReportedTruthfully EndedRunIsUndoable
PROPERTIES ResultIsFinal AdmittedRunReturns ImplementsJobSlots
