SPECIFICATION FairSpec
CONSTANTS
    ship = ship
    rebase = rebase
    fix = fix
    here = here
    there = there
    Execution <- MCExecution
    Repository <- MCRepository
    Repo <- MCRepo
    Workflow <- MCWorkflow
    Steps <- MCSteps
    Gated <- MCGated
    Cancellable <- MCCancellable
    Asking <- MCAsking
    MaxJobs = 1
    Nobody = Nobody
INVARIANTS TrackedAwaitsOrWorks NoUnapprovedWork StopsAtFirstFailure RecordedOncePerCrossing
PROPERTIES SubmittedFinishes AlreadyMeansAborted
