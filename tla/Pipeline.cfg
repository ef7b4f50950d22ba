SPECIFICATION Spec
CONSTANTS
    q1 = q1
    q2 = q2
    Request <- MCRequest
    Ask <- MCAsk
    OutsideFact = {"feature"}
    FAILURE_BLOCK_THRESHOLD = 2
    CONSECUTIVE_FAILURE_WARNING_THRESHOLD = 2
    REPEATED_FAILURE_THRESHOLD = 1
    MaxJobs = 1
    MaxFailures = 4
    MaxShipFailures = 1
    MaxSlips = 1
    Counted = {"implement-feature", "ship"}
SYMMETRY MCSymmetry
INVARIANTS BreakerHolds
PROPERTIES ImplementsOffDefault
CHECK_DEADLOCK FALSE
