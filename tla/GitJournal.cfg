SPECIFICATION Spec
CONSTANTS
    o1 = o1
    o2 = o2
    u1 = u1
    u2 = u2
    main = main
    feature = feature
    Op <- MCOp
    Undo <- MCUndo
    Kind <- MCKind
    Branch <- MCBranch
    Main = main
    MaxJobs = 1
    MaxFaults = 1
    None = None
SYMMETRY MCSymmetry
INVARIANTS NoLostEntries JournalIsTrue PublishedIsKept StoppedIsNewest
PROPERTY NothingRunsStopped
CHECK_DEADLOCK FALSE
