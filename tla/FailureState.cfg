SPECIFICATION FairSpec
CONSTANTS
    c1 = c1
    c2 = c2
    sync = sync
    push = push
    Call <- MCCall
    Key <- MCKey
    NoKey = NoKey
    Threshold = 2
    MaxLog = 3
    MaxFaults = 1
INVARIANTS NoLostUpdate SerialReplayAgrees
PROPERTY CallsFinish
CHECK_DEADLOCK FALSE
