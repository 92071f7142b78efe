SPECIFICATION MCSpec
CONSTANTS
    MaxPid = 3
    MaxTid = 4
    Addr = {a1, a2}
    Signal = {9, 10, 17}
    SigSets <- MCSigSets
    WaitSelectors = {}
    Limits = {0, 1}
    Calls = {}

INVARIANTS
    IndexesMatchStates
    NoSignalIsSleptThrough
    UnblockableNeverMasked
    PrivateFutexStaysInProcess

PROPERTIES
    SignalsReachTheirTarget

CHECK_DEADLOCK FALSE
