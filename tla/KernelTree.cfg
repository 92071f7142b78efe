SPECIFICATION MCSpec
CONSTANTS
    MaxPid = 5
    MaxTid = 6
    Addr = {}
    Signal = {17}
    SigSets = {}
    WaitSelectors <- MCSelectors
    Limits = {}
    Calls = {}

INVARIANTS
    KernelInv

PROPERTIES
    LivesEndOnce
    EachWaiterReapsItsOwnChild
    WaitsAreForChildren

CHECK_DEADLOCK FALSE
