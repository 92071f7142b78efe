SPECIFICATION FairSpec
CONSTANTS
    Worker = {w1, w2}
    Job = {j1, j2, j3}
    Capacity = 2

INVARIANTS
    NoLostWakeup
    ShutdownDrains

PROPERTIES
    ImplementsContract
    AcceptedJobIsAnswered

CHECK_DEADLOCK FALSE
