CONSTANTS
    Pids = {1, 2}
    BrkBase = 3
    MmapBase = 4
    End = 8
    Granularity = 2
    Scenarios <- MCScenarios
    MaxAllocations = 5
    MaxAsked = 5
    NoMemory = NoMemory
SPECIFICATION Spec

INVARIANTS
    MemoryWellFormed

PROPERTIES
    CallsReportTheirChanges
    FlatMemory

CHECK_DEADLOCK FALSE
