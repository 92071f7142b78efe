SPECIFICATION Spec
CONSTANTS
    NoMemory = NoMemory
    NoTable = NoTable
    NoEntry = NoEntry
    v0 = v0
    v1 = v1
    s1 = s1
    s2 = s2
    e1 = e1
    MaxPid = 3
    Value = {v0, v1}
    Image = v0
    Fd = {3, 4}
    Socket = {s1, s2}
    Epoll = {e1}
    Workloads <- MCWorkloads

INVARIANTS
    ContextsAreWhole
    OpenWhileNamed

PROPERTIES
    ProcessesAreIsolated

CHECK_DEADLOCK FALSE
