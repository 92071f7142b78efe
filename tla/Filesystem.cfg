SPECIFICATION Spec
CONSTANTS
    SYMLINK_LIMIT = 2
    HostData <- MCHostData
    Pid = {1, 2}
    FIRST_ALLOC_FD = 1
    MaxFd = 3
    DEFAULT_PIPE_CAPACITY = 3
    MIN_PIPE_CAPACITY = 2
    MAX_COUNTER = 2
    NameOrder <- MCNameOrder
    SMALL_READ_CACHE_LIMIT = 2
    HOST_READ_HANDLE_CACHE_LIMIT = 1
    Scenarios <- MCScenarios

INVARIANTS
    FilesConsistent
    CachesFresh
    EndpointsCounted

PROPERTIES
    CallsKeepTheirPromises

CHECK_DEADLOCK FALSE
