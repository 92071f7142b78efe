CONSTANTS
    Procs = {p1, p2}
    Initial = p1
    PageCount = 3
    Bases <- MCBases
    AddressLimit = 8
    MaterializeLimit = 1
    Images <- MCImages
    ImageBases = {1, 2}
    Mappings <- MCMappings
    Stores <- MCStores
    Cuts = {4, 7}
    MaxChanges = 2
    MaxEntries = 5
    ByteBits = 2
    FsBase = 32
    Jobs <- MCJobs
SPECIFICATION MCSpec
CHECK_DEADLOCK FALSE
INVARIANTS
    EveryFsSiteIsHandled
