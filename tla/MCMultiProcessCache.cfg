SPECIFICATION Spec
CONSTANTS
    p1 = p1
    p2 = p2
    s = s
    Procs = {p1, p2, s}
    Savers = {p1, p2}
    Server = s
    Slots <- MCSlots
    Files <- MCFiles
    Pid <- MCPid
    Inodes = {i1, i2, i3}
    None = None
    MaxRestarts = 1
    MaxMerges = 2
    SaverMayDie = TRUE
    ServerMayDie = TRUE
CHECK_DEADLOCK FALSE
INVARIANTS
    CacheTypeOK
    LockExclusion
    OneWriterPerFile
    MergeSeesWholeFiles
    SavedIsKept
PROPERTIES
    OnlyHolderUnlinks
