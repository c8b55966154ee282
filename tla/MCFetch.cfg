SPECIFICATION FairSpec
CONSTANTS
    t1 = t1
    t2 = t2
    file1 = file1
    repo = repo
    tar = tar
    r1 = r1
    r2 = r2
    Tasks = {t1, t2}
    Procs = {t1, t2}
    Urls = {file1, repo, tar}
    Files = {file1, repo, tar}
    Revs = {r1, r2}
    Summed = {file1, tar}
    Mirror <- MCMirror
    Assignments <- MCAssignments
    DiskMayFail = TRUE
    MaxFaults = 1
    Inodes = {i1, i2, i3}
    None = None
CHECK_DEADLOCK FALSE
INVARIANTS
    FetchTypeOK
    StampTellsTruth
    UnpackGivesWanted
PROPERTIES
    FetchGivesWanted
    FileUnderLock
    FetchEnds
