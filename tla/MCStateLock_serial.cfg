SPECIFICATION FairSpec
CONSTANTS
    p1 = p1
    p2 = p2
    p3 = p3
    Launcher = {p1, p2, p3}
    Ghost = Ghost
    NoFile = NoFile
    NoPid = NoPid
    Serial = TRUE
    MayCrash = TRUE
    WriteMayFail = FALSE
    ProbeMayFail = FALSE
    MayClean = FALSE
    GhostAlive = FALSE
CHECK_DEADLOCK FALSE
INVARIANT HolderOwnsFile
PROPERTY ImplementsExclusiveLock
PROPERTY FreeLockIsTaken
