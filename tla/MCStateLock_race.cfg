SPECIFICATION Spec
CONSTANTS
    p1 = p1
    p2 = p2
    p3 = p3
    Launcher = {p1, p2, p3}
    Ghost = Ghost
    NoFile = NoFile
    NoPid = NoPid
    Serial = FALSE
    MayCrash = TRUE
    WriteMayFail = TRUE
    ProbeMayFail = TRUE
    MayClean = TRUE
    GhostAlive = TRUE
CHECK_DEADLOCK FALSE
SYMMETRY MCSymmetry
INVARIANT SomeoneWins
PROPERTIES RefusalNamesHolder WaitFree
