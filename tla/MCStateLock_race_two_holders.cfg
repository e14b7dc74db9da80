SPECIFICATION Spec
CONSTANTS
    p1 = p1
    p2 = p2
    p3 = p3
    Launcher = {p1, p2, p3}
    Ghost = Ghost
    NoFile = NoFile
    NoPid = NoPid
    Serial = FALSE
    MayCrash = FALSE
    WriteMayFail = FALSE
    ProbeMayFail = FALSE
    MayClean = FALSE
    GhostAlive = FALSE
CHECK_DEADLOCK FALSE
SYMMETRY MCSymmetry
INVARIANT MutualExclusion
