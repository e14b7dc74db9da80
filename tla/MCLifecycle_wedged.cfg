SPECIFICATION FairSpec
CONSTANTS
    None = None
    Qemu = {q1, q2}
    Port = {a}
    Option <- AllOptions
    Cands = 1
    MayCrash = FALSE
    MayWedge = TRUE
PROPERTY StopsOnSignal
