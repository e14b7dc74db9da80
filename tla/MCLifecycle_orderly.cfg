SPECIFICATION FairSpec
CONSTANTS
    None = None
    Qemu = {q1, q2}
    Port = {a}
    Option <- AllOptions
    Cands = 2
    MayCrash = FALSE
    MayWedge = FALSE
INVARIANTS TypeOK NoOrphan
PROPERTIES StopsOnSignal StopsWithGuest LaunchSettles
