SPECIFICATION Spec
CONSTANTS
    None = None
    Qemu = {q1, q2}
    Port = {a, b}
    Option <- AllOptions
    Cands = 2
    MayCrash = TRUE
    MayWedge = TRUE
SYMMETRY MCSymmetry
INVARIANTS FreshDisk PidFileIsCurrent EphemeralDiskGone DiskIsComplete
PROPERTIES PersistentDiskKept RivalStopsLaunch
