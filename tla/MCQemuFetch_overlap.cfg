SPECIFICATION Spec
CONSTANTS
    Fetcher = {p1, p2}
    N = 2
SYMMETRY MCSymmetry
INVARIANT ReturnedDirComplete
