SPECIFICATION Spec
CONSTANTS
    Fetcher = {p1, p2}
    N = 2
SYMMETRY MCSymmetry
INVARIANTS TypeOK MarkerMeansComplete OnlyVerifiedFiles
PROPERTY CachedCopyKept
