SPECIFICATION Spec
CONSTANTS
    Puller = {p1, p2, p3}
    Digest = {d1, d2}
    MayCrash = TRUE
SYMMETRY MCSymmetry
INVARIANTS TypeOK BlobIntegrity
PROPERTY ImplementsBlobStore
