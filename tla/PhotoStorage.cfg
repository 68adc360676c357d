CONSTANTS
    NoRow = NoRow
    NoCall = NoCall
    CertNos = {c1, c2}
    Users = {ann}
    Files = {f1, f2}
    Saves = {s1, s2}
    Deletes = {d1}
    Signings = {g1, g2}
SPECIFICATION Spec
SYMMETRY Symmetry
CHECK_DEADLOCK FALSE
INVARIANTS
    TypeOK
    WantedFilesKept
    NothingPilesUp
