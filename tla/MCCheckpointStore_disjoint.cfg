\* Two writers of two versions, one of which also loads, and a reader; crashes and I/O errors anywhere.
CONSTANTS
    Versions = {1, 2}
    Contents = {a, b}
    Temps = {t1, t2}
    w1 = w1
    w2 = w2
    Writers = {w1, w2}
    Readers = {w1, r1}
    Saves <- Disjoint
    Absent = Absent
    Torn = Torn
    None = None
SYMMETRY Symmetry
SPECIFICATION Spec
INVARIANTS
    TypeOK
    NeverPartiallyVisible
    LatestNotStale
    ReadersAgree
PROPERTY ImplementsWriteOnce
