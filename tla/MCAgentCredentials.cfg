SPECIFICATION Spec
CONSTANTS
    Acts = {a1, a2, a3, a4}
    Handles = {h1}
    People = {p1, p2}
    None = None
SYMMETRY Symmetry
INVARIANTS
    TypeOK
    NothingHalfMade
    LockedOutOnPurposeOnly
PROPERTIES
    TakenAwayMeansOut
CHECK_DEADLOCK FALSE
