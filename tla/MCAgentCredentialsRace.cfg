SPECIFICATION Spec
CONSTANTS
    Acts = {a1, a2, a3}
    Handles = {h1}
    People = {p1}
    None = None
SYMMETRY Symmetry
INVARIANT
    TooManyIsToldAnyway
CHECK_DEADLOCK FALSE
