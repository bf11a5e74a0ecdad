SPECIFICATION Spec
CONSTANTS
    Topics = {a, b}
    Rooms = {}
    Texts = {x, y}
    Posts = {p1}
    MaxNow = 2
    MaxFails = 1
    MaxActs = 1
    None = None
SYMMETRY Symmetry
CONSTRAINT ActsAlone
PROPERTIES
    NamedPagesKeepTheirWord
    EmptiedByLanding
CHECK_DEADLOCK FALSE
