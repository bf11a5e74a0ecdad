SPECIFICATION Spec
CONSTANTS
    Paths = {p, x, y}
    Placements = p
    Agents = {g1}
    MaxDecls = 2
    None = None
PROPERTY
    ClickLandsSomewhere
CHECK_DEADLOCK FALSE
