SPECIFICATION Spec
CONSTANTS
    HopLimit = 32
    MaxPosts = 34
    MaxWork = 0
    Times = {1}
    AnchorsFrom <- LastOnly
    None = None
    Elsewhere = Elsewhere
INVARIANT
    NothingEverDropped
CHECK_DEADLOCK FALSE
