SPECIFICATION SmallSpec
CONSTANTS
    Topics = {"a", "b", "home"}
    Rooms = {"home"}
    Texts = {}
    Posts = {}
    MaxNow = 2
    MaxFails = 0
    MaxActs = 1
    None = None
    Acts = {a1, a2}
    Agents = {g1, Placements}
    PlacementsName = Placements
    Hall = Hall
    MaxLapses = 1
INVARIANTS
    RoomsTypeOK
    ListedInTurn
PROPERTIES
    RoomsAgree
    NothingUnplaces
    LandsOnNewest
    ArchivedOnPurpose
    SettlesOnTheRecord
CHECK_DEADLOCK FALSE
