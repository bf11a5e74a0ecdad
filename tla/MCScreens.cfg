SPECIFICATION SmallSpec
CONSTANTS
    None = None
    Calls = {"c1"}
    AgentCalls = {k1, k2}
    ToolNames = {"files", "search"}
    ToolsDeclared = {"search"}
    ToolPeople = {}
    ToolAdmins = {"a1", "a2"}
    HouseTools = {"files"}
    HouseDeclared = {}
    HousePeople = {"p1", "p2"}
    HouseAdmins = {"a1"}
    HouseStaff = {"p1"}
    HouseRooms = {"x", "hall"}
    HouseHidden = {"hall"}
    MaxUnread = 2
    Models = {"brain"}
    Pins = {"m1"}
    Tags = {"k:v"}
    MaxWrites = 1
    Names = {"n1", "n2"}
    Apps = {"s1"}
    First = "n1"
    MaxOthers = 1
    AgentRooms = {"x", "y"}
    MaxPosts = 1
    MaxPlacings = 2
    Agents = {"g1"}
    MaxMints = 3
    DeclareForms <- SomeForms
    EmptyForm <- Served
    HasRole = TRUE
    MaxPlaced = 1
    MaxHomes = 2
    Paths = {"placements", "x", "y"}
    Placements = "placements"
    MaxDecls = 1
SYMMETRY CallsAlike
INVARIANTS
    TypeOK
    SaidMeansDone
    UntouchedSaysTheSame
    ListsAreTrueInTurn
    CardAdmits
    CountLandsSomewhere
PROPERTIES
    StepsAreDoorsInTurn
    ClearedIsTheRoomShown
    ShownIsPlaced
CHECK_DEADLOCK FALSE
