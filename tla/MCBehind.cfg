SPECIFICATION BehindSpec
CONSTANTS
    Topics = {t1, t2}
    Ops = {m1}
    page = page
    front = front
    topic = t1
    Screens <- MCScreens
    Address <- MCAddress
    MaxTroubles = 1
    None = None
    Failed = Failed
    Ids = {"i1"}
    Labels = {"l1", "l2"}
    Readers = {"r1", "r2"}
    MaxMisses = 1
    Requests = {"q1", "q2"}
    Mine = {"q1"}
    IsAdmin = TRUE
    Calls = {"c1"}
INVARIANTS
    BehindTypeOK
    SaidIsSo
PROPERTIES
    KeepsTheTray
    EveryMentionIsTallied
    ClearedIsShown
    KnownInTheEnd
    ListSettles
CHECK_DEADLOCK FALSE
