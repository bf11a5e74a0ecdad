SPECIFICATION SmallSpec
CONSTANTS
    SubjectsWritten <- TwoSubjects
    Filters <- SomeFilters
    Space <- Whole
    PageSize = 2
    TailSize = 1
    ScanLimit = 2
    Befores = {0, 2, 9}
    MaxLog = 4
    None = None
    Elsewhere = Elsewhere
    MaxWork = 1
    HopLimit = 2
    MaxPosts = 4
    Times = {1, 2}
    AnchorsFrom <- AnyAnchor
    Personas = {"ann", "bea", "cy"}
    Me = "cy"
    Called <- NameOf
    Begins <- ReadOutOf
    Fragments = {"a"}
    FitsName <- WordFits
    Limit = 1
    Workers = {"bea"}
INVARIANTS
    ReadingsTypeOK
    PagesAreWhole
    TruncationIsSaid
    ReadsBackwards
    NothingDropped
PROPERTIES
    TapsWhoWasMeant
CHECK_DEADLOCK FALSE
