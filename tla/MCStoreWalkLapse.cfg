SPECIFICATION Spec
CONSTANTS
    SubjectsWritten <- TwoSubjects
    Filters <- FewFilters
    Space <- Whole
    PageSize = 2
    TailSize = 1
    ScanLimit = 2
    Befores = {0, 2, 9}
    MaxLog = 4
INVARIANT
    PagesAreWholeAnyway
CHECK_DEADLOCK FALSE
