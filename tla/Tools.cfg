SPECIFICATION Spec
CONSTANTS
    Names = {1, 2, 3}
    Contents <- FewContents
    MaxListEntries = 2
    MaxReadLines = 2
    MaxReadOutput = 4
    MaxSearchFiles = 2
    MaxSearchResults = 3
    MaxMatchesPerFile = 1
    MaxEdits = 1
CHECK_DEADLOCK FALSE
INVARIANTS PagesAddUp 
