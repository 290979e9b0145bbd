CONSTANTS
    Stacked = 2
    Table <- MCTable
    Files <- MCFiles
    Escape = "escape"
    Help = "help"
    Lists <- MCLists
    GroupOrder <- MCGroups
SPECIFICATION UiSpec
VIEW View
INVARIANTS
    UiConsistent
    ShellOnScreen
    WayOut
    
    AppliedAsTold
    LeftoversAreDefaults
PROPERTIES
    SelectionStays
CHECK_DEADLOCK FALSE
