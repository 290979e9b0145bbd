CONSTANTS
    Names = {x, y}
    There = {x}
    None = None
    Whole = Whole
    MaxGen = 2
    MaxCopies = 2
    MaxEdits = 1
SPECIFICATION FairSpec
INVARIANTS
    Consistent
    TornIsExplained
PROPERTIES
    OnlyAskedFor
    CancelEnds
CHECK_DEADLOCK FALSE
