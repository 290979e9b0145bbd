CONSTANTS
    LocalDirs = {home, sub}
    RemoteDirs = {home}
    Home = home
    None = None
    Question = Question
    MaxGen = 2
    MaxListings = 1
SPECIFICATION Spec
INVARIANTS
    Consistent
    ScanIsReal
    NoLeakedConnection
    PanesAreCurrent
    PicksAreHere
CHECK_DEADLOCK FALSE
