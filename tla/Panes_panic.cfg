CONSTANTS
    LocalDirs = {home, sub}
    RemoteDirs = {home}
    Home = home
    None = None
    Question = Question
    MaxGen = 2
    MaxListings = 1
SPECIFICATION Spec
INVARIANT NoPanic
CHECK_DEADLOCK FALSE
