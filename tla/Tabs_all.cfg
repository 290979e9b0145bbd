CONSTANTS
    Servers = {web, db}
    NoServer = NoServer
    MaxTabs = 3
    MaxGen = 3
    LockedKeys = TRUE
SPECIFICATION FairSpec
INVARIANTS
    KeysGoHome
    NoOrphanSessions
    EveryTabDriven
PROPERTIES
    ViewIsStable
    RetryHappens
CHECK_DEADLOCK FALSE
