CONSTANTS
    Devices = {d1, d2}
    Servers = {s1}
    Hosts = {h1, h2}
    Keys = {k1, k2}
    Patient = TRUE
    MaxVersion = 3
    MaxSeals = 1
SPECIFICATION MCSpec
VIEW View
SYMMETRY Symmetry
INVARIANTS
    Consistent
    ShaIsHonest
PROPERTIES
    RemoteKeepsEntries
    KnownHostsKept
CHECK_DEADLOCK FALSE
