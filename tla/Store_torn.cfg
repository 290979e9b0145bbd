CONSTANTS
    Servers = {web, db}
    Keyed = {}
    Cmds = {c1, c2}
    Files = {f1, f2, f3}
    NoFile = NoFile
    Serial = FALSE
    MaxRev = 2
SPECIFICATION Spec
INVARIANT AlwaysWhole
CHECK_DEADLOCK FALSE
