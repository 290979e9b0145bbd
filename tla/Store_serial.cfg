CONSTANTS
    Servers = {web, db}
    Keyed = {web}
    Cmds = {c1, c2}
    Files = {f1, f2}
    NoFile = NoFile
    Serial = TRUE
    MaxRev = 2
SPECIFICATION Spec
SYMMETRY Symmetry
INVARIANTS
    Consistent
    AddsStay
PROPERTY OneCommandAtATime
CHECK_DEADLOCK FALSE
