CONSTANTS
    WithPw = {web}
    WithKey = {web, git}
SPECIFICATION Spec
INVARIANTS
    KeysKept
    NothingLost
    UnlockedHoldsAll
CHECK_DEADLOCK FALSE
