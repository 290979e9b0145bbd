CONSTANTS
    OutCap = 1
    MaxChunks = 2
SPECIFICATION SessionFairSpec
INVARIANTS
    SessionTypeOK
    LostOnlyIfLinkFailed
PROPERTIES
    OutputIsAStream
    DeadLinkIsReported
    EndIsReported
CHECK_DEADLOCK FALSE
