CONSTANTS
    Dials = {d1, d2}
    NoDial = NoDial
    Other = Other
    Hosts = {h1}
    Keys = {k1, bad}
    Revoked = {bad}
SPECIFICATION FairSpec
INVARIANTS
    OnlyTrustedKeys
PROPERTIES
    FileGrowsByApproval
    PromptsEnd
    AbandonedAreClosed
CHECK_DEADLOCK FALSE
