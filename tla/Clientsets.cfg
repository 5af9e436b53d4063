SPECIFICATION FairSpec
CONSTANTS
    Workspace = {root, ws}
    Root = root
    Wildcard = wildcard
    Caller = {c1, c2}
    MaxBurst = 1
    DefaultBurst = 1
    GivenBurst = 2
    MaxEdits = 1
INVARIANTS
    WithinBurst
PROPERTIES
    PanicsOnlyOfSharedConfig
    RequestsAreSent
