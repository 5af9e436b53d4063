SPECIFICATION FairSpec
CONSTANTS
    crd = crd
    crd2 = crd2
    cr = cr
    cr2 = cr2
    ns = ns
    cm = cm
    t1 = t1
    t2 = t2
    i1 = i1
    i2 = i2
    EmptyDoc = EmptyDoc
    BrokenDoc = BrokenDoc
    BrokenTemplate = BrokenTemplate
    BuiltIn = BuiltIn
    NoSource = NoSource
    NoTarget = NoTarget
    NoTemplate = NoTemplate
    NoPass = NoPass
    Object <- MCObject
    GroupKind <- MCGroupKind
    ProvidedBy <- MCProvidedBy
    NamespaceOf <- MCNamespaceOf
    Template <- MCTemplate
    SourceLists <- NoSourceLists
    Texts <- NoTexts
    Setups <- PairSetups
    Cluster = {c1}
    Initializer = {i1, i2}
    Foreign = {}
    NumWorkers = 1
    MaxEdits = 0
    MaxFaults = 1
    MaxCrashes = 1
INVARIANTS
    TypeOK
    NeverForgotten
    PrerequisitesFirst
PROPERTIES
    ReleasedOnlyWhenApplied
    PromiseKept
    EventuallyInitialized
    DoneClusterForgotten
CHECK_DEADLOCK FALSE
