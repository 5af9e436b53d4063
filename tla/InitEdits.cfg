SPECIFICATION FairSpec
CONSTANTS
    crd = crd
    crd2 = crd2
    cr = cr
    cr2 = cr2
    ns = ns
    cm = cm
    t1 = t1
    t2 = t2
    i1 = i1
    i2 = i2
    EmptyDoc = EmptyDoc
    BrokenDoc = BrokenDoc
    BrokenTemplate = BrokenTemplate
    BuiltIn = BuiltIn
    NoSource = NoSource
    NoTarget = NoTarget
    NoTemplate = NoTemplate
    NoPass = NoPass
    Object <- MCObject
    GroupKind <- MCGroupKind
    ProvidedBy <- MCProvidedBy
    NamespaceOf <- MCNamespaceOf
    Template <- MCTemplate
    SourceLists <- EditedSourceLists
    Texts <- EditedTexts
    Setups <- EditedOrShared
    Cluster = {c1, c2}
    Initializer = {i1}
    Foreign = {crd2}
    NumWorkers = 1
    MaxEdits = 1
    MaxFaults = 0
    MaxCrashes = 0
PROPERTIES EventuallyInitialized InitializerRemovedOnlyWhenComplete
CHECK_DEADLOCK FALSE
