SPECIFICATION FairTemplatesSpec
CONSTANTS
    config = config
    wst = wst
    wstPath = wstPath
    Segment = {"blank", "clusters", "kcp", config, wst, wstPath}
    Cluster = {config, wst}
    Path = {wstPath}
    ResolvedTo <- MCResolvedTo
    KubeconfigHost <- Servers
    ConfigWorkspace = {config, wstPath}
    MaxTargets = 2
    Empty = Empty
    Nowhere = Nowhere
    Worker = {w1}
    New = {c1}
    Template <- MCTemplate
    Random = {r1, r2}
    Nil = Nil
INVARIANTS
    ClientsAddressTheirWorkspace
    RetriesRenderTheSame
PROPERTY EventuallyRendered
