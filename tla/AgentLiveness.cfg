SPECIFICATION FairAgentSpec
CONSTANTS
    Name = {n1}
    WorkspaceType = {t1}
    Labels = {TRUE}
    Manager = {m1, m2}
    NoTarget = NoTarget
    NoManager = NoManager
    MaxUid = 2
    MaxFailures = 1
    MaxCrashes = 1
    Cluster = {c1}
INVARIANT OnePassPerTarget
PROPERTIES
    ClusterEventuallyReleased
    GoneTargetEndsPasses
    TargetEventuallyServed
    DeletedTargetStopsManager
