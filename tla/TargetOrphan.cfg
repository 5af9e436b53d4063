SPECIFICATION Spec
CONSTANTS
    Name = {n1}
    WorkspaceType = {t1}
    Labels = {TRUE}
    Manager = {m1, m2}
    NoTarget = NoTarget
    NoManager = NoManager
    MaxUid = 1
    MaxFailures = 1
    MaxCrashes = 0
INVARIANT ManagersHaveTargets
