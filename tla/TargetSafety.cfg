SPECIFICATION Spec
CONSTANTS
    Name = {n1}
    WorkspaceType = {t1, t2}
    Labels = {TRUE, FALSE}
    Manager = {m1, m2}
    NoTarget = NoTarget
    NoManager = NoManager
    MaxUid = 2
    MaxFailures = 1
    MaxCrashes = 1
SYMMETRY Symmetry
INVARIANTS
    TypeOK
    LiveManagerRegistered
    OneRunningManagerPerTarget
    StoppedOnlyWhenDeleted
