SPECIFICATION FairSpec
CONSTANTS
    Cluster = {w1, w2}
    Name = {a, b}
    Everything = Everything
    NotFound = NotFound
    MaxWrites = 3
    MaxBreaks = 2
INVARIANTS ListersAgree OnlyTweakedObjects QuietCachesAreCurrent
PROPERTY CachesCatchUp
CHECK_DEADLOCK FALSE
