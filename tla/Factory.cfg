SPECIFICATION FairSpec
CONSTANTS
    Type = {t1, t2}
    Resource = {t1, t2, other}
    Caller = {c1, c2}
    StopCh = {s1}
    Tweak = {Nil}
    Transform = {Nil}
    Resync = {{}}
    NoCaller = NoCaller
    Nil = Nil
INVARIANTS TypeOK HandedOutIsShared NothingRunsAfterShutdown SyncedCachesAreFilled
PROPERTY ClosingReleases
