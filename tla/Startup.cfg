SPECIFICATION FairSpec
CONSTANTS
    Replica = {r1, r2}
    Selector = {none, good, bad}
    Parses = {good}
    NoSelector = none
    Nobody = Nobody
    MaxFailures = 3
INVARIANTS CompleteNeverFails OneReplicaServes
PROPERTY SomeReplicaServes
CHECK_DEADLOCK FALSE
