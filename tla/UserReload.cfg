SPECIFICATION FairSpec
CONSTANTS
    Users = {u}
    Handlers = {h1, h2}
    Nobody = Nobody
    Absent = Absent
    Torn = Torn
    MaxEdits = 2
    MaxRollbacks = 1
    MaxIOErrors = 1
INVARIANTS TypeOK EditsAreNoticed
PROPERTIES EditsAreServed PruneFollowsEdits
CHECK_DEADLOCK FALSE
