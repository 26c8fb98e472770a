SPECIFICATION FairSpec
CONSTANTS
    Absent = Absent
    Torn = Torn
    Nobody = Nobody
    Savers = {s1, s2}
    MaxChanges = 3
    MaxCrashes = 2
    MaxIOErrors = 0
    MaxCorruptions = 1
PROPERTY RollbackKeepsACopy
CHECK_DEADLOCK FALSE
