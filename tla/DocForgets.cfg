SPECIFICATION FairSpec
CONSTANTS
    Absent = Absent
    Torn = Torn
    Nobody = Nobody
    Savers = {s1, s2}
    MaxChanges = 3
    MaxCrashes = 1
    MaxIOErrors = 0
    MaxCorruptions = 0
PROPERTY RestartRemembers
CHECK_DEADLOCK FALSE
